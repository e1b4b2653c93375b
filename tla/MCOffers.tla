---- MODULE MCOffers ----
\* The instance of Offers that TLC explores: its employers, names and skills.
EXTENDS Offers

CONSTANTS E1, E2,              \* employers
          T1, T2, T3, A1, A2,  \* internal names; analyses that hold them
          PowerBi, PowerBI, Pmp, Sql, Nothing   \* names of skills; two of one skill

WindowD == <<0, 3>>
Spelled == [n \in {E1, E2} |-> n]
ThreeRatings == {[tenths |-> 35, reviews |-> 9], [tenths |-> 99, reviews |-> 5],
                 [tenths |-> 20, reviews |-> 2]}
NamesIn == [m \in {A1, A2} |-> IF m = A1 THEN {T1, T2} ELSE {T2, T3}]

SkillKey == [n \in {PowerBi, PowerBI, Pmp, Sql, Nothing} |->
               IF n \in {PowerBi, PowerBI} THEN 1 ELSE IF n = Pmp THEN 2
               ELSE IF n = Sql THEN 3 ELSE 0]
RegionsOf == [d \in {"75", "20", "2A", "974"} |->
                CASE d = "75" -> "idf" [] d = "974" -> "reunion" [] OTHER -> "corse"]

ThreeAnswers == {<<PowerBi, PowerBI, Pmp>>, <<Pmp, Nothing, Sql>>, <<Sql, PowerBi>>}
====
