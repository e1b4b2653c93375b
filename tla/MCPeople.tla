---- MODULE MCPeople ----
\* The instance of People that TLC explores: its addresses, requests and CVs.
EXTENDS People

CONSTANTS a, q1, q2,                          \* an address; requests
          L1, L2, L3, N1, Plain, Snk, New, NewSnk   \* lines and skills of a CV

LowerCase == [e \in Spellings |-> a]
TwoKinds == {<<"pdf", "pdf">>, <<"docx", "docx">>}
\* A date, then a notice with the status left as it is.
TwoForms == {[status |-> "date", date |-> TRUE, notice |-> FALSE],
             [status |-> "unset", date |-> FALSE, notice |-> TRUE]}

Line(text, original) == [text |-> text, original |-> original]
TwoCvs == {[skills |-> <<Plain>>, jobs |-> << <<L1, L2>>, <<L3>> >>],
           [skills |-> <<Plain>>, jobs |-> << << >>, <<L1, L2>> >>]}
\* One answer leaves a job out and repeats a skill; the other forgets to quote,
\* quotes a line of another job and invents a job.
TwoAnswers ==
  {[skills |-> <<NewSnk, New, Plain>>, jobs |-> << <<Line(N1, L1)>> >>],
   [skills |-> << >>,
    jobs |-> << <<Line(L2, NoBullet), Line(N1, NoBullet)>>, <<Line(N1, L3)>>,
                <<Line(N1, NoBullet)>> >>]}
\* L1 and L2 look alike: one of them may be taken for the other.
Similar == {<<l, l>> : l \in {L1, L2, L3, N1}} \cup {<<L1, L2>>, <<L2, L1>>}
OneOldSkill == <<Snk>>
WithUnderscore == {Snk, NewSnk}
\* Nothing tells the tabs apart, nor the offers.
Symmetry == Permutations(Tabs) \cup Permutations(Offered)
Cleaned == [s \in {Snk, NewSnk, Plain, New} |-> IF s = NewSnk THEN New ELSE s]
====
