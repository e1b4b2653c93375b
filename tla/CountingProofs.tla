---------------------------- MODULE CountingProofs ----------------------------
(***************************************************************************)
(* What the screens and the digests are computed with: the least and the       *)
(* largest of some numbers, sums over finite sets, and division with remainder. *)
(* An induction over a finite set is stated over the set of the parts it has   *)
(* reached, not over a predicate.                                             *)
(***************************************************************************)
EXTENDS Integers, FiniteSetsExt, FiniteSetTheorems, WellFoundedInduction, TLAPS

\* Some numbers have a least one.
LEMMA LeastNumber ==
  ASSUME NEW T \in SUBSET Nat, T # {}
  PROVE  \E n \in T : \A m \in T : n <= m
<1>1. PICK R : R = OpToRel(<, Nat)
  OBVIOUS
<1>2. IsWellFoundedOn(R, Nat)
  BY <1>1, NatLessThanWellFounded
<1>3. PICK n \in T : \A m \in T : ~(<<m, n>> \in R)
  BY <1>2, WFMin
<1>4. \A m \in T : <<m, n>> \in R <=> m < n
  BY <1>1 DEF OpToRel
<1>5. \A m \in T : m \in Nat
  OBVIOUS
<1>6. ASSUME NEW m \in T PROVE n <= m
  <2>1. ~(<<m, n>> \in R)
    BY <1>3
  <2>2. ~(m < n)
    BY <1>4, <2>1
  <2> QED
    BY <1>5, <2>2
<1> QED
  BY <1>6

\* The values a function takes on a finite set are finitely many.
LEMMA FiniteImage ==
  ASSUME NEW S, IsFiniteSet(S), NEW f
  PROVE  IsFiniteSet({f[x] : x \in S})
<1> DEFINE g == [x \in S |-> f[x]]
<1>1. g \in Surjection(S, {f[x] : x \in S})
  BY DEF Surjection
<1> HIDE DEF g
<1> QED
  BY <1>1, FS_Surjection

\* What holds of no element, and of a set whenever it holds of the set less any
\* one of its elements, holds of every part of a finite set.
LEMMA OneByOne ==
  ASSUME NEW S, IsFiniteSet(S), NEW G \in SUBSET (SUBSET S),
         {} \in G,
         \A A \in SUBSET S : A # {} /\ (\A x \in A : A \ {x} \in G) => A \in G
  PROVE  \A A \in SUBSET S : A \in G
<1>1. \A A \in SUBSET S : IsFiniteSet(A) /\ Cardinality(A) \in Nat
  BY FS_Subset, FS_CardinalityType
<1>2. SUFFICES ASSUME NEW B \in SUBSET S, B \notin G PROVE FALSE
  OBVIOUS
<1>3. PICK T : T = {Cardinality(A) : A \in (SUBSET S) \ G}
  OBVIOUS
<1>4. T \subseteq Nat /\ T # {}
  BY <1>1, <1>2, <1>3
<1>5. PICK n \in T : \A m \in T : n <= m
  BY <1>4, LeastNumber
<1>8. \A m \in T : ~(m < n)
  BY <1>4, <1>5
<1>9. PICK A \in (SUBSET S) \ G : n = Cardinality(A)
  BY <1>3
<1>10. ASSUME NEW x \in A, A \ {x} \notin G PROVE FALSE
  <2>1. Cardinality(A \ {x}) \in T
    BY <1>3, <1>9, <1>10
  <2>2. IsFiniteSet(A) /\ Cardinality(A) \in Nat
    BY <1>1, <1>9
  <2>3. Cardinality(A \ {x}) = Cardinality(A) - 1
    BY <2>2, FS_RemoveElement
  <2> QED
    BY <1>8, <1>9, <2>1, <2>2, <2>3
<1> QED
  BY <1>9, <1>10

Adds(H, f, S) ==
  /\ H \in [SUBSET S -> Nat] /\ H[{}] = 0
  /\ \A A \in SUBSET S : \A x \in A : H[A] = f[x] + H[A \ {x}]

\* There is a function that adds up the values of a function over finite sets.
LEMMA SumsExist ==
  ASSUME NEW S, IsFiniteSet(S), NEW f, \A x \in S : f[x] \in Nat
  PROVE  \E H : Adds(H, f, S)
<1> DEFINE G == {A \in SUBSET S : \E H : Adds(H, f, A)}
<1>1. {} \in G
  <2> DEFINE H == [A \in SUBSET {} |-> 0]
  <2>1. Adds(H, f, {})
    BY DEF Adds
  <2> QED
    BY <2>1
<1>2. ASSUME NEW A \in SUBSET S, A # {}, \A x \in A : A \ {x} \in G
      PROVE  A \in G
  <2>0. PICK a : a \in A
    BY <1>2
  <2>1. PICK H : Adds(H, f, A \ {a})
    BY <1>2, <2>0
  <2> DEFINE K == [B \in SUBSET A |-> IF a \in B THEN f[a] + H[B \ {a}] ELSE H[B]]
  <2>2. f[a] \in Nat /\ \A B \in SUBSET A : B \ {a} \in SUBSET (A \ {a}) /\ (a \notin B => B \ {a} = B)
    BY <2>0
  <2>3. H \in [SUBSET (A \ {a}) -> Nat]
    BY <2>1 DEF Adds
  <2>4. ASSUME NEW B \in SUBSET A PROVE K[B] \in Nat
    <3>1. CASE a \in B
      BY <3>1, <2>2, <2>3
    <3>2. CASE a \notin B
      BY <3>2, <2>2, <2>3
    <3> QED
      BY <3>1, <3>2
  <2>5. K \in [SUBSET A -> Nat]
    BY <2>4
  <2>6. K[{}] = 0
    BY <2>1 DEF Adds
  <2>7. ASSUME NEW B \in SUBSET A, NEW x \in B PROVE K[B] = f[x] + K[B \ {x}]
    <3>1. CASE x = a
      BY <3>1, <2>2
    <3>2. CASE x # a /\ a \in B
      <4>1. H[B \ {a}] = f[x] + H[(B \ {a}) \ {x}]
        BY <2>1, <3>2, <2>2 DEF Adds
      <4>2. (B \ {a}) \ {x} = (B \ {x}) \ {a}
        OBVIOUS
      <4>3. K[B] = f[a] + H[B \ {a}] /\ K[B \ {x}] = f[a] + H[(B \ {x}) \ {a}]
        BY <3>2
      <4>4. f[x] \in Nat /\ f[a] \in Nat /\ H[(B \ {x}) \ {a}] \in Nat
        <5>1. (B \ {x}) \ {a} \in SUBSET (A \ {a})
          OBVIOUS
        <5> QED
          BY <2>2, <2>3, <5>1
      <4>5. K[B] = f[a] + (f[x] + H[(B \ {x}) \ {a}])
        BY <4>1, <4>2, <4>3
      <4> HIDE DEF K
      <4> QED
        BY <4>3, <4>4, <4>5
    <3>3. CASE x # a /\ a \notin B
      <4>1. B \in SUBSET (A \ {a})
        BY <3>3
      <4>2. H[B] = f[x] + H[B \ {x}]
        BY <2>1, <4>1 DEF Adds
      <4> QED
        BY <3>3, <4>2
    <3> QED
      BY <3>1, <3>2, <3>3
  <2>8. Adds(K, f, A)
    BY <2>5, <2>6, <2>7 DEF Adds
  <2> QED
    BY <2>8
<1>3. G \in SUBSET (SUBSET S)
  OBVIOUS
<1> HIDE DEF G
<1>4. S \in G
  BY <1>1, <1>2, <1>3, OneByOne
<1> QED
  BY <1>4 DEF G

\* The sum of the community modules is that function.
LEMMA SumIsTheOne ==
  ASSUME NEW S, IsFiniteSet(S), NEW f, NEW H, Adds(H, f, S)
  PROVE  SumFunctionOnSet(f, S) = H[S]
<1> DEFINE c(s) == CHOOSE x \in s : TRUE
           Step(g) == [s \in SUBSET S |-> IF s = {} THEN 0 ELSE f[c(s)] + g[s \ {c(s)}]]
           iter == CHOOSE g : g = Step(g)
<1>1. SumFunctionOnSet(f, S) = iter[S]
  BY DEF SumFunctionOnSet, FoldFunctionOnSet, MapThenFoldSet
<1>2. \A s \in SUBSET S : s # {} => c(s) \in s
  OBVIOUS
<1>3. H = Step(H)
  BY <1>2 DEF Adds
<1>4. iter = Step(iter)
  BY <1>3
<1> DEFINE G == {A \in SUBSET S : iter[A] = H[A]}
<1>5. {} \in G
  <2>1. H[{}] = 0
    BY DEF Adds
  <2>2. iter[{}] = 0
    BY <1>4
  <2> QED
    BY <2>1, <2>2
<1>6. ASSUME NEW A \in SUBSET S, A # {}, \A y \in A : A \ {y} \in G
      PROVE  A \in G
  <2> HIDE DEF iter
  <2>1. c(A) \in A /\ A \ {c(A)} \in SUBSET S
    BY <1>2, <1>6
  <2>2. iter[A] = f[c(A)] + iter[A \ {c(A)}]
    BY <1>4, <1>6
  <2>3. H[A] = f[c(A)] + H[A \ {c(A)}]
    BY <1>3, <1>6
  <2> QED
    BY <1>6, <2>1, <2>2, <2>3
<1> HIDE DEF G, iter
<1>7. G \in SUBSET (SUBSET S)
  BY DEF G
<1>8. S \in G
  BY <1>5, <1>6, <1>7, OneByOne
<1> QED
  BY <1>1, <1>8 DEF G

\* Sums are numbers; an element adds its value.
LEMMA SumsAdd ==
  ASSUME NEW S, IsFiniteSet(S), NEW f, \A x \in S : f[x] \in Nat
  PROVE  /\ \A A \in SUBSET S : SumFunctionOnSet(f, A) \in Nat
         /\ SumFunctionOnSet(f, {}) = 0
         /\ \A A \in SUBSET S : \A x \in A :
              SumFunctionOnSet(f, A) = f[x] + SumFunctionOnSet(f, A \ {x})
<1>1. PICK H : Adds(H, f, S)
  BY SumsExist
<1>2. ASSUME NEW A \in SUBSET S PROVE SumFunctionOnSet(f, A) = H[A]
  <2> DEFINE K == [B \in SUBSET A |-> H[B]]
  <2>1. Adds(K, f, A)
    BY <1>1 DEF Adds
  <2>2. IsFiniteSet(A)
    BY FS_Subset
  <2>3. K[A] = H[A]
    OBVIOUS
  <2> HIDE DEF K
  <2> QED
    BY <2>1, <2>2, <2>3, SumIsTheOne
<1> QED
  BY <1>1, <1>2 DEF Adds

\* The sum of larger values is larger.
LEMMA SumsGrow ==
  ASSUME NEW S, IsFiniteSet(S), NEW f, NEW g,
         \A x \in S : f[x] \in Nat /\ g[x] \in Nat /\ f[x] <= g[x]
  PROVE  SumFunctionOnSet(f, S) <= SumFunctionOnSet(g, S)
<1> DEFINE F(A) == SumFunctionOnSet(f, A)
           E(A) == SumFunctionOnSet(g, A)
           G == {A \in SUBSET S : F(A) <= E(A)}
<1>1. /\ \A A \in SUBSET S : F(A) \in Nat /\ E(A) \in Nat
      /\ F({}) = 0 /\ E({}) = 0
      /\ \A A \in SUBSET S : \A x \in A : F(A) = f[x] + F(A \ {x}) /\ E(A) = g[x] + E(A \ {x})
  BY SumsAdd
<1> HIDE DEF F, E
<1>2. {} \in G
  BY <1>1
<1>3. ASSUME NEW A \in SUBSET S, A # {}, \A x \in A : A \ {x} \in G
      PROVE  A \in G
  <2>1. PICK x \in A : TRUE
    BY <1>3
  <2>2. F(A \ {x}) \in Nat /\ E(A \ {x}) \in Nat /\ F(A \ {x}) <= E(A \ {x})
    BY <1>1, <1>3, <2>1
  <2>3. F(A) = f[x] + F(A \ {x}) /\ E(A) = g[x] + E(A \ {x})
    BY <1>1, <2>1
  <2> QED
    BY <2>2, <2>3
<1>4. G \in SUBSET (SUBSET S)
  OBVIOUS
<1> HIDE DEF G
<1>5. S \in G
  BY <1>2, <1>3, <1>4, OneByOne
<1> QED
  BY <1>5 DEF G, F, E

\* The sum over a set is that over one part and that over the rest.
LEMMA SumsSplit ==
  ASSUME NEW S, IsFiniteSet(S), NEW f, \A x \in S : f[x] \in Nat, NEW B \in SUBSET S
  PROVE  SumFunctionOnSet(f, S) = SumFunctionOnSet(f, B) + SumFunctionOnSet(f, S \ B)
<1> DEFINE F(A) == SumFunctionOnSet(f, A)
           G == {A \in SUBSET S : F(A) = F(A \intersect B) + F(A \ B)}
<1>1. /\ \A A \in SUBSET S : F(A) \in Nat
      /\ F({}) = 0
      /\ \A A \in SUBSET S : \A x \in A : F(A) = f[x] + F(A \ {x})
  BY SumsAdd
<1> HIDE DEF F
<1>2. {} \in G
  <2>1. {} \intersect B = {} /\ {} \ B = {}
    OBVIOUS
  <2> QED
    BY <1>1, <2>1
<1>3. ASSUME NEW A \in SUBSET S, A # {}, \A x \in A : A \ {x} \in G
      PROVE  A \in G
  <2>1. PICK x \in A : TRUE
    BY <1>3
  <2>2. A \ {x} \in SUBSET S /\ A \intersect B \in SUBSET S /\ A \ B \in SUBSET S
    OBVIOUS
  <2>3. F(A) = f[x] + F(A \ {x})
    BY <1>1, <2>1
  <2>4. F(A \ {x}) = F((A \ {x}) \intersect B) + F((A \ {x}) \ B)
    BY <1>3, <2>1
  <2>5. f[x] \in Nat
    BY <2>1
  <2>6. CASE x \in B
    <3>1. (A \ {x}) \intersect B = (A \intersect B) \ {x} /\ (A \ {x}) \ B = A \ B
      BY <2>6
    <3>2. F(A \intersect B) = f[x] + F((A \intersect B) \ {x})
      BY <1>1, <2>1, <2>2, <2>6
    <3>3. F((A \intersect B) \ {x}) \in Nat /\ F(A \ B) \in Nat
      BY <1>1, <2>2
    <3>4. F(A) = f[x] + (F((A \intersect B) \ {x}) + F(A \ B))
      BY <2>3, <2>4, <3>1
    <3>5. F(A) = F(A \intersect B) + F(A \ B)
      BY <2>5, <3>2, <3>3, <3>4
    <3> QED
      BY <3>5
  <2>7. CASE x \notin B
    <3>1. (A \ {x}) \intersect B = A \intersect B /\ (A \ {x}) \ B = (A \ B) \ {x}
      BY <2>7
    <3>2. F(A \ B) = f[x] + F((A \ B) \ {x})
      BY <1>1, <2>1, <2>2, <2>7
    <3>3. F((A \ B) \ {x}) \in Nat /\ F(A \intersect B) \in Nat
      BY <1>1, <2>2
    <3>4. \A i, j, k \in Nat : i + (j + k) = j + (i + k)
      OBVIOUS
    <3>5. F(A) = f[x] + (F(A \intersect B) + F((A \ B) \ {x}))
      BY <2>3, <2>4, <3>1
    <3>6. F(A) = F(A \intersect B) + F(A \ B)
      BY <2>5, <3>2, <3>3, <3>4, <3>5
    <3> QED
      BY <3>6
  <2> QED
    BY <2>6, <2>7
<1>4. G \in SUBSET (SUBSET S)
  OBVIOUS
<1> HIDE DEF G
<1>5. S \in G
  BY <1>2, <1>3, <1>4, OneByOne
<1>6. S \intersect B = B
  OBVIOUS
<1> QED
  BY <1>5, <1>6 DEF G, F

\* The sum over a part is not more than that over the whole.
LEMMA SumsOfParts ==
  ASSUME NEW S, IsFiniteSet(S), NEW f, \A x \in S : f[x] \in Nat, NEW B \in SUBSET S
  PROVE  SumFunctionOnSet(f, B) <= SumFunctionOnSet(f, S)
<1>1. S \ B \in SUBSET S
  OBVIOUS
<1>2. /\ SumFunctionOnSet(f, B) \in Nat /\ SumFunctionOnSet(f, S \ B) \in Nat
      /\ SumFunctionOnSet(f, S) \in Nat
  BY <1>1, SumsAdd
<1>3. SumFunctionOnSet(f, S) = SumFunctionOnSet(f, B) + SumFunctionOnSet(f, S \ B)
  BY SumsSplit
<1> QED
  BY <1>2, <1>3

\* Sums over parts that share nothing make up the sum over all of them.
LEMMA SumsOfGroups ==
  ASSUME NEW S, IsFiniteSet(S), NEW f, \A x \in S : f[x] \in Nat,
         NEW D, IsFiniteSet(D), NEW K \in [D -> SUBSET S],
         \A d, e \in D : d # e => K[d] \intersect K[e] = {},
         NEW h, \A d \in D : h[d] = SumFunctionOnSet(f, K[d])
  PROVE  SumFunctionOnSet(h, D) <= SumFunctionOnSet(f, S)
<1> DEFINE All(E) == UNION {K[d] : d \in E}
           F(A) == SumFunctionOnSet(f, A)
           H(E) == SumFunctionOnSet(h, E)
           G == {E \in SUBSET D : H(E) = F(All(E))}
<1>1. /\ \A A \in SUBSET S : F(A) \in Nat
      /\ F({}) = 0
      /\ \A A \in SUBSET S : \A B \in SUBSET A : F(A) = F(B) + F(A \ B)
      /\ \A A \in SUBSET S : F(A) <= F(S)
  <2>1. \A A \in SUBSET S : IsFiniteSet(A)
    BY FS_Subset
  <2>2. ASSUME NEW A \in SUBSET S, NEW B \in SUBSET A PROVE F(A) = F(B) + F(A \ B)
    BY <2>1, SumsSplit
  <2> QED
    BY <2>2, SumsAdd, SumsOfParts
<1>2. \A d \in D : h[d] \in Nat /\ h[d] = F(K[d])
  BY <1>1
<1>3. /\ H({}) = 0
      /\ \A E \in SUBSET D : \A d \in E : H(E) = h[d] + H(E \ {d})
  BY <1>2, SumsAdd
<1> HIDE DEF F, H
<1>4. {} \in G
  <2>1. All({}) = {}
    OBVIOUS
  <2> QED
    BY <1>1, <1>3, <2>1
<1>5. ASSUME NEW E \in SUBSET D, E # {}, \A d \in E : E \ {d} \in G
      PROVE  E \in G
  <2>1. PICK d : d \in E
    BY <1>5
  <2>2. All(E) \in SUBSET S /\ K[d] \in SUBSET All(E)
    BY <2>1
  <2>3. All(E) \ K[d] = All(E \ {d})
    BY <2>1
  <2>4. F(All(E)) = F(K[d]) + F(All(E \ {d}))
    BY <1>1, <2>2, <2>3
  <2>5. H(E \ {d}) = F(All(E \ {d})) /\ E \ {d} \in SUBSET D
    BY <1>5, <2>1
  <2>6. H(E) = h[d] + H(E \ {d})
    BY <1>3, <2>1
  <2> HIDE DEF All
  <2>7. H(E) = F(All(E))
    BY <1>2, <2>1, <2>4, <2>5, <2>6
  <2> QED
    BY <2>7
<1>6. G \in SUBSET (SUBSET D)
  OBVIOUS
<1>7. All(D) \in SUBSET S
  OBVIOUS
<1> HIDE DEF G, All
<1>8. D \in G
  BY <1>4, <1>5, <1>6, OneByOne
<1>9. H(D) = F(All(D))
  BY <1>8 DEF G
<1>10. F(All(D)) <= F(S)
  BY <1>1, <1>7
<1>11. SumFunctionOnSet(h, D) = H(D) /\ SumFunctionOnSet(f, S) = F(S)
  BY DEF F, H
<1> QED
  BY <1>9, <1>10, <1>11

\* Counting is adding ones.
LEMMA SumsOfOnes ==
  ASSUME NEW S, IsFiniteSet(S), NEW one, \A x \in S : one[x] = 1
  PROVE  \A A \in SUBSET S : SumFunctionOnSet(one, A) = Cardinality(A)
<1> DEFINE F(A) == SumFunctionOnSet(one, A)
           G == {A \in SUBSET S : F(A) = Cardinality(A)}
<1>1. /\ F({}) = 0
      /\ \A A \in SUBSET S : \A x \in A : F(A) = one[x] + F(A \ {x})
  BY SumsAdd
<1> HIDE DEF F
<1>2. {} \in G
  BY <1>1, FS_EmptySet
<1>3. ASSUME NEW A \in SUBSET S, A # {}, \A x \in A : A \ {x} \in G
      PROVE  A \in G
  <2>1. PICK x \in A : TRUE
    BY <1>3
  <2>2. F(A \ {x}) = Cardinality(A \ {x}) /\ F(A) = 1 + F(A \ {x})
    BY <1>1, <1>3, <2>1
  <2>3. IsFiniteSet(A) /\ Cardinality(A) \in Nat
    BY FS_Subset, FS_CardinalityType
  <2>4. Cardinality(A \ {x}) = Cardinality(A) - 1
    BY <2>1, <2>3, FS_RemoveElement
  <2>5. F(A) = Cardinality(A)
    BY <2>2, <2>3, <2>4
  <2> QED
    BY <2>5
<1>4. G \in SUBSET (SUBSET S)
  OBVIOUS
<1> HIDE DEF G
<1>5. G = SUBSET S
  BY <1>2, <1>3, <1>4, OneByOne
<1> QED
  BY <1>5 DEF G, F

\* Numbers up to a bound have a largest one.
LEMMA LargestNumber ==
  ASSUME NEW N \in Nat, NEW S \in SUBSET (0..N), S # {}
  PROVE  \E s \in S : \A r \in S : r <= s
<1>1. PICK gaps : gaps = {N - s : s \in S}
  OBVIOUS
<1>2. \A s \in S : s \in Int /\ N - s \in Nat
  OBVIOUS
<1>3. PICK g \in gaps : \A h \in gaps : g <= h
  <2>1. gaps \in SUBSET Nat /\ gaps # {}
    BY <1>1, <1>2
  <2> QED
    BY <2>1, LeastNumber
<1>4. PICK s \in S : g = N - s
  BY <1>1, <1>3
<1>5. ASSUME NEW r \in S PROVE r <= s
  <2>1. N - s <= N - r
    BY <1>1, <1>3, <1>4
  <2> QED
    BY <1>2, <2>1
<1> QED
  BY <1>5

\* Finitely many integers have a largest one.
LEMMA LargestOfFew ==
  ASSUME NEW S, IsFiniteSet(S), S \subseteq Int, S # {}
  PROVE  \E s \in S : \A r \in S : s >= r
<1> DEFINE G == {A \in SUBSET S : A # {} => \E s \in A : \A r \in A : s >= r}
<1>1. G \in SUBSET (SUBSET S) /\ {} \in G
  OBVIOUS
<1>2. ASSUME NEW A \in SUBSET S, A # {}, \A x \in A : A \ {x} \in G PROVE A \in G
  <2>1. PICK x \in A : TRUE
    BY <1>2
  <2>2. CASE A \ {x} = {}
    BY <2>1, <2>2
  <2>3. CASE A \ {x} # {}
    <3>1. PICK s \in A \ {x} : \A r \in A \ {x} : s >= r
      BY <1>2, <2>3
    <3>2. PICK m \in {x, s} : m >= x /\ m >= s
      BY <2>1, <3>1
    <3>3. \A r \in A : m >= r
      BY <2>1, <3>1, <3>2
    <3> QED
      BY <3>1, <3>2, <3>3
  <2> QED
    BY <2>2, <2>3
<1> HIDE DEF G
<1>3. S \in G
  BY <1>1, <1>2, OneByOne
<1> QED
  BY <1>3 DEF G

\* Division with remainder.
LEMMA Quotient ==
  ASSUME NEW a \in Nat, NEW w \in Nat, w > 0
  PROVE  /\ a \div w \in Nat /\ a % w \in Nat /\ a % w < w
         /\ a = (a \div w) * w + (a % w)
  OBVIOUS

\* Products keep the order of their first factors.
LEMMA ProductsKeepOrder ==
  ASSUME NEW i \in Nat, NEW j \in Nat, NEW w \in Nat, i <= j
  PROVE  i * w \in Nat /\ j * w \in Nat /\ i * w <= j * w
  OBVIOUS

\* And have it from them.
LEMMA CancelFactor ==
  ASSUME NEW i \in Nat, NEW j \in Nat, NEW w \in Nat, w > 0, i * w < j * w
  PROVE  i < j
  OBVIOUS

\* Of two times the one in the later period is within as many periods of the
\* other as they are apart.
LEMMA PeriodsApart ==
  ASSUME NEW t \in Nat, NEW u \in Nat, NEW w \in Nat, w > 0, NEW n \in Nat,
         t \div w <= (u \div w) + n
  PROVE  u >= t - (n + 1) * w
<1>1. PICK q \in Nat, r \in Nat : q = t \div w /\ r = u \div w
  BY Quotient
<1>2. t < q * w + w /\ r * w <= u /\ q * w \in Nat /\ r * w \in Nat
  <2>1. t % w \in Nat /\ t % w < w /\ t = q * w + (t % w)
    BY <1>1, Quotient
  <2>2. u % w \in Nat /\ u = r * w + (u % w)
    BY <1>1, Quotient
  <2> QED
    BY <2>1, <2>2
<1>3. q * w <= (r + n) * w
  BY <1>1, ProductsKeepOrder
<1>4. (r + n) * w = r * w + n * w /\ (n + 1) * w = n * w + w /\ n * w \in Nat
  BY <1>1
<1> QED
  BY <1>2, <1>3, <1>4
===============================================================================
