-------------------------- MODULE StatementsProofs --------------------------
(***************************************************************************)
(* What holds of Statements for every set of accounts, periods, sessions   *)
(* and requests: the figures of the statements and of the reports, however *)
(* the requests interleave with postings, reversals and new mappings.      *)
(*                                                                         *)
(* The figures are sums over the ledger, and the order of evaluation is a  *)
(* recursion over a graph: both are recursive functions, and what they     *)
(* compute is shown by way of the least member of a set of naturals.       *)
(***************************************************************************)
EXTENDS Statements, FiniteSetTheorems, FunctionTheorems, SequenceTheorems,
        WellFoundedInduction, TLAPS

----------------------------------------------------------------------------
(* Induction and sums                                                      *)

(* A set of naturals has a least element.                                  *)
LEMMA Least ==
  ASSUME NEW T \in SUBSET Nat, T # {}
  PROVE  \E n \in T : \A m \in T : n <= m
<1> DEFINE R == OpToRel(<, Nat)
<1>1. IsWellFoundedOn(R, Nat)
  BY NatLessThanWellFounded
<1> HIDE DEF R
<1>2. PICK n \in T : \A m \in T : ~(<<m, n>> \in R)
  BY <1>1, WFMin
<1>3. \A m \in T : ~(m < n)
  <2> SUFFICES ASSUME NEW m \in T, m < n PROVE FALSE
    OBVIOUS
  <2>1. <<m, n>> \in R
    BY DEF R, OpToRel
  <2> QED
    BY <2>1, <1>2
<1> QED
  BY <1>3

(* Induction over the naturals, of a set.                                  *)
LEMMA SetOfNaturals ==
  ASSUME NEW G, 0 \in G, \A n \in Nat : n \in G => n + 1 \in G
  PROVE  \A n \in Nat : n \in G
<1> DEFINE T == Nat \ G
<1> SUFFICES ASSUME T # {} PROVE FALSE
  OBVIOUS
<1>1. PICK n \in T : \A m \in T : n <= m
  <2> HIDE DEF T
  <2>1. T \in SUBSET Nat
    BY DEF T
  <2> QED
    BY <2>1, Least
<1>2. n - 1 \in Nat /\ n - 1 \notin T /\ (n - 1) + 1 = n
  BY <1>1
<1> QED
  BY <1>1, <1>2

(* The folds of the community modules, over the subsets of a domain.       *)
One(s) == CHOOSE x \in s : TRUE

Step(f, g, s) == IF s = {} THEN 0 ELSE f[One(s)] + g[s \ {One(s)}]

SumsOf(f) ==
  CHOOSE sum : sum = [s \in SUBSET DOMAIN f |->
                        IF s = {} THEN 0
                        ELSE f[CHOOSE x \in s : TRUE] + sum[s \ {CHOOSE x \in s : TRUE}]]

(* The recursion defines the sums of a function over finite sets.          *)
LEMMA SumsDefined ==
  ASSUME NEW f, IsFiniteSet(DOMAIN f)
  PROVE  /\ SumFunction(f) = SumsOf(f)[DOMAIN f]
         /\ \A s \in SUBSET DOMAIN f : SumsOf(f)[s] = Step(f, SumsOf(f), s)
<1> DEFINE D == DOMAIN f
           Upto(g, n) == [s \in SUBSET D |-> IF Cardinality(s) <= n THEN Step(f, g, s) ELSE 0]
           G == {n \in Nat : \E g : g = Upto(g, n)}
<1>1. ASSUME NEW s \in SUBSET D PROVE IsFiniteSet(s) /\ Cardinality(s) \in Nat
  BY FS_Subset, FS_CardinalityType
<1>2. 0 \in G
  <2> DEFINE g == [s \in SUBSET D |-> 0]
  <2>1. \A s \in SUBSET D : Cardinality(s) <= 0 => s = {}
    BY <1>1, FS_EmptySet
  <2>2. g = Upto(g, 0)
    BY <2>1 DEF Step
  <2> QED
    BY <2>2
<1>3. ASSUME NEW n \in Nat, n \in G PROVE n + 1 \in G
  <2>1. PICK g : g = Upto(g, n)
    BY <1>3
  <2> DEFINE h == Upto(g, n + 1)
  <2>2. ASSUME NEW s \in SUBSET D, Cardinality(s) <= n + 1 PROVE Step(f, h, s) = Step(f, g, s)
    <3>1. CASE s = {}
      BY <3>1 DEF Step
    <3>2. CASE s # {}
      <4> DEFINE t == s \ {One(s)}
      <4>1. One(s) \in s
        BY <3>2 DEF One
      <4>2. t \in SUBSET D /\ Cardinality(t) = Cardinality(s) - 1
        BY <4>1, <1>1, FS_RemoveElement
      <4>3. Cardinality(t) <= n /\ Cardinality(t) <= n + 1
        BY <4>2, <2>2, <1>1
      <4>4. h[t] = Step(f, g, t) /\ g[t] = Step(f, g, t)
        BY <4>2, <4>3, <2>1
      <4> QED
        BY <3>2, <4>4 DEF Step
    <3> QED
      BY <3>1, <3>2
  <2>3. \A s \in SUBSET D : (IF Cardinality(s) <= n + 1 THEN Step(f, g, s) ELSE 0)
                             = (IF Cardinality(s) <= n + 1 THEN Step(f, h, s) ELSE 0)
    BY <2>2
  <2>4. h = Upto(h, n + 1)
    BY <2>3
  <2>5. \E k : k = Upto(k, n + 1)
    BY <2>4
  <2> HIDE DEF Upto
  <2> QED
    BY <2>5
<1>4. Cardinality(D) \in G
  <2> HIDE DEF G
  <2> QED
    BY <1>1, <1>2, <1>3, SetOfNaturals
<1>5. PICK g : g = Upto(g, Cardinality(D))
  BY <1>4
<1>6. g = [s \in SUBSET D |-> Step(f, g, s)]
  <2>1. \A s \in SUBSET D : Cardinality(s) <= Cardinality(D)
    BY FS_Subset
  <2> QED
    BY <1>5, <2>1
<1>7. SumsOf(f) = [s \in SUBSET D |-> Step(f, SumsOf(f), s)]
  BY <1>6 DEF SumsOf, Step, One
<1>8. SumFunction(f) = SumsOf(f)[DOMAIN f]
  BY DEF SumFunction, SumFunctionOnSet, FoldFunctionOnSet, MapThenFoldSet, SumsOf
<1> QED
  BY <1>7, <1>8

(* Functions that agree on a set have one sum over it.                     *)
LEMMA SumsAgree ==
  ASSUME NEW f, NEW g, IsFiniteSet(DOMAIN f), IsFiniteSet(DOMAIN g),
         NEW s \in SUBSET (DOMAIN f \cap DOMAIN g), \A x \in s : f[x] = g[x]
  PROVE  SumsOf(f)[s] = SumsOf(g)[s]
<1> DEFINE G == {n \in Nat : \A t \in SUBSET s : Cardinality(t) = n => SumsOf(f)[t] = SumsOf(g)[t]}
<1>1. ASSUME NEW t \in SUBSET s PROVE IsFiniteSet(t) /\ Cardinality(t) \in Nat
  BY FS_Subset, FS_CardinalityType
<1>2. ASSUME NEW t \in SUBSET s
      PROVE  /\ SumsOf(f)[t] = Step(f, SumsOf(f), t)
             /\ SumsOf(g)[t] = Step(g, SumsOf(g), t)
  BY SumsDefined
<1>3. 0 \in G
  <2> SUFFICES ASSUME NEW t \in SUBSET s, Cardinality(t) = 0 PROVE SumsOf(f)[t] = SumsOf(g)[t]
    OBVIOUS
  <2>1. t = {}
    BY <1>1, FS_EmptySet
  <2> QED
    BY <1>2, <2>1 DEF Step
<1>4. ASSUME NEW n \in Nat, n \in G PROVE n + 1 \in G
  <2> SUFFICES ASSUME NEW t \in SUBSET s, Cardinality(t) = n + 1
               PROVE  SumsOf(f)[t] = SumsOf(g)[t]
    OBVIOUS
  <2>1. t # {} /\ One(t) \in t
    BY FS_EmptySet DEF One
  <2>2. Cardinality(t \ {One(t)}) = n
    <3>1. Cardinality(t \ {One(t)}) = Cardinality(t) - 1
      BY <1>1, <2>1, FS_RemoveElement
    <3> QED
      BY <3>1
  <2>3. SumsOf(f)[t \ {One(t)}] = SumsOf(g)[t \ {One(t)}]
    BY <2>2, <1>4
  <2> QED
    BY <1>2, <2>1, <2>3 DEF Step
<1>5. Cardinality(s) \in G
  <2> HIDE DEF G
  <2> QED
    BY <1>1, <1>3, <1>4, SetOfNaturals
<1> QED
  BY <1>5

(* A sum of integers is one.                                               *)
LEMMA SumsInt ==
  ASSUME NEW D, IsFiniteSet(D), NEW f \in [D -> Int]
  PROVE  \A s \in SUBSET D : SumsOf(f)[s] \in Int
<1> DEFINE S == SumsOf(f)
           G == {n \in Nat : \A s \in SUBSET D : Cardinality(s) = n => S[s] \in Int}
<1>1. ASSUME NEW s \in SUBSET D PROVE IsFiniteSet(s) /\ Cardinality(s) \in Nat
  BY FS_Subset, FS_CardinalityType
<1>2. ASSUME NEW s \in SUBSET D
      PROVE  S[s] = IF s = {} THEN 0 ELSE f[One(s)] + S[s \ {One(s)}]
  BY SumsDefined DEF Step
<1> HIDE DEF S
<1>3. 0 \in G
  <2> SUFFICES ASSUME NEW s \in SUBSET D, Cardinality(s) = 0 PROVE S[s] \in Int
    OBVIOUS
  <2>1. s = {}
    BY <1>1, FS_EmptySet
  <2>2. S[s] = 0
    BY <1>2, <2>1
  <2> QED
    BY <2>2
<1>4. ASSUME NEW n \in Nat, n \in G PROVE n + 1 \in G
  <2> SUFFICES ASSUME NEW s \in SUBSET D, Cardinality(s) = n + 1 PROVE S[s] \in Int
    OBVIOUS
  <2>1. s # {} /\ One(s) \in s
    BY FS_EmptySet DEF One
  <2>2. Cardinality(s \ {One(s)}) = Cardinality(s) - 1 /\ s \ {One(s)} \in SUBSET D
    BY <1>1, <2>1, FS_RemoveElement
  <2>3. S[s \ {One(s)}] \in Int
    BY <2>2, <1>4
  <2>4. f[One(s)] \in Int
    BY <2>1
  <2>5. S[s] = f[One(s)] + S[s \ {One(s)}]
    BY <1>2, <2>1
  <2> QED
    BY <2>3, <2>4, <2>5
<1>5. \A n \in Nat : n \in G
  <2> HIDE DEF G
  <2> QED
    BY <1>3, <1>4, SetOfNaturals
<1> QED
  BY <1>1, <1>5 DEF S

(* An element may be taken out of a sum, whichever.                        *)
LEMMA SumsTakeOut ==
  ASSUME NEW D, IsFiniteSet(D), NEW f \in [D -> Int], NEW s \in SUBSET D, NEW x \in s
  PROVE  SumsOf(f)[s] = f[x] + SumsOf(f)[s \ {x}]
<1> DEFINE S == SumsOf(f)
           Out(r) == \A y \in r : S[r] = f[y] + S[r \ {y}]
           G == {n \in Nat : \A r \in SUBSET D : Cardinality(r) = n => Out(r)}
<1>1. ASSUME NEW r \in SUBSET D PROVE IsFiniteSet(r) /\ Cardinality(r) \in Nat
  BY FS_Subset, FS_CardinalityType
<1>2. ASSUME NEW r \in SUBSET D
      PROVE  S[r] = IF r = {} THEN 0 ELSE f[One(r)] + S[r \ {One(r)}]
  BY SumsDefined DEF Step
<1>3. \A r \in SUBSET D : S[r] \in Int
  BY SumsInt
<1> HIDE DEF S
<1>4. 0 \in G
  <2>1. \A r \in SUBSET D : Cardinality(r) = 0 => r = {}
    BY <1>1, FS_EmptySet
  <2> QED
    BY <2>1
<1>5. ASSUME NEW n \in Nat, n \in G PROVE n + 1 \in G
  <2> SUFFICES ASSUME NEW q \in SUBSET D, Cardinality(q) = n + 1, NEW z \in q
               PROVE  S[q] = f[z] + S[q \ {z}]
    OBVIOUS
  <2> DEFINE o == One(q)
  <2>1. o \in q
    BY DEF One
  <2>2. S[q] = f[o] + S[q \ {o}]
    BY <1>2, <2>1
  <2> HIDE DEF o
  <2>3. \A y \in q : q \ {y} \in SUBSET D /\ Cardinality(q \ {y}) = n
    <3> SUFFICES ASSUME NEW y \in q PROVE Cardinality(q \ {y}) = n
      OBVIOUS
    <3>1. Cardinality(q \ {y}) = Cardinality(q) - 1
      BY <1>1, FS_RemoveElement
    <3> QED
      BY <3>1
  <2>4. \A y \in q : Out(q \ {y})
    BY <1>5, <2>3
  <2>5. CASE z = o
    BY <2>5, <2>2
  <2>6. CASE z # o
    <3> DEFINE r == (q \ {o}) \ {z}
    <3>1. S[q \ {o}] = f[z] + S[r]
      BY <2>4, <2>6, <2>1
    <3>2. S[q \ {z}] = f[o] + S[(q \ {z}) \ {o}]
      BY <2>4, <2>6, <2>1
    <3>3. (q \ {z}) \ {o} = r /\ r \in SUBSET D
      OBVIOUS
    <3> HIDE DEF r
    <3>4. S[r] \in Int /\ f[z] \in Int /\ f[o] \in Int
      BY <3>3, <1>3, <2>1
    <3>5. S[q \ {z}] = f[o] + S[r]
      BY <3>2, <3>3
    <3>6. S[q] = f[o] + (f[z] + S[r])
      BY <2>2, <3>1
    <3>7. \A i, j, k \in Int : i + (j + k) = j + (i + k)
      OBVIOUS
    <3>8. f[o] + (f[z] + S[r]) = f[z] + (f[o] + S[r])
      BY <3>4, <3>7
    <3> QED
      BY <3>5, <3>6, <3>8
  <2> QED
    BY <2>5, <2>6
<1>6. \A n \in Nat : n \in G
  <2> HIDE DEF G
  <2> QED
    BY <1>4, <1>5, SetOfNaturals
<1>7. Out(s)
  BY <1>1, <1>6
<1> QED
  BY <1>7 DEF S

(* The part of a function on a set.                                        *)
On(f, s) == [x \in s |-> f[x]]

(* A sum over a part.                                                      *)
LEMMA SumOfPart ==
  ASSUME NEW D, IsFiniteSet(D), NEW f \in [D -> Int], NEW s \in SUBSET D
  PROVE  SumFunction(On(f, s)) = SumsOf(f)[s] /\ SumFunction(On(f, s)) \in Int
<1>1. IsFiniteSet(s)
  BY FS_Subset
<1>2. DOMAIN On(f, s) = s /\ DOMAIN f = D /\ \A x \in s : On(f, s)[x] = f[x]
  BY DEF On
<1>3. SumFunction(On(f, s)) = SumsOf(On(f, s))[s]
  BY <1>1, <1>2, SumsDefined
<1>4. SumsOf(On(f, s))[s] = SumsOf(f)[s]
  BY <1>1, <1>2, SumsAgree
<1> QED
  BY <1>3, <1>4, SumsInt

(* A sum, and a sum without one of its terms.                              *)
LEMMA SumTakeOut ==
  ASSUME NEW D, IsFiniteSet(D), NEW f \in [D -> Int]
  PROVE  /\ SumFunction(f) \in Int
         /\ \A x \in D : SumFunction(f) = f[x] + SumFunction(On(f, D \ {x}))
<1>1. f = On(f, D)
  BY DEF On
<1>2. SumFunction(f) = SumsOf(f)[D] /\ SumFunction(f) \in Int
  BY <1>1, SumOfPart
<1>3. \A x \in D : SumFunction(On(f, D \ {x})) = SumsOf(f)[D \ {x}]
  BY SumOfPart
<1>4. \A x \in D : SumsOf(f)[D] = f[x] + SumsOf(f)[D \ {x}]
  BY SumsTakeOut
<1> QED
  BY <1>2, <1>3, <1>4

(* A sum of nothing.                                                       *)
LEMMA SumOfNothing ==
  ASSUME NEW f, DOMAIN f = {}
  PROVE  SumFunction(f) = 0
<1>1. IsFiniteSet(DOMAIN f)
  BY FS_EmptySet
<1> QED
  BY <1>1, SumsDefined DEF Step

(* Whether a sum is formed at once or by groups.                           *)
LEMMA SumByGroups ==
  ASSUME NEW D, IsFiniteSet(D), NEW K, IsFiniteSet(K), NEW f \in [D -> Int], NEW g \in [D -> K]
  PROVE  SumFunction(f) =
           SumFunction([k \in K |-> SumFunction(On(f, {x \in D : g[x] = k}))])
<1> DEFINE S == SumsOf(f)
           Grouped(s, k) == {x \in s : g[x] = k}
           Groups(s) == [k \in K |-> S[Grouped(s, k)]]
           G == {n \in Nat : \A s \in SUBSET D : Cardinality(s) = n =>
                               S[s] = SumFunction(Groups(s))}
<1>1. ASSUME NEW s \in SUBSET D PROVE IsFiniteSet(s) /\ Cardinality(s) \in Nat
  BY FS_Subset, FS_CardinalityType
<1>2. \A s \in SUBSET D : S[s] \in Int
  BY SumsInt
<1>3. \A s \in SUBSET D : \A x \in s : S[s] = f[x] + S[s \ {x}]
  <2>1. ASSUME NEW s \in SUBSET D, NEW x \in s PROVE S[s] = f[x] + S[s \ {x}]
    BY SumsTakeOut
  <2> QED
    BY <2>1
<1>4. S[{}] = 0
  BY SumsDefined, FS_Subset DEF Step
<1>5. \A s \in SUBSET D : SumFunction(On(f, s)) = S[s]
  BY SumOfPart
<1>6. SumFunction(f) = S[D]
  <2>1. f = On(f, D)
    BY DEF On
  <2> QED
    BY <2>1, <1>5
<1> HIDE DEF S
<1>7. \A s \in SUBSET D : Groups(s) \in [K -> Int]
  BY <1>2
<1>8. 0 \in G
  <2> SUFFICES ASSUME NEW s \in SUBSET D, Cardinality(s) = 0
               PROVE  S[s] = SumFunction(Groups(s))
    OBVIOUS
  <2>1. s = {}
    BY <1>1, FS_EmptySet
  <2>2. \A k \in K : Grouped(s, k) = {} /\ Groups(s)[k] = 0
    BY <2>1, <1>4
  <2> DEFINE zero == [k \in K |-> 0]
  <2>3. Groups(s) = zero
    BY <2>2
  <2>4. SumFunction(zero) = 0
    <3> DEFINE H == {n \in Nat : \A t \in SUBSET K : Cardinality(t) = n => SumsOf(zero)[t] = 0}
    <3>1. \A t \in SUBSET K : IsFiniteSet(t) /\ Cardinality(t) \in Nat
      BY FS_Subset, FS_CardinalityType
    <3>2. zero \in [K -> Int] /\ DOMAIN zero = K /\ \A k \in K : zero[k] = 0
      OBVIOUS
    <3> HIDE DEF zero
    <3>3. 0 \in H
      <4>1. \A t \in SUBSET K : Cardinality(t) = 0 => t = {}
        BY <3>1, FS_EmptySet
      <4>2. SumsOf(zero)[{}] = 0
        BY <3>2, SumsDefined DEF Step
      <4> QED
        BY <4>1, <4>2
    <3>4. ASSUME NEW n \in Nat, n \in H PROVE n + 1 \in H
      <4> SUFFICES ASSUME NEW t \in SUBSET K, Cardinality(t) = n + 1 PROVE SumsOf(zero)[t] = 0
        OBVIOUS
      <4>0. t # {}
        BY FS_EmptySet
      <4>1. PICK k \in t : TRUE
        BY <4>0
      <4>2. Cardinality(t \ {k}) = Cardinality(t) - 1
        BY <3>1, FS_RemoveElement
      <4>3. SumsOf(zero)[t \ {k}] = 0
        BY <4>2, <3>4
      <4>4. SumsOf(zero)[t] = zero[k] + SumsOf(zero)[t \ {k}]
        BY <3>2, SumsTakeOut
      <4> QED
        BY <4>3, <4>4, <3>2
    <3>5. \A n \in Nat : n \in H
      <4> HIDE DEF H
      <4> QED
        BY <3>3, <3>4, SetOfNaturals
    <3>6. SumsOf(zero)[K] = 0
      BY <3>1, <3>5
    <3> QED
      BY <3>2, <3>6, SumsDefined
  <2> HIDE DEF zero
  <2> QED
    BY <2>1, <2>3, <2>4, <1>4
<1>9. ASSUME NEW n \in Nat, n \in G PROVE n + 1 \in G
  <2> HIDE DEF Groups
  <2> SUFFICES ASSUME NEW s \in SUBSET D, Cardinality(s) = n + 1
               PROVE  S[s] = SumFunction(Groups(s))
    OBVIOUS
  <2> USE DEF Groups
  <2>1. PICK x \in s : TRUE
    BY FS_EmptySet
  <2> DEFINE t == s \ {x}
             j == g[x]
  <2>2. t \in SUBSET D /\ Cardinality(t) = n
    <3>1. Cardinality(t) = Cardinality(s) - 1
      BY <1>1, FS_RemoveElement
    <3> QED
      BY <3>1
  <2>3. S[t] = SumFunction(Groups(t))
    BY <2>2, <1>9
  <2>4. S[s] = f[x] + S[t]
    BY <1>3
  <2>5. j \in K /\ f[x] \in Int
    OBVIOUS
  <2>6. \A k \in K \ {j} : Grouped(s, k) = Grouped(t, k)
    OBVIOUS
  <2>7. Grouped(s, j) \ {x} = Grouped(t, j) /\ x \in Grouped(s, j) /\ Grouped(s, j) \in SUBSET D
    OBVIOUS
  <2>8. S[Grouped(s, j)] = f[x] + S[Grouped(t, j)]
    BY <2>7, <1>3
  <2> DEFINE a == Groups(s)
             b == Groups(t)
  <2>9. a \in [K -> Int] /\ b \in [K -> Int]
    BY <2>2, <1>7
  <2>10. a[j] = f[x] + b[j]
    BY <2>5, <2>8
  <2>11. \A k \in K \ {j} : a[k] = b[k]
    BY <2>6
  <2> HIDE DEF a, b, t, j, Of
  <2>12. On(a, K \ {j}) = On(b, K \ {j})
    BY <2>11 DEF On
  <2>13. /\ SumFunction(a) = a[j] + SumFunction(On(a, K \ {j}))
         /\ SumFunction(b) = b[j] + SumFunction(On(b, K \ {j}))
    BY <2>5, <2>9, SumTakeOut
  <2>14. SumFunction(On(b, K \ {j})) \in Int /\ b[j] \in Int
    BY <2>5, <2>9, SumOfPart
  <2>15. SumFunction(a) = f[x] + SumFunction(b)
    BY <2>5, <2>10, <2>12, <2>13, <2>14
  <2> QED
    BY <2>3, <2>4, <2>15 DEF a, b
<1>10. \A n \in Nat : n \in G
  <2> HIDE DEF G
  <2> QED
    BY <1>8, <1>9, SetOfNaturals
<1>11. S[D] = SumFunction(Groups(D))
  BY <1>1, <1>10
<1>12. Groups(D) = [k \in K |-> SumFunction(On(f, {x \in D : g[x] = k}))]
  BY <1>5
<1> QED
  BY <1>6, <1>11, <1>12

(* A sum over two sets that are apart.                                     *)
LEMMA SumOfTwo ==
  ASSUME NEW A, NEW B, IsFiniteSet(A), IsFiniteSet(B), A \cap B = {}, NEW f \in [A \cup B -> Int]
  PROVE  SumFunction(f) = SumFunction(On(f, A)) + SumFunction(On(f, B))
<1> DEFINE D == A \cup B
           S == SumsOf(f)
           G == {n \in Nat : \A s \in SUBSET B : Cardinality(s) = n => S[A \cup s] = S[A] + S[s]}
<1>1. IsFiniteSet(D)
  BY FS_Union
<1>2. \A s \in SUBSET B : IsFiniteSet(s) /\ Cardinality(s) \in Nat
  BY FS_Subset, FS_CardinalityType
<1>3. \A s \in SUBSET D : S[s] \in Int
  BY <1>1, SumsInt
<1>4. \A s \in SUBSET D : \A x \in s : S[s] = f[x] + S[s \ {x}]
  <2> HIDE DEF G, D
  <2>1. f \in [D -> Int]
    BY DEF D
  <2>2. ASSUME NEW s \in SUBSET D, NEW x \in s PROVE S[s] = f[x] + S[s \ {x}]
    BY <1>1, <2>1, SumsTakeOut
  <2> QED
    BY <2>2
<1>5. S[{}] = 0
  BY <1>1, SumsDefined DEF Step
<1>6. \A s \in SUBSET D : SumFunction(On(f, s)) = S[s]
  BY <1>1, SumOfPart
<1>7. f = On(f, D)
  BY DEF On
<1> HIDE DEF S
<1>8. 0 \in G
  <2>1. \A s \in SUBSET B : Cardinality(s) = 0 => s = {}
    BY <1>2, FS_EmptySet
  <2>2. S[A \cup {}] = S[A] + S[{}]
    BY <1>3, <1>5
  <2> QED
    BY <2>1, <2>2
<1>9. ASSUME NEW n \in Nat, n \in G PROVE n + 1 \in G
  <2> SUFFICES ASSUME NEW s \in SUBSET B, Cardinality(s) = n + 1 PROVE S[A \cup s] = S[A] + S[s]
    OBVIOUS
  <2>1. PICK x \in s : TRUE
    BY FS_EmptySet
  <2> DEFINE t == s \ {x}
  <2>2. t \in SUBSET B /\ Cardinality(t) = n
    <3>1. Cardinality(t) = Cardinality(s) - 1
      BY <1>2, FS_RemoveElement
    <3> QED
      BY <3>1
  <2>3. S[A \cup t] = S[A] + S[t]
    BY <2>2, <1>9
  <2>4. S[s] = f[x] + S[t] /\ s \in SUBSET D
    BY <1>4
  <2>5. (A \cup s) \ {x} = A \cup t /\ x \in A \cup s /\ A \cup s \in SUBSET D
    OBVIOUS
  <2>6. S[A \cup s] = f[x] + S[A \cup t]
    BY <2>5, <1>4
  <2>7. f[x] \in Int /\ S[A] \in Int /\ S[t] \in Int
    BY <2>2, <1>3
  <2> HIDE DEF t, G, D
  <2> QED
    BY <2>3, <2>4, <2>6, <2>7
<1>10. \A n \in Nat : n \in G
  <2> HIDE DEF G
  <2> QED
    BY <1>8, <1>9, SetOfNaturals
<1>11. S[A \cup B] = S[A] + S[B]
  BY <1>2, <1>10
<1> QED
  BY <1>6, <1>7, <1>11

----------------------------------------------------------------------------
(* The calculation engine                                                  *)

(* Visiting the codes of a sequence is defined.                            *)
LEMMA VisitAllDefined ==
  ASSUME NEW visit, NEW order, NEW codes, Len(codes) \in Nat
  PROVE  \E v : /\ VisitAll(visit, order, codes) = v[Len(codes)]
                /\ v[0] = order
                /\ \A i \in 1 .. Len(codes) : v[i] = visit[v[i - 1]][codes[i]]
<1> DEFINE L == Len(codes)
           After(g, i) == IF i = 0 THEN order ELSE visit[g[i - 1]][codes[i]]
           Upto(g, n) == [i \in 0 .. L |-> IF i <= n THEN After(g, i) ELSE 0]
           G == {n \in Nat : \E g : g = Upto(g, n)}
<1>1. 0 \in G
  <2> DEFINE g == [i \in 0 .. L |-> IF i <= 0 THEN order ELSE 0]
  <2>1. \A i \in 0 .. L : (IF i <= 0 THEN order ELSE 0) = (IF i <= 0 THEN After(g, i) ELSE 0)
    OBVIOUS
  <2>2. g = Upto(g, 0)
    BY <2>1
  <2> QED
    BY <2>2
<1>2. ASSUME NEW n \in Nat, n \in G PROVE n + 1 \in G
  <2>1. PICK g : g = Upto(g, n)
    BY <1>2
  <2> DEFINE h == Upto(g, n + 1)
  <2>2. ASSUME NEW i \in 0 .. L, i <= n + 1 PROVE After(h, i) = After(g, i)
    <3>1. CASE i = 0
      BY <3>1
    <3>2. CASE i # 0
      <4>1. i - 1 \in 0 .. L /\ i - 1 <= n /\ i - 1 <= n + 1
        BY <3>2, <2>2
      <4> HIDE DEF After
      <4>2. g[i - 1] = After(g, i - 1) /\ h[i - 1] = After(g, i - 1)
        BY <4>1, <2>1
      <4> QED
        BY <3>2, <4>2 DEF After
    <3> QED
      BY <3>1, <3>2
  <2> HIDE DEF After
  <2>3. \A i \in 0 .. L : (IF i <= n + 1 THEN After(g, i) ELSE 0)
                           = (IF i <= n + 1 THEN After(h, i) ELSE 0)
    BY <2>2
  <2>4. h = Upto(h, n + 1)
    BY <2>3
  <2>5. \E k : k = Upto(k, n + 1)
    BY <2>4
  <2> HIDE DEF Upto
  <2> QED
    BY <2>5
<1>3. L \in G
  <2> HIDE DEF G
  <2> QED
    BY <1>1, <1>2, SetOfNaturals
<1>4. PICK g : g = Upto(g, L)
  BY <1>3
<1>5. g = [i \in 0 .. L |-> IF i = 0 THEN order ELSE visit[g[i - 1]][codes[i]]]
  <2>1. \A i \in 0 .. L : (IF i <= L THEN After(g, i) ELSE 0) = After(g, i)
    OBVIOUS
  <2> QED
    BY <1>4, <2>1
<1> DEFINE v == CHOOSE v : v = [i \in 0 .. L |-> IF i = 0 THEN order ELSE visit[v[i - 1]][codes[i]]]
<1>6. v = [i \in 0 .. L |-> IF i = 0 THEN order ELSE visit[v[i - 1]][codes[i]]]
  BY <1>5
<1>7. VisitAll(visit, order, codes) = v[L]
  BY DEF VisitAll
<1> HIDE DEF v
<1>8. v[0] = order /\ \A i \in 1 .. L : v[i] = visit[v[i - 1]][codes[i]]
  BY <1>6
<1> QED
  BY <1>7, <1>8

Visited(g, below, depth, order, code) ==
  IF code \in g.external \cup ToSet(order) \/ depth = 0
    THEN order
    ELSE Append(VisitAll(below, order, g.deps[code]), code)

(* Visiting depth first is defined, down to each depth.                    *)
LEMMA VisitDefined ==
  ASSUME NEW g, Len(g.nodes) \in Nat
  PROVE  \E visit :
           /\ Visit(g) = visit[Len(g.nodes)]
           /\ \A depth \in 0 .. Len(g.nodes) :
                visit[depth] = [order \in Seq(Codes(g)) |-> [code \in Codes(g) |->
                                  Visited(g, visit[depth - 1], depth, order, code)]]
<1> DEFINE L == Len(g.nodes)
           At(v, d) == [order \in Seq(Codes(g)) |-> [code \in Codes(g) |->
                          Visited(g, v[d - 1], d, order, code)]]
           Upto(v, n) == [d \in 0 .. L |-> IF d <= n THEN At(v, d) ELSE 0]
           G == {n \in Nat : \E v : v = Upto(v, n)}
<1>1. \A u, v : At(u, 0) = At(v, 0)
  BY DEF Visited
<1>2. \A u, v, d : u[d - 1] = v[d - 1] => At(u, d) = At(v, d)
  OBVIOUS
<1> HIDE DEF At
<1>3. 0 \in G
  <2> DEFINE v == [d \in 0 .. L |-> IF d <= 0 THEN At(0, 0) ELSE 0]
  <2>1. \A d \in 0 .. L : (IF d <= 0 THEN At(0, 0) ELSE 0) = (IF d <= 0 THEN At(v, d) ELSE 0)
    <3> HIDE DEF v
    <3>1. At(v, 0) = At(0, 0)
      BY <1>1
    <3> QED
      BY <3>1
  <2>2. v = Upto(v, 0)
    BY <2>1
  <2> HIDE DEF v
  <2> QED
    BY <2>2
<1>4. ASSUME NEW n \in Nat, n \in G PROVE n + 1 \in G
  <2>1. PICK v : v = Upto(v, n)
    BY <1>4
  <2> DEFINE h == Upto(v, n + 1)
  <2>2. ASSUME NEW d \in 0 .. L, d <= n + 1 PROVE At(h, d) = At(v, d)
    <3>1. CASE d = 0
      <4> HIDE DEF h
      <4> QED
        BY <3>1, <1>1
    <3>2. CASE d # 0
      <4>1. d - 1 \in 0 .. L /\ d - 1 <= n /\ d - 1 <= n + 1
        BY <3>2, <2>2
      <4>2. h[d - 1] = v[d - 1]
        BY <4>1, <2>1
      <4> HIDE DEF h
      <4> QED
        BY <4>2, <1>2
    <3> QED
      BY <3>1, <3>2
  <2>3. \A d \in 0 .. L : (IF d <= n + 1 THEN At(v, d) ELSE 0)
                           = (IF d <= n + 1 THEN At(h, d) ELSE 0)
    <3> HIDE DEF h
    <3> QED
      BY <2>2
  <2>4. h = Upto(h, n + 1)
    BY <2>3
  <2> HIDE DEF h, Upto
  <2> QED
    BY <2>4
<1>5. L \in G
  <2> HIDE DEF G
  <2> QED
    BY <1>3, <1>4, SetOfNaturals
<1>6. PICK u : u = Upto(u, L)
  BY <1>5
<1>7. u = [d \in 0 .. L |-> At(u, d)]
  <2>1. \A d \in 0 .. L : (IF d <= L THEN At(u, d) ELSE 0) = At(u, d)
    OBVIOUS
  <2> QED
    BY <1>6, <2>1
<1> DEFINE visit == CHOOSE visit : visit = [d \in 0 .. L |-> At(visit, d)]
<1>8. visit = [d \in 0 .. L |-> At(visit, d)]
  BY <1>7
<1>9. Visit(g) = visit[L]
  BY DEF Visit, At, Visited
<1> HIDE DEF visit
<1>10. \A d \in 0 .. L : visit[d] = At(visit, d)
  BY <1>8
<1> QED
  BY <1>9, <1>10 DEF At

(* A graph that declares dependencies before what depends on them.         *)
InOrder(g) ==
  /\ g.nodes \in Seq(ToSet(g.nodes))
  /\ IsInjective(g.nodes)
  /\ ToSet(g.nodes) \cap g.external = {}
  /\ \A i \in DOMAIN g.nodes :
       /\ g.deps[g.nodes[i]] \in Seq(Codes(g))
       /\ \A d \in ToSet(g.deps[g.nodes[i]]) :
            d \in g.external \/ \E j \in 1 .. i - 1 : d = g.nodes[j]

(* The first elements of a sequence.                                       *)
LEMMA PrefixProperties ==
  ASSUME NEW S, NEW s \in Seq(S), NEW i \in 0 .. Len(s)
  PROVE  /\ SubSeq(s, 1, i) \in Seq(S)
         /\ Len(SubSeq(s, 1, i)) = i
         /\ \A j \in 1 .. i : SubSeq(s, 1, i)[j] = s[j]
         /\ ToSet(SubSeq(s, 1, i)) = {s[j] : j \in 1 .. i}
<1>1. /\ SubSeq(s, 1, i) \in Seq(S)
      /\ Len(SubSeq(s, 1, i)) = i
      /\ \A j \in 1 .. i : SubSeq(s, 1, i)[j] = s[j]
  BY SubSeqProperties
<1>2. DOMAIN SubSeq(s, 1, i) = 1 .. i
  BY <1>1
<1> QED
  BY <1>1, <1>2 DEF ToSet

(* One more element.                                                       *)
LEMMA PrefixAppend ==
  ASSUME NEW S, NEW s \in Seq(S), NEW i \in 1 .. Len(s)
  PROVE  Append(SubSeq(s, 1, i - 1), s[i]) = SubSeq(s, 1, i)
<1> DEFINE a == SubSeq(s, 1, i - 1)
           b == SubSeq(s, 1, i)
<1>1. a \in Seq(S) /\ Len(a) = i - 1 /\ \A j \in 1 .. i - 1 : a[j] = s[j]
  BY PrefixProperties
<1>2. b \in Seq(S) /\ Len(b) = i /\ \A j \in 1 .. i : b[j] = s[j]
  BY PrefixProperties
<1>3. s[i] \in S
  OBVIOUS
<1> HIDE DEF a, b
<1>4. Append(a, s[i]) \in Seq(S) /\ Len(Append(a, s[i])) = i
  BY <1>1, <1>3
<1>5. \A j \in 1 .. i : Append(a, s[i])[j] = b[j]
  BY <1>1, <1>2, <1>3
<1>6. Append(a, s[i]) = b
  BY <1>2, <1>4, <1>5, SeqEqual
<1> QED
  BY <1>6 DEF a, b

(* Its nodes are computed in the order of their declaration.               *)
LEMMA OrderOfDeclaration ==
  ASSUME NEW g, InOrder(g)
  PROVE  TopologicalOrder(g) = g.nodes
<1> DEFINE L == Len(g.nodes)
           First(i) == SubSeq(g.nodes, 1, i)
<1>0. L \in Nat /\ DOMAIN g.nodes = 1 .. L /\ g.nodes \in Seq(Codes(g))
  BY DEF InOrder, Codes
<1>1. PICK visit :
        /\ Visit(g) = visit[L]
        /\ \A depth \in 0 .. L :
             visit[depth] = [order \in Seq(Codes(g)) |-> [code \in Codes(g) |->
                               Visited(g, visit[depth - 1], depth, order, code)]]
  BY <1>0, VisitDefined
<1>2. ASSUME NEW i \in 0 .. L
      PROVE  /\ First(i) \in Seq(Codes(g))
             /\ ToSet(First(i)) = {g.nodes[j] : j \in 1 .. i}
  BY <1>0, PrefixProperties
<1>3. ASSUME NEW depth \in 0 .. L, NEW i \in 0 .. L,
             NEW codes \in Seq(Codes(g)), ToSet(codes) \subseteq g.external \cup ToSet(First(i))
      PROVE  VisitAll(visit[depth], First(i), codes) = First(i)
  <2> DEFINE n == Len(codes)
             o == First(i)
             below == visit[depth]
  <2>0. below = [order \in Seq(Codes(g)) |-> [code \in Codes(g) |->
                   Visited(g, visit[depth - 1], depth, order, code)]]
    BY <1>1
  <2>5. /\ o \in Seq(Codes(g)) /\ n \in Nat
        /\ \A k \in 1 .. n : codes[k] \in Codes(g) /\ codes[k] \in ToSet(codes)
    BY <1>2 DEF ToSet
  <2>6. ToSet(codes) \subseteq g.external \cup ToSet(o)
    BY <1>3
  <2> HIDE DEF o, below
  <2>1. PICK v : /\ VisitAll(below, o, codes) = v[n]
                 /\ v[0] = o
                 /\ \A k \in 1 .. n : v[k] = below[v[k - 1]][codes[k]]
    BY <2>5, VisitAllDefined
  <2> DEFINE G == {k \in Nat : k <= n => v[k] = o}
  <2>2. 0 \in G
    BY <2>1
  <2>3. ASSUME NEW k \in Nat, k \in G PROVE k + 1 \in G
    <3> SUFFICES ASSUME k + 1 <= n PROVE v[k + 1] = o
      OBVIOUS
    <3> DEFINE c == codes[k + 1]
    <3>1. v[k] = o /\ k + 1 \in 1 .. n /\ (k + 1) - 1 = k
      BY <2>3, <2>5
    <3>2. v[k + 1] = below[o][c]
      BY <2>1, <3>1
    <3>3. c \in Codes(g) /\ c \in g.external \cup ToSet(o)
      BY <2>5, <2>6, <3>1
    <3> HIDE DEF c
    <3>4. below[o][c] = Visited(g, visit[depth - 1], depth, o, c)
      BY <2>0, <2>5, <3>3
    <3> QED
      BY <3>2, <3>3, <3>4 DEF Visited
  <2>4. n \in G
    <3> HIDE DEF G
    <3> QED
      BY <2>2, <2>3, <2>5, SetOfNaturals
  <2> QED
    BY <2>1, <2>4 DEF o, below
<1>4. ASSUME NEW i \in 1 .. L
      PROVE  visit[L][First(i - 1)][g.nodes[i]] = First(i)
  <2> DEFINE c == g.nodes[i]
  <2>1. c \in Codes(g) /\ c \notin g.external /\ i - 1 \in 0 .. L /\ L # 0 /\ L - 1 \in 0 .. L
    <3>1. i \in DOMAIN g.nodes /\ L \in Nat
      BY <1>0 DEF InOrder
    <3>2. c \in ToSet(g.nodes) /\ c \notin g.external
      BY <3>1 DEF InOrder, ToSet
    <3>3. i - 1 \in 0 .. L /\ L # 0 /\ L - 1 \in 0 .. L
      BY <3>1
    <3> QED
      BY <3>2, <3>3 DEF Codes
  <2>2. c \notin ToSet(First(i - 1))
    <3>1. \A j \in 1 .. i - 1 : g.nodes[j] # g.nodes[i]
      BY <1>0 DEF InOrder, IsInjective
    <3> QED
      BY <2>1, <3>1, <1>2
  <2>3. visit[L][First(i - 1)][c] = Visited(g, visit[L - 1], L, First(i - 1), c)
    <3> DEFINE o == First(i - 1)
    <3>1. o \in Seq(Codes(g))
      BY <1>2, <2>1
    <3>2. visit[L] = [order \in Seq(Codes(g)) |-> [code \in Codes(g) |->
                        Visited(g, visit[L - 1], L, order, code)]]
      BY <1>0, <1>1
    <3> HIDE DEF o, c
    <3>3. visit[L][o][c] = Visited(g, visit[L - 1], L, o, c)
      BY <2>1, <3>1, <3>2
    <3> QED
      BY <3>3 DEF o
  <2>4. /\ g.deps[c] \in Seq(Codes(g))
        /\ ToSet(g.deps[c]) \subseteq g.external \cup ToSet(First(i - 1))
    BY <1>0, <1>2, <2>1 DEF InOrder
  <2>5. VisitAll(visit[L - 1], First(i - 1), g.deps[c]) = First(i - 1)
    BY <2>1, <2>4, <1>3
  <2>6. Append(First(i - 1), c) = First(i)
    BY <1>0, PrefixAppend
  <2> QED
    BY <2>1, <2>2, <2>3, <2>5, <2>6 DEF Visited
<1>5. PICK v : /\ VisitAll(visit[L], <<>>, g.nodes) = v[L]
               /\ v[0] = <<>>
               /\ \A k \in 1 .. L : v[k] = visit[L][v[k - 1]][g.nodes[k]]
  <2> DEFINE top == visit[L]
             codes == g.nodes
             from == <<>>
  <2>1. Len(codes) \in Nat
    BY <1>0
  <2> HIDE DEF top, codes, from
  <2>2. PICK v : /\ VisitAll(top, from, codes) = v[Len(codes)]
                 /\ v[0] = from
                 /\ \A k \in 1 .. Len(codes) : v[k] = top[v[k - 1]][codes[k]]
    BY <2>1, VisitAllDefined
  <2> QED
    BY <2>2 DEF top, codes, from
<1> DEFINE G == {k \in Nat : k <= L => v[k] = First(k)}
<1>6. 0 \in G
  <2>1. SubSeq(g.nodes, 1, 0) = <<>>
    BY SubSeqEmpty
  <2> QED
    BY <2>1, <1>5
<1>7. ASSUME NEW k \in Nat, k \in G PROVE k + 1 \in G
  <2> SUFFICES ASSUME k + 1 <= L PROVE v[k + 1] = First(k + 1)
    OBVIOUS
  <2>1. v[k] = First(k) /\ k + 1 \in 1 .. L /\ (k + 1) - 1 = k
    BY <1>7, <1>0
  <2>2. v[k + 1] = visit[L][First(k)][g.nodes[k + 1]]
    BY <2>1, <1>5
  <2> QED
    BY <2>1, <2>2, <1>4
<1>8. L \in G
  <2> HIDE DEF G
  <2> QED
    BY <1>0, <1>6, <1>7, SetOfNaturals
<1>9. First(L) = g.nodes
  BY <1>0
<1> QED
  BY <1>0, <1>1, <1>5, <1>8, <1>9 DEF TopologicalOrder

(* The results of an execution, figure by figure.                          *)
Results(g, inputs, r) ==
  /\ r[0] = inputs
  /\ \A i \in 1 .. Len(g.nodes) : r[i] = Calculate(g, r[i - 1], g.nodes[i])

(* An execution is defined.                                                *)
LEMMA ExecuteDefined ==
  ASSUME NEW g, InOrder(g), NEW inputs
  PROVE  \E r : Results(g, inputs, r) /\ Execute(g, inputs) = r[Len(g.nodes)]
<1> DEFINE L == Len(g.nodes)
           After(r, i) == IF i = 0 THEN inputs ELSE Calculate(g, r[i - 1], g.nodes[i])
           Upto(r, n) == [i \in 0 .. L |-> IF i <= n THEN After(r, i) ELSE 0]
           G == {n \in Nat : \E r : r = Upto(r, n)}
<1>0. TopologicalOrder(g) = g.nodes /\ L \in Nat
  BY OrderOfDeclaration DEF InOrder
<1>1. 0 \in G
  <2> DEFINE r == [i \in 0 .. L |-> IF i <= 0 THEN inputs ELSE 0]
  <2>1. \A i \in 0 .. L : (IF i <= 0 THEN inputs ELSE 0) = (IF i <= 0 THEN After(r, i) ELSE 0)
    OBVIOUS
  <2>2. r = Upto(r, 0)
    BY <2>1
  <2> QED
    BY <2>2
<1>2. ASSUME NEW n \in Nat, n \in G PROVE n + 1 \in G
  <2>1. PICK r : r = Upto(r, n)
    BY <1>2
  <2> DEFINE h == Upto(r, n + 1)
  <2>2. ASSUME NEW i \in 0 .. L, i <= n + 1 PROVE After(h, i) = After(r, i)
    <3>1. CASE i = 0
      BY <3>1
    <3>2. CASE i # 0
      <4>1. i - 1 \in 0 .. L /\ i - 1 <= n /\ i - 1 <= n + 1
        BY <3>2, <2>2
      <4> HIDE DEF After
      <4>2. r[i - 1] = After(r, i - 1) /\ h[i - 1] = After(r, i - 1)
        BY <4>1, <2>1
      <4> QED
        BY <3>2, <4>2 DEF After
    <3> QED
      BY <3>1, <3>2
  <2> HIDE DEF After
  <2>3. \A i \in 0 .. L : (IF i <= n + 1 THEN After(r, i) ELSE 0)
                           = (IF i <= n + 1 THEN After(h, i) ELSE 0)
    BY <2>2
  <2>4. h = Upto(h, n + 1)
    BY <2>3
  <2>5. \E k : k = Upto(k, n + 1)
    BY <2>4
  <2> HIDE DEF Upto
  <2> QED
    BY <2>5
<1>3. L \in G
  <2> HIDE DEF G
  <2> QED
    BY <1>0, <1>1, <1>2, SetOfNaturals
<1>4. PICK u : u = Upto(u, L)
  BY <1>3
<1>5. u = [i \in 0 .. L |-> After(u, i)]
  <2>1. \A i \in 0 .. L : (IF i <= L THEN After(u, i) ELSE 0) = After(u, i)
    OBVIOUS
  <2> QED
    BY <1>4, <2>1
<1> DEFINE r == CHOOSE r : r = [i \in 0 .. L |-> After(r, i)]
<1>6. r = [i \in 0 .. L |-> After(r, i)]
  BY <1>5
<1>7. Execute(g, inputs) = r[L]
  BY <1>0 DEF Execute
<1> HIDE DEF r
<1>8. Results(g, inputs, r)
  <2>1. \A i \in 0 .. L : r[i] = After(r, i)
    BY <1>6
  <2> QED
    BY <2>1, <1>0 DEF Results
<1> QED
  BY <1>7, <1>8

(* Every figure is what its operation makes of the results it depends on.  *)
LEMMA Executed ==
  ASSUME NEW g, InOrder(g), NEW inputs, DOMAIN inputs = g.external
  PROVE  /\ \A c \in g.external : Execute(g, inputs)[c] = inputs[c]
         /\ \A i \in 1 .. Len(g.nodes) :
              Execute(g, inputs)[g.nodes[i]] = Figure(g, Execute(g, inputs), g.nodes[i])
<1> DEFINE L == Len(g.nodes)
<1>0. L \in Nat /\ DOMAIN g.nodes = 1 .. L
  BY DEF InOrder
<1>1. PICK r : Results(g, inputs, r) /\ Execute(g, inputs) = r[L]
  BY ExecuteDefined
<1> DEFINE Kept(i, k) == \A c \in DOMAIN r[i] : c \in DOMAIN r[k] /\ r[k][c] = r[i][c]
           G == {k \in Nat : k <= L => \A i \in 0 .. k : Kept(i, k)}
<1>2. ASSUME NEW k \in Nat, k + 1 <= L
      PROVE  /\ Kept(k, k + 1)
             /\ g.nodes[k + 1] \in DOMAIN r[k + 1]
             /\ g.nodes[k + 1] \notin DOMAIN r[k]
                  => r[k + 1][g.nodes[k + 1]] = Figure(g, r[k], g.nodes[k + 1])
  <2>1. r[k + 1] = Calculate(g, r[k], g.nodes[k + 1])
    BY <1>1, <1>2 DEF Results
  <2> QED
    BY <2>1 DEF Calculate
<1>3. 0 \in G
  OBVIOUS
<1>4. ASSUME NEW k \in Nat, k \in G PROVE k + 1 \in G
  <2> SUFFICES ASSUME k + 1 <= L, NEW i \in 0 .. k + 1 PROVE Kept(i, k + 1)
    OBVIOUS
  <2>1. CASE i = k + 1
    BY <2>1
  <2>2. CASE i # k + 1
    <3>1. Kept(i, k)
      BY <2>2, <1>4
    <3> QED
      BY <3>1, <1>2
  <2> QED
    BY <2>1, <2>2
<1>5. \A k \in Nat : k \in G
  <2> HIDE DEF G
  <2> QED
    BY <1>3, <1>4, SetOfNaturals
<1>6. \A i \in 0 .. L : Kept(i, L)
  BY <1>0, <1>5
<1> DEFINE Known(k) == g.external \cup {g.nodes[j] : j \in 1 .. k}
           H == {k \in Nat : k <= L => DOMAIN r[k] = Known(k)}
<1>7. 0 \in H
  BY <1>1 DEF Results
<1>8. ASSUME NEW k \in Nat, k \in H PROVE k + 1 \in H
  <2> SUFFICES ASSUME k + 1 <= L PROVE DOMAIN r[k + 1] = Known(k + 1)
    OBVIOUS
  <2>1. r[k + 1] = Calculate(g, r[k], g.nodes[k + 1])
    BY <1>1 DEF Results
  <2>2. DOMAIN r[k + 1] = DOMAIN r[k] \cup {g.nodes[k + 1]}
    BY <2>1 DEF Calculate
  <2>3. DOMAIN r[k] = Known(k)
    BY <1>8
  <2>4. {g.nodes[j] : j \in 1 .. k + 1} = {g.nodes[j] : j \in 1 .. k} \cup {g.nodes[k + 1]}
    BY <2>1
  <2> QED
    BY <2>2, <2>3, <2>4
<1>9. \A k \in Nat : k \in H
  <2> HIDE DEF H
  <2> QED
    BY <1>7, <1>8, SetOfNaturals
<1>10. \A c \in g.external : r[L][c] = inputs[c]
  <2>1. r[0] = inputs /\ Kept(0, L)
    BY <1>0, <1>1, <1>6 DEF Results
  <2> QED
    BY <2>1
<1>11. ASSUME NEW i \in 1 .. L PROVE r[L][g.nodes[i]] = Figure(g, r[L], g.nodes[i])
  <2> DEFINE c == g.nodes[i]
             k == i - 1
  <2>1. k \in Nat /\ k + 1 = i /\ k <= L /\ k \in 0 .. L /\ k + 1 <= L
    BY <1>0
  <2>2. DOMAIN r[k] = Known(k) /\ Kept(k, L) /\ Kept(i, L)
    BY <1>0, <1>6, <1>9, <2>1
  <2>3. c \notin Known(k)
    <3>1. \A j \in 1 .. k : g.nodes[j] # g.nodes[i]
      BY <1>0 DEF InOrder, IsInjective
    <3>2. c \notin g.external
      BY <1>0 DEF InOrder, ToSet
    <3> QED
      BY <3>1, <3>2
  <2>4. c \in DOMAIN r[i] /\ r[i][c] = Figure(g, r[k], c)
    BY <1>2, <2>1, <2>2, <2>3
  <2>5. r[L][c] = Figure(g, r[k], c)
    BY <2>2, <2>4
  <2>6. g.deps[c] \in Seq(Codes(g)) /\ \A d \in ToSet(g.deps[c]) : d \in Known(k)
    BY <1>0 DEF InOrder
  <2>7. \A j \in DOMAIN g.deps[c] : r[k][g.deps[c][j]] = r[L][g.deps[c][j]]
    <3>1. \A j \in DOMAIN g.deps[c] : g.deps[c][j] \in ToSet(g.deps[c])
      BY DEF ToSet
    <3> QED
      BY <3>1, <2>2, <2>6
  <2>8. [j \in DOMAIN g.deps[c] |-> r[k][g.deps[c][j]]]
          = [j \in DOMAIN g.deps[c] |-> r[L][g.deps[c][j]]]
    BY <2>7
  <2>9. Figure(g, r[k], c) = Figure(g, r[L], c)
    <3> HIDE DEF c, k
    <3> QED
      BY <2>8 DEF Figure
  <2> QED
    BY <2>5, <2>9
<1> QED
  BY <1>1, <1>10, <1>11

----------------------------------------------------------------------------
(* The figures of the two statements                                       *)

(* The worst of statuses that are all READY is READY ...                   *)
LEMMA AllReady ==
  ASSUME NEW results, \A r \in results : r.status = "READY"
  PROVE  WorstDependency(results) = "READY"
<1> DEFINE Worst(s) == /\ s = "READY" \/ \E r \in results : r.status = s
                       /\ \A r \in results : Priority[r.status] <= Priority[s]
<1>1. Worst("READY") /\ "READY" \in Status
  BY DEF Priority, Status
<1>2. \A s \in Status : Worst(s) => s = "READY"
  OBVIOUS
<1> HIDE DEF Worst
<1>3. (CHOOSE s \in Status : Worst(s)) = "READY"
  BY <1>1, <1>2
<1> QED
  BY <1>3 DEF WorstDependency, Worst

(* ... and NOT_READY, when one of them is and the others are READY.        *)
LEMMA SomeNotReady ==
  ASSUME NEW results, \A r \in results : r.status \in {"READY", "NOT_READY"},
         \E r \in results : r.status = "NOT_READY"
  PROVE  WorstDependency(results) = "NOT_READY"
<1> DEFINE Worst(s) == /\ s = "READY" \/ \E r \in results : r.status = s
                       /\ \A r \in results : Priority[r.status] <= Priority[s]
<1>0. Priority["READY"] = 0 /\ Priority["NOT_READY"] = 2
  BY DEF Priority, Status
<1>1. Worst("NOT_READY") /\ "NOT_READY" \in Status
  BY <1>0 DEF Status
<1>2. \A s \in Status : Worst(s) => s = "NOT_READY"
  BY <1>0
<1> HIDE DEF Worst
<1>3. (CHOOSE s \in Status : Worst(s)) = "NOT_READY"
  BY <1>1, <1>2
<1> QED
  BY <1>3 DEF WorstDependency, Worst

(* A figure of ready figures.                                              *)
LEMMA FigureOfReady ==
  ASSUME NEW g, NEW r, NEW c, \A i \in DOMAIN g.deps[c] : r[g.deps[c][i]].status = "READY"
  PROVE  Figure(g, r, c) = Apply(g.op[c], [i \in DOMAIN g.deps[c] |-> r[g.deps[c][i]].value])
<1> DEFINE deps == [i \in DOMAIN g.deps[c] |-> r[g.deps[c][i]]]
<1>1. \A d \in ToSet(deps) : d.status = "READY"
  BY DEF ToSet
<1>2. WorstDependency(ToSet(deps)) = "READY"
  <2> HIDE DEF deps
  <2> QED
    BY <1>1, AllReady
<1>3. [i \in DOMAIN deps |-> deps[i].value] = [i \in DOMAIN g.deps[c] |-> r[g.deps[c][i]].value]
  OBVIOUS
<1>4. Figure(g, r, c) = Apply(g.op[c], [i \in DOMAIN deps |-> deps[i].value])
  <2>1. Figure(g, r, c) = IF WorstDependency(ToSet(deps)) = "READY"
                            THEN Apply(g.op[c], [i \in DOMAIN deps |-> deps[i].value])
                            ELSE Blocked(WorstDependency(ToSet(deps)))
    BY DEF Figure
  <2> HIDE DEF deps
  <2> QED
    BY <2>1, <1>2
<1> QED
  BY <1>3, <1>4

(* A figure one of whose dependencies is not ready.                        *)
LEMMA FigureOfNotReady ==
  ASSUME NEW g, NEW r, NEW c,
         \A i \in DOMAIN g.deps[c] : r[g.deps[c][i]].status \in {"READY", "NOT_READY"},
         \E i \in DOMAIN g.deps[c] : r[g.deps[c][i]].status = "NOT_READY"
  PROVE  Figure(g, r, c) = Blocked("NOT_READY")
<1> DEFINE deps == [i \in DOMAIN g.deps[c] |-> r[g.deps[c][i]]]
<1>1. /\ \A d \in ToSet(deps) : d.status \in {"READY", "NOT_READY"}
      /\ \E d \in ToSet(deps) : d.status = "NOT_READY"
  BY DEF ToSet
<1>2. WorstDependency(ToSet(deps)) = "NOT_READY"
  <2> HIDE DEF deps
  <2> QED
    BY <1>1, SomeNotReady
<1>3. Figure(g, r, c) = IF WorstDependency(ToSet(deps)) = "READY"
                          THEN Apply(g.op[c], [i \in DOMAIN deps |-> deps[i].value])
                          ELSE Blocked(WorstDependency(ToSet(deps)))
  BY DEF Figure
<1> HIDE DEF deps
<1> QED
  BY <1>2, <1>3

(* What a category may come to.                                            *)
Inputs == {Ready(v) : v \in Int} \cup {Blocked("NOT_READY")}

(* Short sequences.                                                        *)
LEMMA SequenceOfOne ==
  ASSUME NEW S, NEW a \in S
  PROVE  <<a>> \in Seq(S) /\ ToSet(<<a>>) = {a}
BY DEF ToSet

(* Of two elements.                                                        *)
LEMMA SequenceOfTwo ==
  ASSUME NEW S, NEW a \in S, NEW b \in S
  PROVE  <<a, b>> \in Seq(S) /\ ToSet(<<a, b>>) = {a, b}
BY DEF ToSet

(* Of three elements.                                                      *)
LEMMA SequenceOfThree ==
  ASSUME NEW S, NEW a \in S, NEW b \in S, NEW c \in S
  PROVE  <<a, b, c>> \in Seq(S) /\ ToSet(<<a, b, c>>) = {a, b, c}
BY DEF ToSet

(* A node declared after the nodes it depends on.                          *)
Declared(g, i, deps) ==
  /\ g.deps[g.nodes[i]] = deps
  /\ deps \in Seq(Codes(g))
  /\ \A d \in ToSet(deps) : d \in g.external \/ \E j \in 1 .. i - 1 : d = g.nodes[j]

(* Both graphs declare their nodes in order.                               *)
LEMMA ProfitGraphInOrder == InOrder(ProfitGraph)
<1> DEFINE g == ProfitGraph
<1>1. /\ g.nodes = <<"GROSS_PROFIT", "OPERATING_INCOME", "NET_INCOME",
                     "GROSS_MARGIN", "OPERATING_MARGIN", "NET_MARGIN">>
      /\ g.external = {"REVENUE", "COGS", "OPERATING_EXPENSE", "OTHER_INCOME", "OTHER_EXPENSE"}
      /\ g.deps["GROSS_PROFIT"] = <<"REVENUE", "COGS">>
      /\ g.deps["OPERATING_INCOME"] = <<"GROSS_PROFIT", "OPERATING_EXPENSE">>
      /\ g.deps["NET_INCOME"] = <<"OPERATING_INCOME", "OTHER_INCOME", "OTHER_EXPENSE">>
      /\ g.deps["GROSS_MARGIN"] = <<"GROSS_PROFIT", "REVENUE">>
      /\ g.deps["OPERATING_MARGIN"] = <<"OPERATING_INCOME", "REVENUE">>
      /\ g.deps["NET_MARGIN"] = <<"NET_INCOME", "REVENUE">>
  BY DEF ProfitGraph, Categories, Profit, ToSet
<1> HIDE DEF g
<1>2. /\ g.nodes \in Seq(ToSet(g.nodes)) /\ DOMAIN g.nodes = 1 .. 6
      /\ ToSet(g.nodes) = {"GROSS_PROFIT", "OPERATING_INCOME", "NET_INCOME",
                           "GROSS_MARGIN", "OPERATING_MARGIN", "NET_MARGIN"}
  BY <1>1 DEF ToSet
<1>3. IsInjective(g.nodes)
  BY <1>1 DEF IsInjective
<1>4. ToSet(g.nodes) \cap g.external = {}
  BY <1>1, <1>2
<1>5. Codes(g) = ToSet(g.nodes) \cup g.external
  BY DEF Codes
<1>6. Declared(g, 1, <<"REVENUE", "COGS">>)
  <2>1. /\ g.nodes[1] = "GROSS_PROFIT"
    BY <1>1
  <2>2. /\ <<"REVENUE", "COGS">> \in Seq(Codes(g))
        /\ ToSet(<<"REVENUE", "COGS">>)
             = {"REVENUE", "COGS"}
    <3>1. /\ "REVENUE" \in Codes(g)
          /\ "COGS" \in Codes(g)
      BY <1>1, <1>2, <1>5
    <3> QED
      BY <3>1, SequenceOfTwo
  <2> QED
    BY <1>1, <2>1, <2>2 DEF Declared
<1>7. Declared(g, 2, <<"GROSS_PROFIT", "OPERATING_EXPENSE">>)
  <2>1. /\ g.nodes[2] = "OPERATING_INCOME"
        /\ g.nodes[1] = "GROSS_PROFIT"
        /\ 1 \in 1 .. 2 - 1
    BY <1>1
  <2>2. /\ <<"GROSS_PROFIT", "OPERATING_EXPENSE">> \in Seq(Codes(g))
        /\ ToSet(<<"GROSS_PROFIT", "OPERATING_EXPENSE">>)
             = {"GROSS_PROFIT", "OPERATING_EXPENSE"}
    <3>1. /\ "GROSS_PROFIT" \in Codes(g)
          /\ "OPERATING_EXPENSE" \in Codes(g)
      BY <1>1, <1>2, <1>5
    <3> QED
      BY <3>1, SequenceOfTwo
  <2> QED
    BY <1>1, <2>1, <2>2 DEF Declared
<1>8. Declared(g, 3, <<"OPERATING_INCOME", "OTHER_INCOME", "OTHER_EXPENSE">>)
  <2>1. /\ g.nodes[3] = "NET_INCOME"
        /\ g.nodes[2] = "OPERATING_INCOME"
        /\ 2 \in 1 .. 3 - 1
    BY <1>1
  <2>2. /\ <<"OPERATING_INCOME", "OTHER_INCOME", "OTHER_EXPENSE">> \in Seq(Codes(g))
        /\ ToSet(<<"OPERATING_INCOME", "OTHER_INCOME", "OTHER_EXPENSE">>)
             = {"OPERATING_INCOME", "OTHER_INCOME", "OTHER_EXPENSE"}
    <3>1. /\ "OPERATING_INCOME" \in Codes(g)
          /\ "OTHER_INCOME" \in Codes(g)
          /\ "OTHER_EXPENSE" \in Codes(g)
      BY <1>1, <1>2, <1>5
    <3> QED
      BY <3>1, SequenceOfThree
  <2> QED
    BY <1>1, <2>1, <2>2 DEF Declared
<1>9. Declared(g, 4, <<"GROSS_PROFIT", "REVENUE">>)
  <2>1. /\ g.nodes[4] = "GROSS_MARGIN"
        /\ g.nodes[1] = "GROSS_PROFIT"
        /\ 1 \in 1 .. 4 - 1
    BY <1>1
  <2>2. /\ <<"GROSS_PROFIT", "REVENUE">> \in Seq(Codes(g))
        /\ ToSet(<<"GROSS_PROFIT", "REVENUE">>)
             = {"GROSS_PROFIT", "REVENUE"}
    <3>1. /\ "GROSS_PROFIT" \in Codes(g)
          /\ "REVENUE" \in Codes(g)
      BY <1>1, <1>2, <1>5
    <3> QED
      BY <3>1, SequenceOfTwo
  <2> QED
    BY <1>1, <2>1, <2>2 DEF Declared
<1>10. Declared(g, 5, <<"OPERATING_INCOME", "REVENUE">>)
  <2>1. /\ g.nodes[5] = "OPERATING_MARGIN"
        /\ g.nodes[2] = "OPERATING_INCOME"
        /\ 2 \in 1 .. 5 - 1
    BY <1>1
  <2>2. /\ <<"OPERATING_INCOME", "REVENUE">> \in Seq(Codes(g))
        /\ ToSet(<<"OPERATING_INCOME", "REVENUE">>)
             = {"OPERATING_INCOME", "REVENUE"}
    <3>1. /\ "OPERATING_INCOME" \in Codes(g)
          /\ "REVENUE" \in Codes(g)
      BY <1>1, <1>2, <1>5
    <3> QED
      BY <3>1, SequenceOfTwo
  <2> QED
    BY <1>1, <2>1, <2>2 DEF Declared
<1>11. Declared(g, 6, <<"NET_INCOME", "REVENUE">>)
  <2>1. /\ g.nodes[6] = "NET_MARGIN"
        /\ g.nodes[3] = "NET_INCOME"
        /\ 3 \in 1 .. 6 - 1
    BY <1>1
  <2>2. /\ <<"NET_INCOME", "REVENUE">> \in Seq(Codes(g))
        /\ ToSet(<<"NET_INCOME", "REVENUE">>)
             = {"NET_INCOME", "REVENUE"}
    <3>1. /\ "NET_INCOME" \in Codes(g)
          /\ "REVENUE" \in Codes(g)
      BY <1>1, <1>2, <1>5
    <3> QED
      BY <3>1, SequenceOfTwo
  <2> QED
    BY <1>1, <2>1, <2>2 DEF Declared
<1>12. \A i \in 1 .. 6 : \E deps : Declared(g, i, deps)
  <2>1. \A i \in 1 .. 6 : i = 1 \/ i = 2 \/ i = 3 \/ i = 4 \/ i = 5 \/ i = 6
    OBVIOUS
  <2> QED
    BY <2>1, <1>6, <1>7, <1>8, <1>9, <1>10, <1>11
<1>13. InOrder(g)
  BY <1>2, <1>3, <1>4, <1>12 DEF InOrder, Declared
<1> QED
  BY <1>13 DEF g

(* So does that of the balance sheet.                                      *)
LEMMA SheetGraphInOrder == InOrder(SheetGraph)
<1> DEFINE g == SheetGraph
<1>1. /\ g.nodes = <<"TOTAL_ASSETS", "TOTAL_LIABILITIES", "TOTAL_EQUITY",
                     "BALANCE_DIFFERENCE">>
      /\ g.external = {"ASSET", "LIABILITY", "EQUITY"}
      /\ g.deps["TOTAL_ASSETS"] = <<"ASSET">>
      /\ g.deps["TOTAL_LIABILITIES"] = <<"LIABILITY">>
      /\ g.deps["TOTAL_EQUITY"] = <<"EQUITY">>
      /\ g.deps["BALANCE_DIFFERENCE"] = <<"TOTAL_ASSETS", "TOTAL_LIABILITIES", "TOTAL_EQUITY">>
  BY DEF SheetGraph, Categories, Sheet, ToSet
<1> HIDE DEF g
<1>2. /\ g.nodes \in Seq(ToSet(g.nodes)) /\ DOMAIN g.nodes = 1 .. 4
      /\ ToSet(g.nodes) = {"TOTAL_ASSETS", "TOTAL_LIABILITIES", "TOTAL_EQUITY",
                           "BALANCE_DIFFERENCE"}
  BY <1>1 DEF ToSet
<1>3. IsInjective(g.nodes)
  BY <1>1 DEF IsInjective
<1>4. ToSet(g.nodes) \cap g.external = {}
  BY <1>1, <1>2
<1>5. Codes(g) = ToSet(g.nodes) \cup g.external
  BY DEF Codes
<1>6. Declared(g, 1, <<"ASSET">>)
  <2>1. /\ g.nodes[1] = "TOTAL_ASSETS"
    BY <1>1
  <2>2. /\ <<"ASSET">> \in Seq(Codes(g))
        /\ ToSet(<<"ASSET">>)
             = {"ASSET"}
    <3>1. /\ "ASSET" \in Codes(g)
      BY <1>1, <1>2, <1>5
    <3> QED
      BY <3>1, SequenceOfOne
  <2> QED
    BY <1>1, <2>1, <2>2 DEF Declared
<1>7. Declared(g, 2, <<"LIABILITY">>)
  <2>1. /\ g.nodes[2] = "TOTAL_LIABILITIES"
    BY <1>1
  <2>2. /\ <<"LIABILITY">> \in Seq(Codes(g))
        /\ ToSet(<<"LIABILITY">>)
             = {"LIABILITY"}
    <3>1. /\ "LIABILITY" \in Codes(g)
      BY <1>1, <1>2, <1>5
    <3> QED
      BY <3>1, SequenceOfOne
  <2> QED
    BY <1>1, <2>1, <2>2 DEF Declared
<1>8. Declared(g, 3, <<"EQUITY">>)
  <2>1. /\ g.nodes[3] = "TOTAL_EQUITY"
    BY <1>1
  <2>2. /\ <<"EQUITY">> \in Seq(Codes(g))
        /\ ToSet(<<"EQUITY">>)
             = {"EQUITY"}
    <3>1. /\ "EQUITY" \in Codes(g)
      BY <1>1, <1>2, <1>5
    <3> QED
      BY <3>1, SequenceOfOne
  <2> QED
    BY <1>1, <2>1, <2>2 DEF Declared
<1>9. Declared(g, 4, <<"TOTAL_ASSETS", "TOTAL_LIABILITIES", "TOTAL_EQUITY">>)
  <2>1. /\ g.nodes[4] = "BALANCE_DIFFERENCE"
        /\ g.nodes[1] = "TOTAL_ASSETS"
        /\ g.nodes[2] = "TOTAL_LIABILITIES"
        /\ g.nodes[3] = "TOTAL_EQUITY"
        /\ 1 \in 1 .. 4 - 1 /\ 2 \in 1 .. 4 - 1 /\ 3 \in 1 .. 4 - 1
    BY <1>1
  <2>2. /\ <<"TOTAL_ASSETS", "TOTAL_LIABILITIES", "TOTAL_EQUITY">> \in Seq(Codes(g))
        /\ ToSet(<<"TOTAL_ASSETS", "TOTAL_LIABILITIES", "TOTAL_EQUITY">>)
             = {"TOTAL_ASSETS", "TOTAL_LIABILITIES", "TOTAL_EQUITY"}
    <3>1. /\ "TOTAL_ASSETS" \in Codes(g)
          /\ "TOTAL_LIABILITIES" \in Codes(g)
          /\ "TOTAL_EQUITY" \in Codes(g)
      BY <1>1, <1>2, <1>5
    <3> QED
      BY <3>1, SequenceOfThree
  <2> QED
    BY <1>1, <2>1, <2>2 DEF Declared
<1>10. \A i \in 1 .. 4 : \E deps : Declared(g, i, deps)
  <2>1. \A i \in 1 .. 4 : i = 1 \/ i = 2 \/ i = 3 \/ i = 4
    OBVIOUS
  <2> QED
    BY <2>1, <1>6, <1>7, <1>8, <1>9
<1>11. InOrder(g)
  BY <1>2, <1>3, <1>4, <1>10 DEF InOrder, Declared
<1> QED
  BY <1>11 DEF g

(* A figure with one, two or three dependencies.                           *)
LEMMA FigureOfOne ==
  ASSUME NEW g, NEW r, NEW c, NEW a, g.deps[c] = <<a>>,
         r[a].status \in {"READY", "NOT_READY"}
  PROVE  IF r[a].status = "READY"
           THEN Figure(g, r, c) = Apply(g.op[c], <<r[a].value>>)
           ELSE Figure(g, r, c) = Blocked("NOT_READY")
<1>1. /\ DOMAIN g.deps[c] = {1}
      /\ g.deps[c][1] = a
  OBVIOUS
<1>2. [i \in DOMAIN g.deps[c] |-> r[g.deps[c][i]].value] = <<r[a].value>>
  BY <1>1
<1>3. CASE r[a].status = "READY"
  <2>1. \A i \in DOMAIN g.deps[c] : r[g.deps[c][i]].status = "READY"
    BY <1>1, <1>3
  <2>2. Figure(g, r, c)
          = Apply(g.op[c], [i \in DOMAIN g.deps[c] |-> r[g.deps[c][i]].value])
    BY <2>1, FigureOfReady
  <2> QED
    BY <2>2, <1>2, <1>3
<1>4. CASE ~(r[a].status = "READY")
  <2>1. /\ \A i \in DOMAIN g.deps[c] : r[g.deps[c][i]].status \in {"READY", "NOT_READY"}
        /\ \E i \in DOMAIN g.deps[c] : r[g.deps[c][i]].status = "NOT_READY"
    BY <1>1, <1>4
  <2>2. Figure(g, r, c) = Blocked("NOT_READY")
    BY <2>1, FigureOfNotReady
  <2> QED
    BY <2>2, <1>4
<1> QED
  BY <1>3, <1>4

(* With two.                                                               *)
LEMMA FigureOfTwo ==
  ASSUME NEW g, NEW r, NEW c, NEW a, NEW b, g.deps[c] = <<a, b>>,
         r[a].status \in {"READY", "NOT_READY"}, r[b].status \in {"READY", "NOT_READY"}
  PROVE  IF r[a].status = "READY" /\ r[b].status = "READY"
           THEN Figure(g, r, c) = Apply(g.op[c], <<r[a].value, r[b].value>>)
           ELSE Figure(g, r, c) = Blocked("NOT_READY")
<1>1. /\ DOMAIN g.deps[c] = {1, 2}
      /\ g.deps[c][1] = a
      /\ g.deps[c][2] = b
  OBVIOUS
<1>2. [i \in DOMAIN g.deps[c] |-> r[g.deps[c][i]].value] = <<r[a].value, r[b].value>>
  BY <1>1
<1>3. CASE r[a].status = "READY" /\ r[b].status = "READY"
  <2>1. \A i \in DOMAIN g.deps[c] : r[g.deps[c][i]].status = "READY"
    BY <1>1, <1>3
  <2>2. Figure(g, r, c)
          = Apply(g.op[c], [i \in DOMAIN g.deps[c] |-> r[g.deps[c][i]].value])
    BY <2>1, FigureOfReady
  <2> QED
    BY <2>2, <1>2, <1>3
<1>4. CASE ~(r[a].status = "READY" /\ r[b].status = "READY")
  <2>1. /\ \A i \in DOMAIN g.deps[c] : r[g.deps[c][i]].status \in {"READY", "NOT_READY"}
        /\ \E i \in DOMAIN g.deps[c] : r[g.deps[c][i]].status = "NOT_READY"
    BY <1>1, <1>4
  <2>2. Figure(g, r, c) = Blocked("NOT_READY")
    BY <2>1, FigureOfNotReady
  <2> QED
    BY <2>2, <1>4
<1> QED
  BY <1>3, <1>4

(* With three.                                                             *)
LEMMA FigureOfThree ==
  ASSUME NEW g, NEW r, NEW c, NEW a, NEW b, NEW d, g.deps[c] = <<a, b, d>>,
         r[a].status \in {"READY", "NOT_READY"}, r[b].status \in {"READY", "NOT_READY"},
         r[d].status \in {"READY", "NOT_READY"}
  PROVE  IF r[a].status = "READY" /\ r[b].status = "READY" /\ r[d].status = "READY"
           THEN Figure(g, r, c) = Apply(g.op[c], <<r[a].value, r[b].value, r[d].value>>)
           ELSE Figure(g, r, c) = Blocked("NOT_READY")
<1>1. /\ DOMAIN g.deps[c] = {1, 2, 3}
      /\ g.deps[c][1] = a
      /\ g.deps[c][2] = b
      /\ g.deps[c][3] = d
  OBVIOUS
<1>2. [i \in DOMAIN g.deps[c] |-> r[g.deps[c][i]].value] = <<r[a].value, r[b].value, r[d].value>>
  BY <1>1
<1>3. CASE r[a].status = "READY" /\ r[b].status = "READY" /\ r[d].status = "READY"
  <2>1. \A i \in DOMAIN g.deps[c] : r[g.deps[c][i]].status = "READY"
    BY <1>1, <1>3
  <2>2. Figure(g, r, c)
          = Apply(g.op[c], [i \in DOMAIN g.deps[c] |-> r[g.deps[c][i]].value])
    BY <2>1, FigureOfReady
  <2> QED
    BY <2>2, <1>2, <1>3
<1>4. CASE ~(r[a].status = "READY" /\ r[b].status = "READY" /\ r[d].status = "READY")
  <2>1. /\ \A i \in DOMAIN g.deps[c] : r[g.deps[c][i]].status \in {"READY", "NOT_READY"}
        /\ \E i \in DOMAIN g.deps[c] : r[g.deps[c][i]].status = "NOT_READY"
    BY <1>1, <1>4
  <2>2. Figure(g, r, c) = Blocked("NOT_READY")
    BY <2>1, FigureOfNotReady
  <2> QED
    BY <2>2, <1>4
<1> QED
  BY <1>3, <1>4

(* A difference is ready when both its terms are.                          *)
LEMMA FigureSubtracted ==
  ASSUME NEW g, NEW r, NEW c, NEW a, NEW b, g.deps[c] = <<a, b>>, g.op[c] = "subtract",
         r[a].status \in {"READY", "NOT_READY"}, r[b].status \in {"READY", "NOT_READY"},
         r[c] = Figure(g, r, c)
  PROVE  /\ r[c].status = IF r[a].status = "READY" /\ r[b].status = "READY"
                            THEN "READY" ELSE "NOT_READY"
         /\ r[c].status = "READY" => r[c].value = r[a].value - r[b].value
<1>1. CASE r[a].status = "READY" /\ r[b].status = "READY"
  <2>1. r[c] = Apply("subtract", <<r[a].value, r[b].value>>)
    BY <1>1, FigureOfTwo
  <2>2. r[c] = Ready(r[a].value - r[b].value)
    BY <2>1 DEF Apply
  <2> QED
    BY <1>1, <2>2 DEF Ready
<1>2. CASE ~(r[a].status = "READY" /\ r[b].status = "READY")
  <2>1. r[c] = Blocked("NOT_READY")
    BY <1>2, FigureOfTwo
  <2> QED
    BY <1>2, <2>1 DEF Blocked
<1> QED
  BY <1>1, <1>2

(* Nor are other figures ready unless all they depend on is.               *)
LEMMA TwoNotReady ==
  ASSUME NEW g, NEW r, NEW c, NEW a, NEW b, g.deps[c] = <<a, b>>,
         r[a].status \in {"READY", "NOT_READY"}, r[b].status \in {"READY", "NOT_READY"},
         ~(r[a].status = "READY" /\ r[b].status = "READY"),
         r[c] = Figure(g, r, c)
  PROVE  r[c].status = "NOT_READY"
<1>1. r[c] = Blocked("NOT_READY")
  BY FigureOfTwo
<1> QED
  BY <1>1 DEF Blocked

(* The same of three dependencies.                                         *)
LEMMA ThreeNotReady ==
  ASSUME NEW g, NEW r, NEW c, NEW a, NEW b, NEW d, g.deps[c] = <<a, b, d>>,
         r[a].status \in {"READY", "NOT_READY"}, r[b].status \in {"READY", "NOT_READY"},
         r[d].status \in {"READY", "NOT_READY"},
         ~(r[a].status = "READY" /\ r[b].status = "READY" /\ r[d].status = "READY"),
         r[c] = Figure(g, r, c)
  PROVE  r[c].status = "NOT_READY"
<1>1. r[c] = Blocked("NOT_READY")
  BY FigureOfThree
<1> QED
  BY <1>1 DEF Blocked

(* What the profit and loss statement computes from its inputs.            *)
LEMMA ProfitFigures ==
  ASSUME NEW inputs \in [Categories.profit -> Inputs]
  PROVE  LET results == Execute(ProfitGraph, inputs)
             complete == \A c \in Categories.profit : inputs[c].status = "READY"
         IN /\ complete => results["NET_INCOME"]
                  = Ready(((inputs["REVENUE"].value - inputs["COGS"].value)
                             - inputs["OPERATING_EXPENSE"].value)
                          + inputs["OTHER_INCOME"].value - inputs["OTHER_EXPENSE"].value)
            /\ ~complete => results["NET_INCOME"].status = "NOT_READY"
            /\ results["NET_MARGIN"].status =
                 IF ~complete THEN "NOT_READY"
                 ELSE IF inputs["REVENUE"].value = 0 THEN "ERROR" ELSE "READY"
<1> DEFINE g == ProfitGraph
           r == Execute(g, inputs)
           complete == \A c \in Categories.profit : inputs[c].status = "READY"
<1>1. /\ Categories.profit
           = {"REVENUE", "COGS", "OPERATING_EXPENSE", "OTHER_INCOME", "OTHER_EXPENSE"}
      /\ g.external = Categories.profit
      /\ Len(g.nodes) = 6
      /\ g.nodes[1] = "GROSS_PROFIT" /\ g.nodes[2] = "OPERATING_INCOME"
      /\ g.nodes[3] = "NET_INCOME" /\ g.nodes[6] = "NET_MARGIN"
      /\ g.deps["GROSS_PROFIT"] = <<"REVENUE", "COGS">>
      /\ g.deps["OPERATING_INCOME"] = <<"GROSS_PROFIT", "OPERATING_EXPENSE">>
      /\ g.deps["NET_INCOME"] = <<"OPERATING_INCOME", "OTHER_INCOME", "OTHER_EXPENSE">>
      /\ g.deps["NET_MARGIN"] = <<"NET_INCOME", "REVENUE">>
      /\ g.op["GROSS_PROFIT"] = "subtract" /\ g.op["OPERATING_INCOME"] = "subtract"
      /\ g.op["NET_INCOME"] = "income" /\ g.op["NET_MARGIN"] = "ratio"
  BY DEF ProfitGraph, Categories, Profit, ToSet
<1>2. InOrder(g)
  BY ProfitGraphInOrder
<1> HIDE DEF g
<1>3. /\ \A c \in Categories.profit : r[c] = inputs[c]
      /\ \A i \in 1 .. 6 : r[g.nodes[i]] = Figure(g, r, g.nodes[i])
  <2>1. DOMAIN inputs = g.external
    BY <1>1
  <2>2. /\ \A c \in g.external : r[c] = inputs[c]
        /\ \A i \in 1 .. Len(g.nodes) : r[g.nodes[i]] = Figure(g, r, g.nodes[i])
    BY <1>2, <2>1, Executed
  <2> HIDE DEF r
  <2> QED
    BY <1>1, <2>2
<1> HIDE DEF r
<1>4. /\ r["GROSS_PROFIT"] = Figure(g, r, "GROSS_PROFIT")
      /\ r["OPERATING_INCOME"] = Figure(g, r, "OPERATING_INCOME")
      /\ r["NET_INCOME"] = Figure(g, r, "NET_INCOME")
      /\ r["NET_MARGIN"] = Figure(g, r, "NET_MARGIN")
  <2>1. 1 \in 1 .. 6 /\ 2 \in 1 .. 6 /\ 3 \in 1 .. 6 /\ 6 \in 1 .. 6
    OBVIOUS
  <2> QED
    BY <2>1, <1>1, <1>3
<1>5. \A c \in Categories.profit : inputs[c].status \in {"READY", "NOT_READY"}
  BY DEF Inputs, Ready, Blocked
<1>6. /\ r["REVENUE"] = inputs["REVENUE"]
      /\ r["COGS"] = inputs["COGS"]
      /\ r["OPERATING_EXPENSE"] = inputs["OPERATING_EXPENSE"]
      /\ r["OTHER_INCOME"] = inputs["OTHER_INCOME"]
      /\ r["OTHER_EXPENSE"] = inputs["OTHER_EXPENSE"]
  BY <1>1, <1>3
<1>7. /\ r["REVENUE"].status \in {"READY", "NOT_READY"}
      /\ r["COGS"].status \in {"READY", "NOT_READY"}
      /\ r["OPERATING_EXPENSE"].status \in {"READY", "NOT_READY"}
      /\ r["OTHER_INCOME"].status \in {"READY", "NOT_READY"}
      /\ r["OTHER_EXPENSE"].status \in {"READY", "NOT_READY"}
  BY <1>1, <1>5, <1>6
<1>8. complete <=> /\ r["REVENUE"].status = "READY" /\ r["COGS"].status = "READY"
                   /\ r["OPERATING_EXPENSE"].status = "READY"
                   /\ r["OTHER_INCOME"].status = "READY"
                   /\ r["OTHER_EXPENSE"].status = "READY"
  BY <1>1, <1>6
<1> DEFINE gross == r["REVENUE"].value - r["COGS"].value
           operating == gross - r["OPERATING_EXPENSE"].value
           net == operating + r["OTHER_INCOME"].value - r["OTHER_EXPENSE"].value
<1>9. /\ r["GROSS_PROFIT"].status =
           IF r["REVENUE"].status = "READY" /\ r["COGS"].status = "READY"
             THEN "READY" ELSE "NOT_READY"
      /\ r["GROSS_PROFIT"].status = "READY" => r["GROSS_PROFIT"].value = gross
  BY <1>1, <1>4, <1>7, FigureSubtracted
<1>10. r["GROSS_PROFIT"].status \in {"READY", "NOT_READY"}
  BY <1>9
<1>11. /\ r["OPERATING_INCOME"].status =
            IF r["GROSS_PROFIT"].status = "READY" /\ r["OPERATING_EXPENSE"].status = "READY"
              THEN "READY" ELSE "NOT_READY"
       /\ r["OPERATING_INCOME"].status = "READY"
            => r["OPERATING_INCOME"].value
                 = r["GROSS_PROFIT"].value - r["OPERATING_EXPENSE"].value
  BY <1>1, <1>4, <1>7, <1>10, FigureSubtracted
<1>12. r["OPERATING_INCOME"].status \in {"READY", "NOT_READY"}
  BY <1>11
<1>13. IF complete
         THEN r["OPERATING_INCOME"].status = "READY" /\ r["OPERATING_INCOME"].value = operating
         ELSE ~(/\ r["OPERATING_INCOME"].status = "READY"
                /\ r["OTHER_INCOME"].status = "READY"
                /\ r["OTHER_EXPENSE"].status = "READY")
  BY <1>8, <1>9, <1>11
<1>14. CASE complete
  <2>1. r["NET_INCOME"] = Apply("income", <<r["OPERATING_INCOME"].value,
                                           r["OTHER_INCOME"].value, r["OTHER_EXPENSE"].value>>)
    BY <1>1, <1>4, <1>7, <1>8, <1>12, <1>13, <1>14, FigureOfThree
  <2>2. r["NET_INCOME"] = Ready(r["OPERATING_INCOME"].value + r["OTHER_INCOME"].value
                                  - r["OTHER_EXPENSE"].value)
    BY <2>1 DEF Apply
  <2>3. r["NET_INCOME"] = Ready(net)
    BY <2>2, <1>13, <1>14
  <2>4. r["NET_INCOME"].status = "READY"
    BY <2>3 DEF Ready
  <2>5. r["NET_MARGIN"] = Apply("ratio", <<r["NET_INCOME"].value, r["REVENUE"].value>>)
    BY <2>4, <1>1, <1>4, <1>7, <1>8, <1>14, FigureOfTwo
  <2>6. r["NET_MARGIN"] = IF r["REVENUE"].value = 0 THEN Blocked("ERROR")
                          ELSE Ready(Quantized(r["NET_INCOME"].value, r["REVENUE"].value))
    BY <2>5 DEF Apply
  <2>7. r["NET_MARGIN"].status = IF r["REVENUE"].value = 0 THEN "ERROR" ELSE "READY"
    BY <2>6 DEF Ready, Blocked
  <2> QED
    BY <2>3, <2>7, <1>6, <1>14 DEF r, g
<1>15. CASE ~complete
  <2>1. r["NET_INCOME"].status = "NOT_READY"
    BY <1>1, <1>4, <1>7, <1>12, <1>13, <1>15, ThreeNotReady
  <2>2. r["NET_MARGIN"].status = "NOT_READY"
    BY <2>1, <1>1, <1>4, <1>7, TwoNotReady
  <2> QED
    BY <2>1, <2>2, <1>15 DEF r, g
<1> QED
  BY <1>14, <1>15

(* A copy.                                                                 *)
LEMMA FigureCopied ==
  ASSUME NEW g, NEW r, NEW c, NEW a, g.deps[c] = <<a>>, g.op[c] = "copy",
         r[a].status \in {"READY", "NOT_READY"}, r[c] = Figure(g, r, c)
  PROVE  /\ r[c].status = r[a].status
         /\ r[c].status = "READY" => r[c].value = r[a].value
<1>1. CASE r[a].status = "READY"
  <2>1. r[c] = Apply("copy", <<r[a].value>>)
    BY <1>1, FigureOfOne
  <2>2. r[c] = Ready(r[a].value)
    BY <2>1 DEF Apply
  <2> QED
    BY <1>1, <2>2 DEF Ready
<1>2. CASE ~(r[a].status = "READY")
  <2>1. r[c] = Blocked("NOT_READY")
    BY <1>2, FigureOfOne
  <2> QED
    BY <1>2, <2>1 DEF Blocked
<1> QED
  BY <1>1, <1>2

(* What the balance sheet computes: a difference that is ready is that of  *)
(* three ready totals.                                                     *)
LEMMA SheetFigures ==
  ASSUME NEW inputs \in [Categories.sheet -> Inputs],
         Execute(SheetGraph, inputs)["BALANCE_DIFFERENCE"].status = "READY"
  PROVE  /\ \A c \in Categories.sheet : inputs[c].status = "READY"
         /\ Execute(SheetGraph, inputs)["BALANCE_DIFFERENCE"].value
              = inputs["ASSET"].value - inputs["LIABILITY"].value - inputs["EQUITY"].value
<1> DEFINE g == SheetGraph
           r == Execute(g, inputs)
<1>1. /\ Categories.sheet = {"ASSET", "LIABILITY", "EQUITY"}
      /\ g.external = Categories.sheet
      /\ Len(g.nodes) = 4
      /\ g.nodes[1] = "TOTAL_ASSETS" /\ g.nodes[2] = "TOTAL_LIABILITIES"
      /\ g.nodes[3] = "TOTAL_EQUITY" /\ g.nodes[4] = "BALANCE_DIFFERENCE"
      /\ g.deps["TOTAL_ASSETS"] = <<"ASSET">>
      /\ g.deps["TOTAL_LIABILITIES"] = <<"LIABILITY">>
      /\ g.deps["TOTAL_EQUITY"] = <<"EQUITY">>
      /\ g.deps["BALANCE_DIFFERENCE"] = <<"TOTAL_ASSETS", "TOTAL_LIABILITIES", "TOTAL_EQUITY">>
      /\ g.op["TOTAL_ASSETS"] = "copy" /\ g.op["TOTAL_LIABILITIES"] = "copy"
      /\ g.op["TOTAL_EQUITY"] = "copy" /\ g.op["BALANCE_DIFFERENCE"] = "difference"
  BY DEF SheetGraph, Categories, Sheet, ToSet
<1>2. InOrder(g) /\ r["BALANCE_DIFFERENCE"].status = "READY"
  BY SheetGraphInOrder
<1> HIDE DEF g
<1>3. /\ \A c \in Categories.sheet : r[c] = inputs[c]
      /\ \A i \in 1 .. 4 : r[g.nodes[i]] = Figure(g, r, g.nodes[i])
  <2>1. DOMAIN inputs = g.external
    BY <1>1
  <2>2. /\ \A c \in g.external : r[c] = inputs[c]
        /\ \A i \in 1 .. Len(g.nodes) : r[g.nodes[i]] = Figure(g, r, g.nodes[i])
    BY <1>2, <2>1, Executed
  <2> HIDE DEF r
  <2> QED
    BY <1>1, <2>2
<1> HIDE DEF r
<1>4. /\ r["TOTAL_ASSETS"] = Figure(g, r, "TOTAL_ASSETS")
      /\ r["TOTAL_LIABILITIES"] = Figure(g, r, "TOTAL_LIABILITIES")
      /\ r["TOTAL_EQUITY"] = Figure(g, r, "TOTAL_EQUITY")
      /\ r["BALANCE_DIFFERENCE"] = Figure(g, r, "BALANCE_DIFFERENCE")
  <2>1. 1 \in 1 .. 4 /\ 2 \in 1 .. 4 /\ 3 \in 1 .. 4 /\ 4 \in 1 .. 4
    OBVIOUS
  <2> QED
    BY <2>1, <1>1, <1>3
<1>5. \A c \in Categories.sheet : inputs[c].status \in {"READY", "NOT_READY"}
  BY DEF Inputs, Ready, Blocked
<1>6. \A v : Ready(v).status = "READY" /\ Ready(v).value = v
  BY DEF Ready
<1>8. /\ r["ASSET"] = inputs["ASSET"]
      /\ r["LIABILITY"] = inputs["LIABILITY"]
      /\ r["EQUITY"] = inputs["EQUITY"]
  BY <1>1, <1>3
<1>9. /\ r["TOTAL_ASSETS"].status = inputs["ASSET"].status
      /\ r["TOTAL_ASSETS"].status = "READY" => r["TOTAL_ASSETS"].value = inputs["ASSET"].value
  BY <1>1, <1>4, <1>5, <1>8, FigureCopied
<1>10. /\ r["TOTAL_LIABILITIES"].status = inputs["LIABILITY"].status
       /\ r["TOTAL_LIABILITIES"].status = "READY"
            => r["TOTAL_LIABILITIES"].value = inputs["LIABILITY"].value
  BY <1>1, <1>4, <1>5, <1>8, FigureCopied
<1>11. /\ r["TOTAL_EQUITY"].status = inputs["EQUITY"].status
       /\ r["TOTAL_EQUITY"].status = "READY" => r["TOTAL_EQUITY"].value = inputs["EQUITY"].value
  BY <1>1, <1>4, <1>5, <1>8, FigureCopied
<1>12. /\ r["TOTAL_ASSETS"].status = "READY"
       /\ r["TOTAL_LIABILITIES"].status = "READY"
       /\ r["TOTAL_EQUITY"].status = "READY"
  <2> SUFFICES ASSUME ~(/\ r["TOTAL_ASSETS"].status = "READY"
                        /\ r["TOTAL_LIABILITIES"].status = "READY"
                        /\ r["TOTAL_EQUITY"].status = "READY")
               PROVE  FALSE
    OBVIOUS
  <2>1. /\ r["TOTAL_ASSETS"].status \in {"READY", "NOT_READY"}
        /\ r["TOTAL_LIABILITIES"].status \in {"READY", "NOT_READY"}
        /\ r["TOTAL_EQUITY"].status \in {"READY", "NOT_READY"}
    BY <1>1, <1>5, <1>9, <1>10, <1>11
  <2>2. r["BALANCE_DIFFERENCE"].status = "NOT_READY"
    BY <2>1, <1>1, <1>4, ThreeNotReady
  <2> QED
    BY <2>2, <1>2
<1>13. r["BALANCE_DIFFERENCE"]
         = Apply("difference", <<r["TOTAL_ASSETS"].value, r["TOTAL_LIABILITIES"].value,
                                 r["TOTAL_EQUITY"].value>>)
  BY <1>1, <1>4, <1>12, FigureOfThree
<1>14. r["BALANCE_DIFFERENCE"].value
         = r["TOTAL_ASSETS"].value - r["TOTAL_LIABILITIES"].value - r["TOTAL_EQUITY"].value
  BY <1>13, <1>6 DEF Apply
<1>15. /\ \A c \in Categories.sheet : inputs[c].status = "READY"
       /\ r["BALANCE_DIFFERENCE"].value
            = inputs["ASSET"].value - inputs["LIABILITY"].value - inputs["EQUITY"].value
  BY <1>1, <1>9, <1>10, <1>11, <1>12, <1>14
<1> QED
  BY <1>15 DEF r, g

----------------------------------------------------------------------------
(* Sums of postings                                                        *)

(* A sum of zeros.                                                         *)
LEMMA SumOfZeros ==
  ASSUME NEW D, IsFiniteSet(D), NEW f \in [D -> Int], \A x \in D : f[x] = 0
  PROVE  SumFunction(f) = 0
<1> DEFINE S == SumsOf(f)
           G == {n \in Nat : \A s \in SUBSET D : Cardinality(s) = n => S[s] = 0}
<1>1. \A s \in SUBSET D : IsFiniteSet(s) /\ Cardinality(s) \in Nat
  BY FS_Subset, FS_CardinalityType
<1>2. SumFunction(f) = S[D] /\ S[{}] = 0
  <2>1. DOMAIN f = D
    OBVIOUS
  <2> QED
    BY <2>1, SumsDefined DEF Step
<1>3. \A s \in SUBSET D : \A x \in s : S[s] = f[x] + S[s \ {x}]
  <2>1. ASSUME NEW s \in SUBSET D, NEW x \in s PROVE S[s] = f[x] + S[s \ {x}]
    BY SumsTakeOut
  <2> QED
    BY <2>1
<1> HIDE DEF S
<1>4. 0 \in G
  <2>1. \A s \in SUBSET D : Cardinality(s) = 0 => s = {}
    BY <1>1, FS_EmptySet
  <2> QED
    BY <2>1, <1>2
<1>5. ASSUME NEW n \in Nat, n \in G PROVE n + 1 \in G
  <2> SUFFICES ASSUME NEW s \in SUBSET D, Cardinality(s) = n + 1 PROVE S[s] = 0
    OBVIOUS
  <2>1. PICK x \in s : TRUE
    BY FS_EmptySet
  <2>2. Cardinality(s \ {x}) = Cardinality(s) - 1
    BY <1>1, FS_RemoveElement
  <2>3. S[s \ {x}] = 0
    BY <2>2, <1>5
  <2> QED
    BY <2>3, <1>3
<1>6. \A n \in Nat : n \in G
  <2> HIDE DEF G
  <2> QED
    BY <1>4, <1>5, SetOfNaturals
<1>7. S[D] = 0
  BY <1>1, <1>6
<1> QED
  BY <1>2, <1>7

(* The terms of a sum, negated.                                            *)
LEMMA SumNegated ==
  ASSUME NEW D, IsFiniteSet(D), NEW f \in [D -> Int]
  PROVE  SumFunction([x \in D |-> -f[x]]) = -SumFunction(f)
<1> DEFINE g == [x \in D |-> -f[x]]
           S == SumsOf(f)
           N == SumsOf(g)
           G == {n \in Nat : \A s \in SUBSET D : Cardinality(s) = n => N[s] = -S[s]}
<1>0. g \in [D -> Int] /\ \A x \in D : g[x] = -f[x]
  OBVIOUS
<1> HIDE DEF g
<1>1. \A s \in SUBSET D : IsFiniteSet(s) /\ Cardinality(s) \in Nat
  BY FS_Subset, FS_CardinalityType
<1>2. SumFunction(f) = S[D] /\ S[{}] = 0 /\ SumFunction(g) = N[D] /\ N[{}] = 0
  <2>1. DOMAIN f = D /\ DOMAIN g = D
    BY <1>0
  <2> QED
    BY <2>1, SumsDefined DEF Step
<1>3. ASSUME NEW s \in SUBSET D, NEW x \in s
      PROVE  S[s] = f[x] + S[s \ {x}] /\ N[s] = g[x] + N[s \ {x}]
  <2>1. S[s] = f[x] + S[s \ {x}]
    BY SumsTakeOut
  <2>2. N[s] = g[x] + N[s \ {x}]
    BY <1>0, SumsTakeOut
  <2> QED
    BY <2>1, <2>2
<1>4. \A s \in SUBSET D : S[s] \in Int /\ N[s] \in Int
  BY <1>0, SumsInt
<1> HIDE DEF S, N
<1>5. 0 \in G
  <2>1. \A s \in SUBSET D : Cardinality(s) = 0 => s = {}
    BY <1>1, FS_EmptySet
  <2> QED
    BY <2>1, <1>2
<1>6. ASSUME NEW n \in Nat, n \in G PROVE n + 1 \in G
  <2> SUFFICES ASSUME NEW s \in SUBSET D, Cardinality(s) = n + 1 PROVE N[s] = -S[s]
    OBVIOUS
  <2>1. PICK x \in s : TRUE
    BY FS_EmptySet
  <2>2. Cardinality(s \ {x}) = Cardinality(s) - 1
    BY <1>1, FS_RemoveElement
  <2>3. N[s \ {x}] = -S[s \ {x}]
    BY <2>2, <1>6
  <2>4. S[s] = f[x] + S[s \ {x}] /\ N[s] = g[x] + N[s \ {x}]
    BY <1>3
  <2>5. S[s \ {x}] \in Int /\ f[x] \in Int /\ g[x] = -f[x]
    BY <1>0, <1>4
  <2> QED
    BY <2>3, <2>4, <2>5
<1>7. \A n \in Nat : n \in G
  <2> HIDE DEF G
  <2> QED
    BY <1>5, <1>6, SetOfNaturals
<1>8. N[D] = -S[D]
  BY <1>1, <1>7
<1> QED
  BY <1>2, <1>8 DEF g

(* Finitely many postings.                                                 *)
Postable(fs) == IsFiniteSet(fs) /\ \A f \in fs : f.amount \in Int

Amounts(fs) == [f \in fs |-> f.amount]

(* A part of them is finite, too.                                          *)
LEMMA PartPostable ==
  ASSUME NEW fs, Postable(fs), NEW gs \in SUBSET fs
  PROVE  Postable(gs)
BY FS_Subset DEF Postable

(* The amount of postings is an integer.                                   *)
LEMMA AmountInt ==
  ASSUME NEW fs, Postable(fs)
  PROVE  Amount(fs) \in Int
<1>1. Amounts(fs) \in [fs -> Int]
  BY DEF Amounts, Postable
<1>2. SumFunction(Amounts(fs)) \in Int
  BY <1>1, SumTakeOut DEF Postable
<1> QED
  BY <1>2 DEF Amount, Amounts

(* No posting amounts to nothing.                                          *)
LEMMA AmountOfNothing == Amount({}) = 0
<1>1. DOMAIN [f \in {} |-> f.amount] = {}
  OBVIOUS
<1> QED
  BY <1>1, SumOfNothing DEF Amount

(* One posting, to what it has.                                            *)
LEMMA AmountOfOne ==
  ASSUME NEW f, f.amount \in Int
  PROVE  Amount({f}) = f.amount
<1>1. Amounts({f}) \in [{f} -> Int] /\ Amounts({f})[f] = f.amount
  BY DEF Amounts
<1>2. IsFiniteSet({f})
  BY FS_Singleton
<1> DEFINE rest == On(Amounts({f}), {f} \ {f})
<1>3. SumFunction(Amounts({f})) = f.amount + SumFunction(rest)
  BY <1>1, <1>2, SumTakeOut
<1>4. SumFunction(rest) = 0
  <2>1. DOMAIN rest = {}
    BY DEF On
  <2> QED
    BY <2>1, SumOfNothing
<1> QED
  BY <1>3, <1>4 DEF Amount, Amounts

(* The amount of two sets of postings that are apart.                      *)
LEMMA AmountOfTwo ==
  ASSUME NEW fs, NEW gs, Postable(fs), Postable(gs), fs \cap gs = {}
  PROVE  Amount(fs \cup gs) = Amount(fs) + Amount(gs)
<1> DEFINE a == Amounts(fs \cup gs)
           D == fs \cup gs
<1>1. a \in [D -> Int]
  BY DEF Amounts, Postable
<1>2. On(a, fs) = Amounts(fs) /\ On(a, gs) = Amounts(gs)
  BY DEF On, Amounts
<1>3. IsFiniteSet(fs) /\ IsFiniteSet(gs) /\ D = fs \cup gs
  BY DEF Postable
<1>4. SumFunction(a) = Amount(D)
  BY DEF Amount, Amounts
<1> HIDE DEF a, D
<1>5. SumFunction(a) = SumFunction(On(a, fs)) + SumFunction(On(a, gs))
  BY <1>1, <1>3, SumOfTwo
<1> QED
  BY <1>2, <1>3, <1>4, <1>5 DEF Amount, Amounts

(* Whether postings are summed up at once or by groups.                    *)
LEMMA AmountByGroups ==
  ASSUME NEW fs, Postable(fs), NEW K, IsFiniteSet(K), NEW key \in [fs -> K]
  PROVE  Amount(fs) = SumFunction([k \in K |-> Amount({f \in fs : key[f] = k})])
<1> DEFINE a == Amounts(fs)
           Group(k) == {f \in fs : key[f] = k}
<1>1. a \in [fs -> Int] /\ IsFiniteSet(fs)
  BY DEF Amounts, Postable
<1>2. \A k \in K : On(a, Group(k)) = Amounts(Group(k))
  BY DEF On, Amounts
<1> HIDE DEF a
<1>3. SumFunction(a) = SumFunction([k \in K |-> SumFunction(On(a, Group(k)))])
  BY <1>1, SumByGroups
<1>4. \A k \in K : SumFunction(On(a, Group(k))) = Amount(Group(k))
  BY <1>2 DEF Amount, Amounts
<1>5. [k \in K |-> SumFunction(On(a, Group(k)))] = [k \in K |-> Amount(Group(k))]
  BY <1>4
<1> QED
  BY <1>3, <1>5 DEF Amount, Amounts, a

----------------------------------------------------------------------------
(* Ledgers                                                                 *)

Posted == [day : Day, lines : [Account -> Int], status : {"POSTED", "REVERSED"}]

(* There are finitely many accounts.                                       *)
LEMMA AccountsFinite == IsFiniteSet(Account)
BY StatementsAssumption

(* Its entries have days and lines.                                        *)
LEMMA PostedEntry ==
  ASSUME NEW led \in Seq(Posted), NEW i \in DOMAIN led
  PROVE  led[i].day \in Day /\ led[i].lines \in [Account -> Int]
<1>1. led[i] \in Posted
  OBVIOUS
<1> QED
  BY <1>1 DEF Posted

(* The postings of a ledger.                                               *)
LEMMA PostingsOf ==
  ASSUME NEW led \in Seq(Posted)
  PROVE  /\ \A f \in Postings(led) :
              /\ f = [entry |-> f.entry, day |-> f.day, account |-> f.account, amount |-> f.amount]
              /\ f.entry \in DOMAIN led /\ f.account \in Account
              /\ f.day = led[f.entry].day /\ f.amount = led[f.entry].lines[f.account]
              /\ f.day \in Day /\ f.amount \in Int
         /\ \A i \in DOMAIN led, a \in Account : led[i].lines[a] # 0 =>
              [entry |-> i, day |-> led[i].day, account |-> a, amount |-> led[i].lines[a]]
                \in Postings(led)
         /\ \A f \in Postings(led) : f.amount # 0
<1>1. \A i \in DOMAIN led : led[i].day \in Day /\ led[i].lines \in [Account -> Int]
  BY PostedEntry
<1> QED
  BY <1>1 DEF Postings

(* There are finitely many.                                                *)
LEMMA PostingsPostable ==
  ASSUME NEW led \in Seq(Posted)
  PROVE  Postable(Postings(led))
<1> DEFINE T == (1 .. Len(led)) \X Account
           place == [f \in Postings(led) |-> <<f.entry, f.account>>]
<1>1. IsFiniteSet(T)
  <2>1. IsFiniteSet(1 .. Len(led))
    BY FS_Interval
  <2> QED
    BY <2>1, AccountsFinite, FS_Product
<1>2. \A f \in Postings(led) : <<f.entry, f.account>> \in T
  BY PostingsOf
<1>3. ASSUME NEW f \in Postings(led), NEW h \in Postings(led),
             <<f.entry, f.account>> = <<h.entry, h.account>>
      PROVE  f = h
  <2>1. f.entry = h.entry /\ f.account = h.account
    BY <1>3
  <2>2. f.day = h.day /\ f.amount = h.amount
    BY <2>1, PostingsOf
  <2> QED
    BY <2>1, <2>2, PostingsOf
<1>4. place \in Injection(Postings(led), T)
  BY <1>2, <1>3 DEF Injection, IsInjective
<1>5. IsFiniteSet(Postings(led))
  <2> HIDE DEF place, T
  <2> QED
    BY <1>1, <1>4, FS_Injection
<1> QED
  BY <1>5, PostingsOf DEF Postable

(* What an entry posts is what it moves.                                   *)
LEMMA AmountOfEntry ==
  ASSUME NEW led \in Seq(Posted), NEW i \in DOMAIN led
  PROVE  Amount({f \in Postings(led) : f.entry = i}) = SumFunction(led[i].lines)
<1> DEFINE fs == {f \in Postings(led) : f.entry = i}
           key == [f \in fs |-> f.account]
           Group(a) == {f \in fs : key[f] = a}
           lines == led[i].lines
<1>1. lines \in [Account -> Int]
  BY PostedEntry
<1>2. Postable(fs)
  BY PostingsPostable, PartPostable
<1>3. key \in [fs -> Account] /\ \A f \in fs : key[f] = f.account
  BY PostingsOf
<1>4. ASSUME NEW a \in Account PROVE Amount(Group(a)) = lines[a]
  <2> DEFINE p == [entry |-> i, day |-> led[i].day, account |-> a, amount |-> lines[a]]
  <2>1. \A f \in Group(a) : f = p /\ lines[a] # 0
    BY <1>3, PostingsOf
  <2>2. CASE lines[a] = 0
    <3>1. Group(a) = {}
      BY <2>1, <2>2
    <3> QED
      BY <3>1, <2>2, AmountOfNothing
  <2>3. CASE lines[a] # 0
    <3>1. p \in Postings(led) /\ p.entry = i /\ p.account = a
      BY <2>3, PostingsOf
    <3>2. p \in fs
      BY <3>1
    <3>3. Group(a) = {p}
      BY <2>1, <3>1, <3>2, <1>3
    <3>4. p.amount = lines[a] /\ lines[a] \in Int
      BY <1>1
    <3> HIDE DEF p
    <3> QED
      BY <3>3, <3>4, AmountOfOne
  <2> QED
    BY <2>2, <2>3
<1> HIDE DEF fs, key
<1>5. Amount(fs) = SumFunction([a \in Account |-> Amount(Group(a))])
  BY <1>2, <1>3, AccountsFinite, AmountByGroups
<1>6. [a \in Account |-> Amount(Group(a))] = lines
  BY <1>1, <1>4
<1> QED
  BY <1>5, <1>6 DEF fs

Balanced(led) == \A i \in DOMAIN led : SumFunction(led[i].lines) = 0

(* Whole days of a ledger of balanced entries sum up to zero.              *)
LEMMA DaysBalance ==
  ASSUME NEW led \in Seq(Posted), Balanced(led), NEW D
  PROVE  Amount({f \in Postings(led) : f.day \in D}) = 0
<1> DEFINE fs == {f \in Postings(led) : f.day \in D}
           key == [f \in fs |-> f.entry]
           K == 1 .. Len(led)
           Group(i) == {f \in fs : key[f] = i}
           sums == [i \in K |-> Amount(Group(i))]
<1>1. Postable(fs)
  BY PostingsPostable, PartPostable
<1>2. key \in [fs -> K] /\ \A f \in fs : key[f] = f.entry
  BY PostingsOf
<1>3. ASSUME NEW i \in K PROVE Amount(Group(i)) = 0
  <2>1. \A f \in Postings(led) : f.entry = i => f.day = led[i].day
    BY PostingsOf
  <2>2. CASE led[i].day \in D
    <3>1. Group(i) = {f \in Postings(led) : f.entry = i}
      BY <2>1, <2>2, <1>2
    <3>2. i \in DOMAIN led
      OBVIOUS
    <3>3. Amount({f \in Postings(led) : f.entry = i}) = SumFunction(led[i].lines)
      BY <3>2, AmountOfEntry
    <3> QED
      BY <3>1, <3>2, <3>3 DEF Balanced
  <2>3. CASE led[i].day \notin D
    <3>1. Group(i) = {}
      BY <2>1, <2>3, <1>2
    <3> QED
      BY <3>1, AmountOfNothing
  <2> QED
    BY <2>2, <2>3
<1>4. IsFiniteSet(K)
  BY FS_Interval
<1> HIDE DEF fs, key, K
<1>5. Amount(fs) = SumFunction(sums)
  BY <1>1, <1>2, <1>4, AmountByGroups
<1>6. sums \in [K -> Int] /\ \A i \in K : sums[i] = 0
  BY <1>3
<1> HIDE DEF sums
<1>7. SumFunction(sums) = 0
  BY <1>4, <1>6, SumOfZeros
<1> QED
  BY <1>5, <1>7 DEF fs

----------------------------------------------------------------------------
(* Reports                                                                 *)

(* The first day of a window.                                              *)
LEMMA WindowBegins ==
  ASSUME NEW s \in Scope
  PROVE  /\ FirstDay(s) \in Int
         /\ OpeningDate(s) # None => FirstDay(s) = OpeningDate(s)
         /\ OpeningDate(s) = None => FirstDay(s) = 1
<1>1. /\ s.period # None => s.period.first \in Day
      /\ s.start # None => s.start \in Day
  BY ReportsAssumption DEF Scope
<1>2. \A d \in Day : d \in Int
  BY DEF Day
<1>3. /\ OpeningDate(s) # None => FirstDay(s) = OpeningDate(s) /\ OpeningDate(s) \in Day
      /\ OpeningDate(s) = None => FirstDay(s) = 1
  BY <1>1 DEF FirstDay, OpeningDate
<1> QED
  BY <1>2, <1>3

(* Dates within the period are accepted, and make a window of days.        *)
LEMMA ScopeIsWindow ==
  ASSUME NEW s \in Scope, DatesWithin(s)
  PROVE  /\ DatesAccepted(s)
         /\ ClosingDay(s) \in Int
         /\ FirstDay(s) - 1 <= ClosingDay(s)
         /\ \A day \in Day : InScope(day, s) <=> (FirstDay(s) <= day /\ day <= ClosingDay(s))
<1>1. /\ s.period # None => s.period.first \in Day /\ s.period.last \in Day
      /\ s.period # None => s.period.first < s.period.last
      /\ s.start # None => s.start \in Day
      /\ s.end # None => s.end \in Day
  BY ReportsAssumption DEF Scope
<1>2. \A d \in Day : d \in Int /\ 1 <= d /\ d <= LastDay /\ d # None
  BY ReportsAssumption DEF Day
<1>3. LastDay \in Int /\ 0 <= LastDay
  BY ReportsAssumption
<1>4. /\ (s.period # None /\ s.start # None) =>
           s.period.first <= s.start /\ s.start <= s.period.last
      /\ (s.period # None /\ s.end # None) =>
           s.period.first <= s.end /\ s.end <= s.period.last
      /\ (s.start # None /\ s.end # None) => s.start <= s.end
  <2>1. s.period # None =>
          \A d \in {s.start, s.end} \ {None} : s.period.first <= d /\ d <= s.period.last
    BY DEF DatesWithin, DaysOf
  <2> QED
    BY <2>1 DEF DatesWithin
<1>5. DatesAccepted(s)
  BY <1>1, <1>2, <1>4 DEF DatesAccepted
<1>6. FirstDay(s) = IF s.start # None THEN s.start
                    ELSE IF s.period # None THEN s.period.first ELSE 1
  BY <1>1, <1>2 DEF FirstDay, OpeningDate
<1>7. ClosingDay(s) \in Int
  BY <1>1, <1>2, <1>3 DEF ClosingDay
<1>8. FirstDay(s) - 1 <= ClosingDay(s)
  BY <1>1, <1>2, <1>3, <1>4, <1>6 DEF ClosingDay
<1>9. ASSUME NEW day \in Day
      PROVE  InScope(day, s) <=> (FirstDay(s) <= day /\ day <= ClosingDay(s))
  <2>1. CASE s.period = None
    BY <2>1, <1>1, <1>2, <1>3, <1>6 DEF InScope, ClosingDay
  <2>2. CASE s.period # None
    BY <2>2, <1>1, <1>2, <1>4, <1>6 DEF InScope, ClosingDay, DaysOf
  <2> QED
    BY <2>1, <2>2
<1> QED
  BY <1>5, <1>7, <1>8, <1>9

(* The first n entries.                                                    *)
LEMMA PrefixOfLedger ==
  ASSUME NEW led \in Seq(Posted), NEW n \in 0 .. Len(led)
  PROVE  /\ SubSeq(led, 1, n) \in Seq(Posted)
         /\ DOMAIN SubSeq(led, 1, n) = 1 .. n
         /\ \A i \in 1 .. n : SubSeq(led, 1, n)[i] = led[i]
         /\ n = Len(led) => SubSeq(led, 1, n) = led
<1> DEFINE first == SubSeq(led, 1, n)
<1>1. first = [i \in 1 .. n |-> led[i]]
  OBVIOUS
<1>2. n \in Nat /\ 1 .. n \subseteq DOMAIN led
  OBVIOUS
<1>3. \A i \in 1 .. n : led[i] \in Posted
  BY <1>2
<1>4. first \in Seq(Posted)
  BY <1>1, <1>2, <1>3
<1>5. n = Len(led) => first = led
  BY <1>1
<1> QED
  BY <1>1, <1>4, <1>5

(* BalanceAt, of a given ledger.                                           *)
BalanceOf(led, n, a, day) ==
  Amount({f \in Postings(SubSeq(led, 1, n)) : f.account = a /\ f.day <= day})

(* A balance is an integer.                                                *)
LEMMA BalanceInt ==
  ASSUME NEW led \in Seq(Posted), NEW n \in 0 .. Len(led), NEW a, NEW day
  PROVE  BalanceOf(led, n, a, day) \in Int
<1> DEFINE first == SubSeq(led, 1, n)
           fs == {f \in Postings(first) : f.account = a /\ f.day <= day}
<1>1. first \in Seq(Posted)
  BY PrefixOfLedger
<1> HIDE DEF first
<1>2. Postable(fs)
  BY <1>1, PostingsPostable, PartPostable
<1> HIDE DEF fs
<1>3. Amount(fs) \in Int
  BY <1>2, AmountInt
<1> QED
  BY <1>3 DEF BalanceOf, fs, first

(* Before the first entry there is none.                                   *)
LEMMA BalanceOfNoEntry ==
  ASSUME NEW led \in Seq(Posted), NEW a, NEW day
  PROVE  BalanceOf(led, 0, a, day) = 0
<1> DEFINE first == SubSeq(led, 1, 0)
<1>1. first \in Seq(Posted) /\ DOMAIN first = {}
  BY PrefixOfLedger
<1> HIDE DEF first
<1>2. Postings(first) = {}
  BY <1>1, PostingsOf
<1>3. {f \in Postings(first) : f.account = a /\ f.day <= day} = {}
  BY <1>2
<1> QED
  BY <1>3, AmountOfNothing DEF BalanceOf, first

(* The balance of a window is the difference of two balances.              *)
LEMMA BalanceOfWindow ==
  ASSUME NEW led \in Seq(Posted), NEW s \in Scope, DatesWithin(s), NEW a
  PROVE  AccountBalance(led, a, s) = BalanceOf(led, Len(led), a, ClosingDay(s))
                                       - BalanceOf(led, Len(led), a, FirstDay(s) - 1)
<1> DEFINE before == {f \in Postings(led) : f.account = a /\ f.day <= FirstDay(s) - 1}
           within == Of(a, Facts(led, s))
           until == {f \in Postings(led) : f.account = a /\ f.day <= ClosingDay(s)}
<1>1. Len(led) \in 0 .. Len(led)
  OBVIOUS
<1>2. SubSeq(led, 1, Len(led)) = led
  BY <1>1, PrefixOfLedger
<1>3. \A f \in Postings(led) : f.day \in Day
  BY PostingsOf
<1>4. \A d \in Day : d \in Int
  BY DEF Day
<1>5. within = {f \in Postings(led) : f.account = a /\ InScope(f.day, s)}
  BY DEF Of, Facts
<1>6. within = {f \in Postings(led) :
                  f.account = a /\ FirstDay(s) <= f.day /\ f.day <= ClosingDay(s)}
  BY <1>3, <1>5, ScopeIsWindow
<1>7. until = before \cup within /\ before \cap within = {}
  BY <1>3, <1>4, <1>6, ScopeIsWindow, WindowBegins
<1>8. Postable(before) /\ Postable(within)
  BY <1>6, PostingsPostable, PartPostable
<1>9. /\ BalanceOf(led, Len(led), a, ClosingDay(s)) = Amount(until)
      /\ BalanceOf(led, Len(led), a, FirstDay(s) - 1) = Amount(before)
      /\ AccountBalance(led, a, s) = Amount(within)
  BY <1>2 DEF BalanceOf, AccountBalance
<1> HIDE DEF before, within, until
<1>10. Amount(until) = Amount(before) + Amount(within)
  BY <1>7, <1>8, AmountOfTwo
<1>11. Amount(before) \in Int /\ Amount(within) \in Int
  BY <1>8, AmountInt
<1> QED
  BY <1>9, <1>10, <1>11

(* What general_ledger brings forward.                                     *)
LEMMA OpeningIsBalance ==
  ASSUME NEW led \in Seq(Posted), NEW s \in Scope, NEW a,
         OpeningDate(s) # None
  PROVE  Opening(led, a, s) = BalanceOf(led, Len(led), a, FirstDay(s) - 1)
<1>1. Len(led) \in 0 .. Len(led)
  OBVIOUS
<1>2. SubSeq(led, 1, Len(led)) = led
  BY <1>1, PrefixOfLedger
<1>3. \A f \in Postings(led) : f.day \in Int
  BY PostingsOf DEF Day
<1>4. FirstDay(s) = OpeningDate(s) /\ FirstDay(s) \in Int
  BY WindowBegins
<1>5. {f \in Of(a, Postings(led)) : f.day < OpeningDate(s)}
        = {f \in Postings(led) : f.account = a /\ f.day <= FirstDay(s) - 1}
  BY <1>3, <1>4 DEF Of
<1> QED
  BY <1>2, <1>5 DEF Opening, BalanceOf

(* The rows of the trial balance are the balances, and sum up to zero.     *)
LEMMA TrialRows ==
  ASSUME NEW led \in Seq(Posted), NEW s, NEW a
  PROVE  AccountBalance(led, a, s) =
           IF a \in DOMAIN TrialBalance(led, s) THEN TrialBalance(led, s)[a] ELSE 0
<1> DEFINE fs == Facts(led, s)
           K == {f.account : f \in fs}
<1>1. TrialBalance(led, s) = [k \in K |-> Amount(Of(k, fs))]
  BY DEF TrialBalance
<1>2. a \notin K => Of(a, fs) = {}
  BY DEF Of
<1>3. AccountBalance(led, a, s) = Amount(Of(a, fs))
  BY DEF AccountBalance
<1>4. CASE a \in K
  BY <1>1, <1>3, <1>4
<1>5. CASE a \notin K
  <2>1. AccountBalance(led, a, s) = 0
    BY <1>2, <1>3, <1>5, AmountOfNothing
  <2> QED
    BY <1>1, <1>5, <2>1
<1> QED
  BY <1>4, <1>5

(* They are rows of whole days, which balance.                             *)
LEMMA TrialSum ==
  ASSUME NEW led \in Seq(Posted), Balanced(led), NEW s
  PROVE  SumFunction(TrialBalance(led, s)) = 0
<1> DEFINE fs == Facts(led, s)
           K == {f.account : f \in fs}
           key == [f \in fs |-> f.account]
           D == {d \in Day : InScope(d, s)}
<1>1. fs \in SUBSET Postings(led)
  BY DEF Facts
<1>2. Postable(fs)
  BY <1>1, PostingsPostable, PartPostable
<1>3. K \subseteq Account
  BY <1>1, PostingsOf
<1>4. IsFiniteSet(K)
  <2> HIDE DEF K
  <2> QED
    BY <1>3, AccountsFinite, FS_Subset
<1>5. key \in [fs -> K] /\ \A f \in fs : key[f] = f.account
  OBVIOUS
<1>6. \A k \in K : {f \in fs : key[f] = k} = Of(k, fs)
  BY DEF Of
<1>7. TrialBalance(led, s) = [k \in K |-> Amount(Of(k, fs))]
  BY DEF TrialBalance
<1>8. fs = {f \in Postings(led) : f.day \in D}
  BY PostingsOf DEF Facts
<1>9. Amount({f \in Postings(led) : f.day \in D}) = 0
  BY DaysBalance
<1> HIDE DEF fs, K, key, D
<1>10. Amount(fs) = SumFunction([k \in K |-> Amount({f \in fs : key[f] = k})])
  BY <1>2, <1>4, <1>5, AmountByGroups
<1>11. [k \in K |-> Amount({f \in fs : key[f] = k})] = TrialBalance(led, s)
  BY <1>6, <1>7
<1> QED
  BY <1>8, <1>9, <1>10, <1>11

(* A ledger that goes on: its entries keep their days and lines.           *)
Carries(led, more) ==
  /\ Len(led) <= Len(more)
  /\ \A i \in DOMAIN led : more[i].day = led[i].day /\ more[i].lines = led[i].lines

(* It has the balances it had.                                             *)
LEMMA BalanceCarried ==
  ASSUME NEW led \in Seq(Posted), NEW more \in Seq(Posted), Carries(led, more),
         NEW n \in 0 .. Len(led), NEW a, NEW day
  PROVE  BalanceOf(more, n, a, day) = BalanceOf(led, n, a, day)
<1> DEFINE x == SubSeq(led, 1, n)
           y == SubSeq(more, 1, n)
<1>1. n \in 0 .. Len(more)
  BY DEF Carries
<1>2. /\ x \in Seq(Posted) /\ y \in Seq(Posted)
      /\ DOMAIN x = 1 .. n /\ DOMAIN y = 1 .. n
      /\ \A i \in 1 .. n : x[i] = led[i] /\ y[i] = more[i]
  BY <1>1, PrefixOfLedger
<1>3. \A i \in 1 .. n : i \in DOMAIN led
  OBVIOUS
<1>4. \A i \in 1 .. n : x[i].day = y[i].day /\ x[i].lines = y[i].lines
  BY <1>2, <1>3 DEF Carries
<1> HIDE DEF x, y
<1>5. ASSUME NEW f \in Postings(x) PROVE f \in Postings(y)
  <2>1. /\ f = [entry |-> f.entry, day |-> x[f.entry].day, account |-> f.account,
                amount |-> x[f.entry].lines[f.account]]
        /\ f.entry \in 1 .. n /\ f.account \in Account
        /\ x[f.entry].lines[f.account] # 0
    BY <1>2, PostingsOf
  <2>2. /\ f = [entry |-> f.entry, day |-> y[f.entry].day, account |-> f.account,
                amount |-> y[f.entry].lines[f.account]]
        /\ y[f.entry].lines[f.account] # 0
    BY <2>1, <1>4
  <2> QED
    BY <2>1, <2>2, <1>2, PostingsOf
<1>6. ASSUME NEW f \in Postings(y) PROVE f \in Postings(x)
  <2>1. /\ f = [entry |-> f.entry, day |-> y[f.entry].day, account |-> f.account,
                amount |-> y[f.entry].lines[f.account]]
        /\ f.entry \in 1 .. n /\ f.account \in Account
        /\ y[f.entry].lines[f.account] # 0
    BY <1>2, PostingsOf
  <2>2. /\ f = [entry |-> f.entry, day |-> x[f.entry].day, account |-> f.account,
                amount |-> x[f.entry].lines[f.account]]
        /\ x[f.entry].lines[f.account] # 0
    BY <2>1, <1>4
  <2> QED
    BY <2>1, <2>2, <1>2, PostingsOf
<1>7. Postings(x) = Postings(y)
  BY <1>5, <1>6
<1> QED
  BY <1>7 DEF BalanceOf, x, y

(* Entries dated later do not change the balance of a day.                 *)
LEMMA BalanceUndisturbed ==
  ASSUME NEW led \in Seq(Posted), NEW n \in 0 .. Len(led), NEW k \in 0 .. n,
         NEW first \in Int, \A i \in k + 1 .. n : led[i].day >= first, NEW a
  PROVE  BalanceOf(led, n, a, first - 1) = BalanceOf(led, k, a, first - 1)
<1> DEFINE x == SubSeq(led, 1, k)
           y == SubSeq(led, 1, n)
           Early(z) == {f \in Postings(z) : f.account = a /\ f.day <= first - 1}
<1>1. k \in 0 .. Len(led)
  OBVIOUS
<1>2. /\ x \in Seq(Posted) /\ y \in Seq(Posted)
      /\ DOMAIN x = 1 .. k /\ DOMAIN y = 1 .. n
      /\ \A i \in 1 .. k : x[i] = led[i]
      /\ \A i \in 1 .. n : y[i] = led[i]
  BY <1>1, PrefixOfLedger
<1>3. \A i \in 1 .. n : led[i].day \in Int
  <2>1. \A i \in 1 .. n : i \in DOMAIN led
    OBVIOUS
  <2>2. \A i \in DOMAIN led : led[i].day \in Day
    BY PostedEntry
  <2> QED
    BY <2>1, <2>2 DEF Day
<1>4. \A i \in 1 .. k : i \in 1 .. n /\ x[i] = y[i]
  BY <1>2
<1> HIDE DEF x, y
<1>5. ASSUME NEW f \in Postings(x) PROVE f \in Postings(y)
  <2>1. /\ f = [entry |-> f.entry, day |-> x[f.entry].day, account |-> f.account,
                amount |-> x[f.entry].lines[f.account]]
        /\ f.entry \in 1 .. k /\ f.account \in Account
        /\ x[f.entry].lines[f.account] # 0
    BY <1>2, PostingsOf
  <2>2. /\ f = [entry |-> f.entry, day |-> y[f.entry].day, account |-> f.account,
                amount |-> y[f.entry].lines[f.account]]
        /\ y[f.entry].lines[f.account] # 0 /\ f.entry \in 1 .. n
    BY <2>1, <1>4
  <2> QED
    BY <2>1, <2>2, <1>2, PostingsOf
<1>6. ASSUME NEW f \in Postings(y), f.day <= first - 1 PROVE f \in Postings(x)
  <2>1. /\ f = [entry |-> f.entry, day |-> y[f.entry].day, account |-> f.account,
                amount |-> y[f.entry].lines[f.account]]
        /\ f.entry \in 1 .. n /\ f.account \in Account
        /\ y[f.entry].lines[f.account] # 0
    BY <1>2, PostingsOf
  <2>2. led[f.entry].day = f.day
    BY <2>1, <1>2
  <2>3. f.entry \in 1 .. k
    BY <2>1, <2>2, <1>3, <1>6
  <2>4. /\ f = [entry |-> f.entry, day |-> x[f.entry].day, account |-> f.account,
                amount |-> x[f.entry].lines[f.account]]
        /\ x[f.entry].lines[f.account] # 0
    BY <2>1, <2>3, <1>4
  <2> QED
    BY <2>1, <2>3, <2>4, <1>2, PostingsOf
<1>7. Early(x) = Early(y)
  BY <1>5, <1>6
<1> QED
  BY <1>7 DEF BalanceOf, x, y

----------------------------------------------------------------------------
(* The inductive invariant                                                 *)

(* The tables hold no two mappings that exclude each other.                *)
TableOK(rows) ==
  /\ rows \subseteq Mapping
  /\ \A m, n \in rows : m # n => ~Excluded(m, n)

LedgerOK(led) == led \in Seq(Posted) /\ Len(led) <= Room /\ Balanced(led)

(* Postings and mappings a statement may be computed from.                 *)
Readable(table, rs) == ~Ambiguous(rs) /\ \A m \in rs : m.table = table

(* The balance a report of movements brings forward is that of a prefix.   *)
Brought(led, c, open) ==
  c.op = "movements" =>
    /\ open.at \in 0 .. Len(led)
    /\ open.amount = BalanceOf(led, open.at, c.account, FirstDay(c.scope) - 1)

(* SheetBalances, of one worker.                                           *)
SheetAnswered(rs, fs, what) ==
  /\ what.code = "statement"
  /\ (\A f \in fs : \E m \in rs : m.account = f.account) =>
       LET difference == what.results["BALANCE_DIFFERENCE"] IN
         difference.status = "READY" => difference.value = 0

(* NetIncomeIsMovement, of one worker.                                     *)
ProfitAnswered(rs, fs, what) ==
  LET results == what.results
      mapped == [c \in Categories.profit |-> MappedTo(c, fs, rs)]
      complete == \A c \in Categories.profit : mapped[c] # {}
  IN /\ complete
          => results["NET_INCOME"] = Ready(-Amount(UNION Range(mapped)))
     /\ ~complete => results["NET_INCOME"].status = "NOT_READY"
     /\ results["NET_MARGIN"].status =
          IF ~complete THEN "NOT_READY"
          ELSE IF Amount(mapped["REVENUE"]) = 0 THEN "ERROR" ELSE "READY"

(* What an account moved in the window of a scope.                         *)
MovedIn(led, n, a, s) ==
  BalanceOf(led, n, a, ClosingDay(s)) - BalanceOf(led, n, a, FirstDay(s) - 1)

(* ReportsTie, of one worker.                                              *)
Tied(led, c, open, what) ==
  /\ what.at \in 0 .. Len(led)
  /\ c.op = "balance" => what.balance = MovedIn(led, what.at, c.account, c.scope)
  /\ c.op = "trial" =>
       /\ \A a \in Account :
            MovedIn(led, what.at, a, c.scope) =
              (IF a \in DOMAIN what.rows THEN what.rows[a] ELSE 0)
       /\ SumFunction(what.rows) = 0
  /\ c.op = "movements" =>
       /\ open.at \in 0 .. what.at
       /\ (\A i \in open.at + 1 .. what.at : led[i].day >= FirstDay(c.scope)) =>
            what.closing = BalanceOf(led, what.at, c.account, ClosingDay(c.scope))

Reporting == {"balance", "trial", "movements"}

(* A worker in the middle of a request: what it has read so far.           *)
Working(st, c, wr, rs, fs, open, what, led) ==
  /\ wr \subseteq Mapping /\ rs \subseteq Mapping
  /\ st = "idle" => c = None /\ what = None /\ wr = {} /\ rs = {} /\ fs = {}
                      /\ open = NothingBrought
  /\ st # "idle" => c \in Calls
  /\ st \in {"overlap", "flush", "audit"} => c.op = "create"
  /\ st = "rules" => c.op \in {"profit", "sheet"}
  /\ st = "reconcile" => c.op = "profit" /\ Readable(c.op, rs)
  /\ st = "facts" => c.op \in {"profit", "sheet"} /\ Readable(c.op, rs)
  /\ st \in {"dates", "opening", "range"} => c.op \in Reporting
  /\ st \in {"dates", "opening"} => open = NothingBrought
  /\ st \in {"opening", "range"} => DatesAccepted(c.scope)
  /\ st = "opening" => OpeningDate(c.scope) # None
  /\ st = "range" => Brought(led, c, open)
  /\ st = "reply" =>
       /\ c.op = "sheet" /\ DatesAccepted(Asked(c)) => SheetAnswered(rs, fs, what)
       /\ c.op = "profit" /\ what.code = "statement" => ProfitAnswered(rs, fs, what)
       /\ c.op \in Reporting /\ DatesWithin(c.scope) => Tied(led, c, open, what)

At(w) ==
  Working(stage[w], call[w], written[w], rules[w], facts[w], opening[w], answer[w], ledger)

(* Every variable is a function of the workers.                            *)
PerWorker ==
  /\ stage \in [Worker -> Stage]
  /\ DOMAIN call = Worker /\ DOMAIN written = Worker /\ DOMAIN rules = Worker
  /\ DOMAIN facts = Worker /\ DOMAIN opening = Worker /\ DOMAIN answer = Worker

Inv == TableOK(committed) /\ LedgerOK(ledger) /\ PerWorker /\ \A w \in Worker : At(w)

----------------------------------------------------------------------------
(* The tables                                                              *)

(* The fields of a mapping, and both readings of its end.                  *)
LEMMA MappingInterval ==
  ASSUME NEW m \in Mapping
  PROVE  /\ m.table \in DOMAIN Categories /\ m.account \in Account
         /\ m.category \in Categories[m.table]
         /\ m.from \in Int /\ Until(m.to) \in Int /\ Upper(m) \in Int
         /\ m.table = "sheet" => Upper(m) = Until(m.to)
<1>1. /\ m.table \in DOMAIN Categories /\ m.account \in Account
      /\ m.category \in Categories[m.table] /\ m.from \in Day /\ m.to \in Day \cup {None}
  BY DEF Mapping
<1>2. LastDay \in Int /\ Day \subseteq Int
  BY ReportsAssumption DEF Day
<1>3. m.to # None => m.to \in Int
  BY <1>1, <1>2
<1>4. Until(m.to) \in Int
  BY <1>2, <1>3 DEF Until
<1>5. Upper(m) \in Int /\ (m.table = "sheet" => Upper(m) = Until(m.to))
  BY <1>3, <1>4 DEF Upper
<1> QED
  BY <1>1, <1>2, <1>4, <1>5

(* At most one mapping of an account is in force on a day.                 *)
LEMMA OneEffective ==
  ASSUME TableOK(committed), NEW day \in Day
  PROVE  Readable("sheet", ListEffectiveAt(day)) /\ ListEffectiveAt(day) \subseteq Mapping
<1>1. ListEffectiveAt(day) \subseteq Mapping /\ \A m \in ListEffectiveAt(day) : m.table = "sheet"
  BY DEF ListEffectiveAt, TableOK
<1>2. ASSUME NEW m \in ListEffectiveAt(day), NEW n \in ListEffectiveAt(day),
             m # n, m.account = n.account
      PROVE  FALSE
  <2>1. ~Excluded(m, n)
    BY <1>2 DEF ListEffectiveAt, TableOK
  <2>2. /\ m \in Mapping /\ n \in Mapping /\ m.table = "sheet" /\ n.table = "sheet"
    BY <1>1
  <2>3. /\ m.from <= day /\ Until(m.to) >= day
        /\ n.from <= day /\ Until(n.to) >= day
    BY DEF ListEffectiveAt
  <2>4. /\ Upper(m) = Until(m.to) /\ Upper(n) = Until(n.to)
        /\ m.from \in Int /\ n.from \in Int /\ Until(m.to) \in Int /\ Until(n.to) \in Int
    BY <2>2, MappingInterval
  <2>5. day \in Int
    BY DEF Day
  <2>6. n.from <= Upper(m) /\ Upper(n) >= m.from
    BY <2>3, <2>4, <2>5
  <2> QED
    BY <1>2, <2>1, <2>2, <2>6 DEF Excluded, SameAccount
<1> QED
  BY <1>1, <1>2 DEF Readable, Ambiguous

(* A mapping that excludes none of them joins the table.                   *)
LEMMA TableGrows ==
  ASSUME NEW rows, TableOK(rows), NEW m \in Mapping, \A n \in rows : ~Excluded(m, n)
  PROVE  TableOK(rows \cup {m})
<1>1. ASSUME NEW n \in rows PROVE ~Excluded(n, m)
  <2>1. n \in Mapping /\ ~Excluded(m, n)
    BY DEF TableOK
  <2>2. /\ m.from \in Int /\ n.from \in Int /\ Upper(m) \in Int /\ Upper(n) \in Int
    BY <2>1, MappingInterval
  <2> QED
    BY <2>1, <2>2 DEF Excluded, SameAccount
<1> QED
  BY <1>1 DEF TableOK

(* Without an account mapped twice, the categories share no posting.       *)
LEMMA MappedApart ==
  ASSUME NEW fs, NEW rs, ~Ambiguous(rs), NEW c, NEW d, c # d
  PROVE  MappedTo(c, fs, rs) \cap MappedTo(d, fs, rs) = {}
BY DEF MappedTo, Ambiguous

----------------------------------------------------------------------------
(* The statements                                                          *)

(* A category is ready when a posting is mapped to it, and has its balance.*)
LEMMA ResolvedInputs ==
  ASSUME NEW table \in DOMAIN Categories, NEW fs, Postable(fs), NEW rs
  PROVE  LET inputs == Resolve(table, fs, rs) IN
           /\ inputs \in [Categories[table] -> Inputs]
           /\ \A c \in Categories[table] :
                /\ inputs[c].status = "READY" <=> MappedTo(c, fs, rs) # {}
                /\ inputs[c].status = "READY" => inputs[c].value = Balance(c, MappedTo(c, fs, rs))
<1> DEFINE inputs == Resolve(table, fs, rs)
           mapped(c) == MappedTo(c, fs, rs)
<1>1. \A c \in Categories[table] :
        inputs[c] = IF mapped(c) = {} THEN Blocked("NOT_READY") ELSE Ready(Balance(c, mapped(c)))
  BY DEF Resolve
<1>2. ASSUME NEW c PROVE Balance(c, mapped(c)) \in Int
  <2>1. mapped(c) \in SUBSET fs
    BY DEF MappedTo
  <2> HIDE DEF mapped
  <2>2. Postable(mapped(c))
    BY <2>1, PartPostable
  <2>3. Amount(mapped(c)) \in Int
    BY <2>2, AmountInt
  <2> QED
    BY <2>3 DEF Balance
<1>3. inputs = [c \in Categories[table] |-> inputs[c]]
  BY DEF Resolve
<1> HIDE DEF inputs
<1>4. ASSUME NEW c \in Categories[table]
      PROVE  /\ inputs[c] \in Inputs
             /\ inputs[c].status = "READY" <=> mapped(c) # {}
             /\ inputs[c].status = "READY" => inputs[c].value = Balance(c, mapped(c))
  <2>1. CASE mapped(c) = {}
    <3>1. inputs[c] = Blocked("NOT_READY")
      BY <1>1, <2>1
    <3> QED
      BY <3>1, <2>1 DEF Inputs, Blocked
  <2>2. CASE mapped(c) # {}
    <3>1. inputs[c] = Ready(Balance(c, mapped(c)))
      BY <1>1, <2>2
    <3> HIDE DEF mapped
    <3> QED
      BY <3>1, <2>2, <1>2 DEF Inputs, Ready
  <2> QED
    BY <2>1, <2>2
<1> QED
  BY <1>3, <1>4 DEF inputs

(* Five categories.                                                        *)
LEMMA SequenceOfFive ==
  ASSUME NEW a, NEW b, NEW c, NEW d, NEW e
  PROVE  ToSet(<<a, b, c, d, e>>) = {a, b, c, d, e}
BY DEF ToSet

(* The amounts of five sets of postings that are apart.                    *)
LEMMA AmountOfFive ==
  ASSUME NEW a, NEW b, NEW c, NEW d, NEW e,
         Postable(a), Postable(b), Postable(c), Postable(d), Postable(e),
         a \cap b = {}, a \cap c = {}, a \cap d = {}, a \cap e = {},
         b \cap c = {}, b \cap d = {}, b \cap e = {},
         c \cap d = {}, c \cap e = {}, d \cap e = {}
  PROVE  Amount(a \cup b \cup c \cup d \cup e)
           = Amount(a) + Amount(b) + Amount(c) + Amount(d) + Amount(e)
<1> DEFINE ab == a \cup b
           abc == ab \cup c
           abcd == abc \cup d
<1>1. Amount(ab) = Amount(a) + Amount(b) /\ Postable(ab)
  BY AmountOfTwo, FS_Union DEF Postable
<1>2. Amount(abc) = Amount(ab) + Amount(c) /\ Postable(abc)
  <2>1. ab \cap c = {}
    OBVIOUS
  <2> HIDE DEF ab
  <2> QED
    BY <1>1, <2>1, AmountOfTwo, FS_Union DEF Postable
<1>3. Amount(abcd) = Amount(abc) + Amount(d) /\ Postable(abcd)
  <2>1. abc \cap d = {}
    OBVIOUS
  <2> HIDE DEF abc
  <2> QED
    BY <1>2, <2>1, AmountOfTwo, FS_Union DEF Postable
<1>4. Amount(abcd \cup e) = Amount(abcd) + Amount(e)
  <2>1. abcd \cap e = {}
    OBVIOUS
  <2> HIDE DEF abcd
  <2> QED
    BY <1>3, <2>1, AmountOfTwo
<1> QED
  BY <1>1, <1>2, <1>3, <1>4

(* Net income, from the categories.                                        *)
LEMMA ProfitComputed ==
  ASSUME NEW fs, Postable(fs), NEW rs, ~Ambiguous(rs)
  PROVE  ProfitAnswered(rs, fs, [code |-> "statement", results |-> Statement("profit", fs, rs)])
<1> DEFINE inputs == Resolve("profit", fs, rs)
           M(c) == MappedTo(c, fs, rs)
           results == Execute(ProfitGraph, inputs)
           mapped == [c \in Categories.profit |-> M(c)]
           complete == \A c \in Categories.profit : mapped[c] # {}
           R == M("REVENUE")
           G == M("COGS")
           X == M("OPERATING_EXPENSE")
           I == M("OTHER_INCOME")
           E == M("OTHER_EXPENSE")
<1>1. /\ "profit" \in DOMAIN Categories /\ Categories["profit"] = Categories.profit
      /\ Categories.profit = {"REVENUE", "COGS", "OPERATING_EXPENSE", "OTHER_INCOME",
                              "OTHER_EXPENSE"}
  BY SequenceOfFive DEF Categories, Profit
<1>2. Statement("profit", fs, rs) = results
  BY DEF Statement
<1>3. /\ inputs \in [Categories.profit -> Inputs]
      /\ \A c \in Categories.profit : inputs[c].status = "READY" <=> M(c) # {}
      /\ \A c \in Categories.profit :
           inputs[c].status = "READY" => inputs[c].value = Balance(c, M(c))
  <2> DEFINE table == "profit"
  <2>1. table \in DOMAIN Categories
    BY <1>1
  <2> HIDE DEF table
  <2>2. LET i == Resolve(table, fs, rs) IN
          /\ i \in [Categories[table] -> Inputs]
          /\ \A c \in Categories[table] :
               /\ i[c].status = "READY" <=> MappedTo(c, fs, rs) # {}
               /\ i[c].status = "READY" => i[c].value = Balance(c, MappedTo(c, fs, rs))
    BY <2>1, ResolvedInputs
  <2>3. inputs = Resolve(table, fs, rs)
    BY DEF table
  <2> HIDE DEF inputs
  <2> QED
    BY <2>2, <2>3, <1>1 DEF table
<1> HIDE DEF inputs
<1>4. complete <=> \A c \in Categories.profit : inputs[c].status = "READY"
  BY <1>3
<1>5. /\ complete => results["NET_INCOME"]
            = Ready(((inputs["REVENUE"].value - inputs["COGS"].value)
                       - inputs["OPERATING_EXPENSE"].value)
                    + inputs["OTHER_INCOME"].value - inputs["OTHER_EXPENSE"].value)
      /\ ~complete => results["NET_INCOME"].status = "NOT_READY"
      /\ results["NET_MARGIN"].status =
           IF ~complete THEN "NOT_READY"
           ELSE IF inputs["REVENUE"].value = 0 THEN "ERROR" ELSE "READY"
  BY <1>3, <1>4, ProfitFigures
<1>6. ASSUME NEW c PROVE Postable(M(c)) /\ Amount(M(c)) \in Int
  <2>1. M(c) \in SUBSET fs
    BY DEF MappedTo
  <2> HIDE DEF M
  <2>2. Postable(M(c))
    BY <2>1, PartPostable
  <2> QED
    BY <2>2, AmountInt
<1>7. \A c, d : c # d => M(c) \cap M(d) = {}
  BY MappedApart
<1>8. UNION Range(mapped) = R \cup G \cup X \cup I \cup E
  BY <1>1 DEF Range
<1>9. mapped["REVENUE"] = R
  BY <1>1
<1> HIDE DEF M
<1>10. Amount(R \cup G \cup X \cup I \cup E)
         = Amount(R) + Amount(G) + Amount(X) + Amount(I) + Amount(E)
  BY <1>6, <1>7, AmountOfFive
<1>11. /\ complete => inputs["REVENUE"].value = -Amount(R)
       /\ complete => inputs["COGS"].value = Amount(G)
       /\ complete => inputs["OPERATING_EXPENSE"].value = Amount(X)
       /\ complete => inputs["OTHER_INCOME"].value = -Amount(I)
       /\ complete => inputs["OTHER_EXPENSE"].value = Amount(E)
  BY <1>1, <1>3, <1>4 DEF Balance, CreditSide
<1>12. /\ Amount(R) \in Int /\ Amount(G) \in Int /\ Amount(X) \in Int /\ Amount(I) \in Int
       /\ Amount(E) \in Int
  BY <1>6
<1> HIDE DEF complete, results, mapped, R, G, X, I, E
<1>13. complete => results["NET_INCOME"] = Ready(-Amount(UNION Range(mapped)))
  <2>1. SUFFICES ASSUME complete
                 PROVE  ((inputs["REVENUE"].value - inputs["COGS"].value)
                           - inputs["OPERATING_EXPENSE"].value)
                          + inputs["OTHER_INCOME"].value - inputs["OTHER_EXPENSE"].value
                        = -Amount(UNION Range(mapped))
    BY <1>5
  <2>2. Amount(UNION Range(mapped)) = Amount(R) + Amount(G) + Amount(X) + Amount(I) + Amount(E)
    BY <1>8, <1>10
  <2>3. /\ inputs["REVENUE"].value = -Amount(R) /\ inputs["COGS"].value = Amount(G)
        /\ inputs["OPERATING_EXPENSE"].value = Amount(X)
        /\ inputs["OTHER_INCOME"].value = -Amount(I) /\ inputs["OTHER_EXPENSE"].value = Amount(E)
    BY <2>1, <1>11
  <2> QED
    BY <2>2, <2>3, <1>12
<1>14. results["NET_MARGIN"].status =
         IF ~complete THEN "NOT_READY"
         ELSE IF Amount(mapped["REVENUE"]) = 0 THEN "ERROR" ELSE "READY"
  BY <1>5, <1>9, <1>11, <1>12
<1> QED
  BY <1>2, <1>5, <1>13, <1>14 DEF ProfitAnswered, complete, mapped, M

(* The balance sheet, of days of a ledger of balanced entries.             *)
LEMMA SheetComputed ==
  ASSUME NEW led \in Seq(Posted), Balanced(led), NEW s,
         NEW rs \in SUBSET Mapping, Readable("sheet", rs)
  PROVE  SheetAnswered(rs, Facts(led, s),
           [code |-> "statement", results |-> Statement("sheet", Facts(led, s), rs)])
<1> DEFINE fs == Facts(led, s)
           D == {d \in Day : InScope(d, s)}
           inputs == Resolve("sheet", fs, rs)
           M(c) == MappedTo(c, fs, rs)
           results == Execute(SheetGraph, inputs)
           difference == results["BALANCE_DIFFERENCE"]
           A == M("ASSET")
           L == M("LIABILITY")
           E == M("EQUITY")
<1>1. /\ "sheet" \in DOMAIN Categories
      /\ Categories.sheet = {"ASSET", "LIABILITY", "EQUITY"}
  BY DEF Categories, Sheet, ToSet
<1>2. Statement("sheet", fs, rs) = results
  BY DEF Statement
<1>3. Postable(fs) /\ Amount(fs) = 0
  <2>1. fs = {f \in Postings(led) : f.day \in D}
    BY PostingsOf DEF Facts
  <2>2. fs \in SUBSET Postings(led)
    BY DEF Facts
  <2>3. Amount({f \in Postings(led) : f.day \in D}) = 0
    BY DaysBalance
  <2> HIDE DEF fs, D
  <2> QED
    BY <2>1, <2>2, <2>3, PostingsPostable, PartPostable
<1> HIDE DEF fs
<1>4. /\ inputs \in [Categories.sheet -> Inputs]
      /\ \A c \in Categories.sheet :
           inputs[c].status = "READY" => inputs[c].value = Balance(c, M(c))
  <2>1. /\ inputs \in [Categories["sheet"] -> Inputs]
        /\ \A c \in Categories["sheet"] :
             inputs[c].status = "READY" => inputs[c].value = Balance(c, MappedTo(c, fs, rs))
    BY <1>1, <1>3, ResolvedInputs
  <2> HIDE DEF inputs
  <2> QED
    BY <2>1, <1>1
<1> HIDE DEF inputs
<1> SUFFICES ASSUME \A f \in fs : \E m \in rs : m.account = f.account,
                    difference.status = "READY"
             PROVE  difference.value = 0
  BY <1>2 DEF SheetAnswered, fs
<1>5. /\ \A c \in Categories.sheet : inputs[c].status = "READY"
      /\ difference.value = inputs["ASSET"].value - inputs["LIABILITY"].value
                              - inputs["EQUITY"].value
  BY <1>4, SheetFigures
<1>6. ASSUME NEW c PROVE Postable(M(c)) /\ Amount(M(c)) \in Int
  <2>1. M(c) \in SUBSET fs
    BY DEF MappedTo
  <2> HIDE DEF M
  <2>2. Postable(M(c))
    BY <2>1, <1>3, PartPostable
  <2> QED
    BY <2>2, AmountInt
<1>7. A \cap L = {} /\ A \cap E = {} /\ L \cap E = {}
  BY MappedApart DEF Readable
<1>8. \A m \in rs : m.category \in {"ASSET", "LIABILITY", "EQUITY"}
  <2>1. \A m \in rs : m.table = "sheet" /\ m.category \in Categories[m.table]
    BY MappingInterval DEF Readable
  <2> QED
    BY <2>1, <1>1
<1>9. fs = (A \cup L) \cup E
  BY <1>8 DEF MappedTo
<1> HIDE DEF M, difference, results
<1>10. Amount(fs) = Amount(A) + Amount(L) + Amount(E)
  <2>1. Postable(A \cup L)
    BY <1>6, FS_Union DEF Postable
  <2>2. Amount(A \cup L) = Amount(A) + Amount(L)
    BY <1>6, <1>7, AmountOfTwo
  <2> DEFINE AL == A \cup L
  <2>3. AL \cap E = {}
    BY <1>7
  <2> HIDE DEF AL
  <2>4. Amount(AL \cup E) = Amount(AL) + Amount(E)
    BY <2>1, <2>3, <1>6, AmountOfTwo DEF AL
  <2> QED
    BY <2>2, <2>4, <1>9 DEF AL
<1>11. /\ inputs["ASSET"].value = Amount(A) /\ inputs["LIABILITY"].value = -Amount(L)
       /\ inputs["EQUITY"].value = -Amount(E)
  BY <1>1, <1>4, <1>5 DEF Balance, CreditSide
<1>12. Amount(A) \in Int /\ Amount(L) \in Int /\ Amount(E) \in Int
  BY <1>6
<1> QED
  BY <1>3, <1>5, <1>10, <1>11, <1>12

----------------------------------------------------------------------------
(* Requests and ledgers                                                    *)

(* What a request asks for, by its operation.                              *)
LEMMA RequestFields ==
  ASSUME NEW c \in Calls
  PROVE  /\ c.op \in {"create", "profit", "sheet"} \cup Reporting
         /\ c.op = "create" => c.row \in Mapping
         /\ c.op \in {"profit", "sheet"} => c.period \in FiscalPeriod \cup {None}
         /\ c.op = "profit" => c.start \in Day /\ c.end \in Day /\ c.start <= c.end
         /\ c.op = "sheet" => c.end \in Day
         /\ c.op \in Reporting => c.account \in Account /\ c.scope \in Scope
<1>1. c \in Requests
  BY StatementsAssumption
<1>2. \/ c \in [op : {"create"}, row : Mapping]
      \/ /\ c \in [op : {"profit"}, period : FiscalPeriod \cup {None}, start : Day, end : Day]
         /\ c.start <= c.end
      \/ c \in [op : {"sheet"}, period : FiscalPeriod \cup {None}, end : Day]
      \/ c \in [op : {"balance", "trial", "movements"}, account : Account, scope : Scope]
  BY <1>1 DEF Requests
<1> HIDE DEF Mapping, Day, Scope
<1>3. CASE c \in [op : {"create"}, row : Mapping]
  BY <1>3 DEF Reporting
<1>4. CASE /\ c \in [op : {"profit"}, period : FiscalPeriod \cup {None}, start : Day, end : Day]
           /\ c.start <= c.end
  BY <1>4 DEF Reporting
<1>5. CASE c \in [op : {"sheet"}, period : FiscalPeriod \cup {None}, end : Day]
  BY <1>5 DEF Reporting
<1>6. CASE c \in [op : {"balance", "trial", "movements"}, account : Account, scope : Scope]
  BY <1>6 DEF Reporting
<1> QED
  BY <1>2, <1>3, <1>4, <1>5, <1>6

(* Another balanced entry.                                                 *)
LEMMA LedgerGrows ==
  ASSUME NEW led, LedgerOK(led), Len(led) < Room, NEW e \in Posted, SumFunction(e.lines) = 0
  PROVE  LedgerOK(Append(led, e)) /\ Carries(led, Append(led, e))
<1> DEFINE more == Append(led, e)
<1>1. led \in Seq(Posted) /\ Balanced(led)
  BY DEF LedgerOK
<1>2. more \in Seq(Posted) /\ Len(more) = Len(led) + 1
  BY <1>1
<1>3. \A i \in DOMAIN led : more[i] = led[i]
  BY <1>1
<1>4. more[Len(led) + 1] = e
  BY <1>1
<1>5. \A i \in DOMAIN more : i \in DOMAIN led \/ i = Len(led) + 1
  BY <1>1, <1>2
<1>6. Len(led) \in Nat /\ Room \in Nat
  BY <1>1, StatementsAssumption
<1> HIDE DEF more
<1>7. Balanced(more)
  <2> SUFFICES ASSUME NEW i \in DOMAIN more PROVE SumFunction(more[i].lines) = 0
    BY DEF Balanced
  <2>1. CASE i \in DOMAIN led
    BY <2>1, <1>1, <1>3 DEF Balanced
  <2>2. CASE i = Len(led) + 1
    BY <2>2, <1>4
  <2> QED
    BY <2>1, <2>2, <1>5
<1>8. LedgerOK(more)
  BY <1>2, <1>6, <1>7 DEF LedgerOK
<1>9. Carries(led, more)
  BY <1>2, <1>3, <1>6 DEF Carries
<1> QED
  BY <1>8, <1>9 DEF more

(* An entry marked as reversed.                                            *)
LEMMA LedgerMarked ==
  ASSUME NEW led, LedgerOK(led), NEW i \in DOMAIN led
  PROVE  LET marked == [led EXCEPT ![i].status = "REVERSED"] IN
           LedgerOK(marked) /\ Carries(led, marked) /\ Len(marked) = Len(led)
<1> DEFINE marked == [led EXCEPT ![i].status = "REVERSED"]
           e == [led[i] EXCEPT !.status = "REVERSED"]
<1>1. led \in Seq(Posted) /\ Balanced(led) /\ Len(led) <= Room
  BY DEF LedgerOK
<1>2. led[i] \in Posted
  BY <1>1
<1>3. e \in Posted /\ e.day = led[i].day /\ e.lines = led[i].lines
  BY <1>2 DEF Posted
<1>4. marked = [led EXCEPT ![i] = e]
  OBVIOUS
<1> HIDE DEF e
<1>5. marked \in Seq(Posted) /\ Len(marked) = Len(led) /\ DOMAIN marked = DOMAIN led
  BY <1>1, <1>3, <1>4
<1>6. \A j \in DOMAIN led : marked[j].day = led[j].day /\ marked[j].lines = led[j].lines
  BY <1>1, <1>3, <1>4
<1> HIDE DEF marked
<1>7. Balanced(marked)
  BY <1>1, <1>5, <1>6 DEF Balanced
<1>8. LedgerOK(marked)
  BY <1>1, <1>5, <1>7 DEF LedgerOK
<1>9. Carries(led, marked)
  BY <1>1, <1>5, <1>6 DEF Carries
<1> QED
  BY <1>5, <1>8, <1>9 DEF marked

(* A ledger that goes on twice goes on.                                    *)
LEMMA CarriesOn ==
  ASSUME NEW a \in Seq(Posted), NEW b \in Seq(Posted), NEW c \in Seq(Posted),
         Carries(a, b), Carries(b, c)
  PROVE  Carries(a, c)
<1>1. Len(a) \in Nat /\ Len(b) \in Nat /\ Len(c) \in Nat
  OBVIOUS
<1>2. Len(a) <= Len(b) /\ Len(b) <= Len(c)
  BY DEF Carries
<1>3. \A i \in DOMAIN a : i \in DOMAIN b
  BY <1>1, <1>2
<1> QED
  BY <1>1, <1>2, <1>3 DEF Carries

(* What a worker has read, and answered, stays true of a ledger that goes  *)
(* on.                                                                     *)
LEMMA BroughtCarried ==
  ASSUME NEW led \in Seq(Posted), NEW more \in Seq(Posted), Carries(led, more),
         NEW c, NEW open, Brought(led, c, open)
  PROVE  Brought(more, c, open)
<1> SUFFICES ASSUME c.op = "movements"
             PROVE  /\ open.at \in 0 .. Len(more)
                    /\ open.amount = BalanceOf(more, open.at, c.account, FirstDay(c.scope) - 1)
  BY DEF Brought
<1>1. open.at \in 0 .. Len(led)
  BY DEF Brought
<1>2. open.at \in 0 .. Len(more)
  BY <1>1 DEF Carries
<1>3. BalanceOf(more, open.at, c.account, FirstDay(c.scope) - 1)
        = BalanceOf(led, open.at, c.account, FirstDay(c.scope) - 1)
  BY <1>1, BalanceCarried
<1> QED
  BY <1>2, <1>3 DEF Brought

(* So does a report that ties.                                             *)
LEMMA TiedCarried ==
  ASSUME NEW led \in Seq(Posted), NEW more \in Seq(Posted), Carries(led, more),
         NEW c, NEW open, NEW what, Tied(led, c, open, what)
  PROVE  Tied(more, c, open, what)
<1>1. what.at \in 0 .. Len(led)
  BY DEF Tied
<1>2. what.at \in 0 .. Len(more)
  BY <1>1 DEF Carries
<1>3. \A a, day : BalanceOf(more, what.at, a, day) = BalanceOf(led, what.at, a, day)
  BY <1>1, BalanceCarried
<1>4. \A a, s : MovedIn(more, what.at, a, s) = MovedIn(led, what.at, a, s)
  BY <1>3 DEF MovedIn
<1>5. \A i \in 1 .. what.at : more[i].day = led[i].day
  <2>1. \A i \in 1 .. what.at : i \in DOMAIN led
    BY <1>1
  <2> QED
    BY <2>1 DEF Carries
<1>6. open.at \in 0 .. what.at => open.at + 1 .. what.at \subseteq 1 .. what.at
  BY <1>1
<1>7. c.op = "movements" =>
        /\ open.at \in 0 .. what.at
        /\ (\A i \in open.at + 1 .. what.at : more[i].day >= FirstDay(c.scope)) =>
             what.closing = BalanceOf(more, what.at, c.account, ClosingDay(c.scope))
  <2> SUFFICES ASSUME c.op = "movements"
               PROVE  /\ open.at \in 0 .. what.at
                      /\ (\A i \in open.at + 1 .. what.at : more[i].day >= FirstDay(c.scope)) =>
                           what.closing = BalanceOf(more, what.at, c.account, ClosingDay(c.scope))
    OBVIOUS
  <2>1. /\ open.at \in 0 .. what.at
        /\ (\A i \in open.at + 1 .. what.at : led[i].day >= FirstDay(c.scope)) =>
             what.closing = BalanceOf(led, what.at, c.account, ClosingDay(c.scope))
    BY DEF Tied
  <2>2. \A i \in open.at + 1 .. what.at : more[i].day = led[i].day
    BY <2>1, <1>5, <1>6
  <2> QED
    BY <2>1, <2>2, <1>3
<1> QED
  BY <1>2, <1>4, <1>7 DEF Tied

(* And all that a worker knows.                                            *)
LEMMA WorkingCarried ==
  ASSUME NEW led \in Seq(Posted), NEW more \in Seq(Posted), Carries(led, more),
         NEW st, NEW c, NEW wr, NEW rs, NEW fs, NEW open, NEW what,
         Working(st, c, wr, rs, fs, open, what, led)
  PROVE  Working(st, c, wr, rs, fs, open, what, more)
<1>1. Brought(led, c, open) => Brought(more, c, open)
  BY BroughtCarried
<1>2. Tied(led, c, open, what) => Tied(more, c, open, what)
  BY TiedCarried
<1> QED
  BY <1>1, <1>2 DEF Working

----------------------------------------------------------------------------
(* One worker steps                                                        *)

Sets(new, old, w, value) ==
  /\ DOMAIN new = Worker
  /\ new[w] = value
  /\ \A v \in Worker \ {w} : new[v] = old[v]

(* A step of w sets its own, and leaves what the others have.              *)
LEMMA ExceptSets ==
  ASSUME NEW old, DOMAIN old = Worker, NEW w \in Worker, NEW value
  PROVE  Sets([old EXCEPT ![w] = value], old, w, value) /\ Sets(old, old, w, old[w])
BY DEF Sets

Becomes(w, st, c, wr, rs, fs, open, what) ==
  /\ stage' = [stage EXCEPT ![w] = st]
  /\ Sets(call', call, w, c) /\ Sets(written', written, w, wr)
  /\ Sets(rules', rules, w, rs) /\ Sets(facts', facts, w, fs)
  /\ Sets(opening', opening, w, open) /\ Sets(answer', answer, w, what)
  /\ UNCHANGED <<committed, ledger>>

(* It is enough to look at the worker that steps.                          *)
LEMMA WorkerSteps ==
  ASSUME Inv, NEW w \in Worker, NEW st \in Stage,
         NEW c, NEW wr, NEW rs, NEW fs, NEW open, NEW what,
         Becomes(w, st, c, wr, rs, fs, open, what),
         Working(st, c, wr, rs, fs, open, what, ledger)
  PROVE  Inv'
<1>1. committed' = committed /\ ledger' = ledger
  BY DEF Becomes
<1>2. TableOK(committed)' /\ LedgerOK(ledger)'
  BY <1>1 DEF Inv
<1>3. stage \in [Worker -> Stage]
  BY DEF Inv, PerWorker
<1>4. PerWorker'
  BY <1>3 DEF Becomes, Sets, PerWorker
<1>5. /\ stage'[w] = st /\ call'[w] = c /\ written'[w] = wr /\ rules'[w] = rs /\ facts'[w] = fs
      /\ opening'[w] = open /\ answer'[w] = what
  BY <1>3 DEF Becomes, Sets
<1>6. At(w)'
  BY <1>1, <1>5 DEF At
<1>7. ASSUME NEW v \in Worker \ {w} PROVE At(v)'
  <2>1. /\ stage'[v] = stage[v] /\ call'[v] = call[v] /\ written'[v] = written[v]
        /\ rules'[v] = rules[v] /\ facts'[v] = facts[v] /\ opening'[v] = opening[v]
        /\ answer'[v] = answer[v]
    BY <1>3 DEF Becomes, Sets
  <2>2. At(v)
    BY DEF Inv
  <2> QED
    BY <1>1, <2>1, <2>2 DEF At
<1>8. \A v \in Worker : At(v)'
  BY <1>6, <1>7
<1> QED
  BY <1>2, <1>4, <1>8 DEF Inv

(* A reply that is not a statement or a report.                            *)
LEMMA ReplyCode ==
  ASSUME NEW c \in Calls, NEW wr \in SUBSET Mapping, NEW rs \in SUBSET Mapping, NEW fs, NEW open,
         NEW what, NEW led,
         \/ c.op = "create"
         \/ c.op = "profit" /\ what.code # "statement"
         \/ c.op = "sheet" /\ ~DatesAccepted(Asked(c))
         \/ c.op \in Reporting /\ ~DatesAccepted(c.scope)
  PROVE  Working("reply", c, wr, rs, fs, open, what, led)
<1>1. c.op \in Reporting => c.scope \in Scope
  BY RequestFields
<1>2. c.op \in Reporting /\ DatesWithin(c.scope) => DatesAccepted(c.scope)
  BY <1>1, ScopeIsWindow
<1> QED
  BY <1>2 DEF Working, Reporting

(* A request begins with nothing left of the one before.                   *)
LEMMA BeginKeeps ==
  ASSUME Inv, NEW w \in Worker, Begin(w)
  PROVE  Inv'
<1>1. PICK c \in Calls :
        /\ call' = [call EXCEPT ![w] = c]
        /\ Go(w, CASE c.op = "create" -> "overlap"
                   [] c.op \in {"profit", "sheet"} -> "rules"
                   [] c.op \in {"balance", "trial", "movements"} -> "dates")
  BY DEF Begin
<1> DEFINE st == CASE c.op = "create" -> "overlap"
                   [] c.op \in {"profit", "sheet"} -> "rules"
                   [] c.op \in {"balance", "trial", "movements"} -> "dates"
<1>2. \/ c.op = "create" /\ st = "overlap"
      \/ c.op \in {"profit", "sheet"} /\ st = "rules"
      \/ c.op \in Reporting /\ st = "dates"
  BY RequestFields DEF Reporting
<1> HIDE DEF st
<1>3. At(w) /\ PerWorker /\ stage[w] = "idle"
  BY DEF Inv, Begin
<1>4. /\ written[w] = {} /\ rules[w] = {} /\ opening[w] = NothingBrought
  BY <1>3 DEF At, Working
<1>5. Working(st, c, written[w], rules[w], facts[w], opening[w], answer[w], ledger)
  BY <1>2, <1>4 DEF Working
<1>6. Becomes(w, st, c, written[w], rules[w], facts[w], opening[w], answer[w])
  BY <1>1, <1>3, ExceptSets DEF Becomes, Begin, Go, st, PerWorker
<1>7. st \in Stage
  BY <1>2 DEF Stage
<1> QED
  BY <1>5, <1>6, <1>7, WorkerSteps

(* Creations: what they check, write and answer.                           *)
LEMMA EnsureNoOverlapKeeps ==
  ASSUME Inv, NEW w \in Worker, EnsureNoOverlap(w)
  PROVE  Inv'
<1>1. At(w) /\ PerWorker /\ stage[w] = "overlap"
  BY DEF Inv, EnsureNoOverlap
<1>2. call[w] \in Calls /\ call[w].op = "create" /\ written[w] \subseteq Mapping
        /\ rules[w] \subseteq Mapping
  BY <1>1 DEF At, Working
<1>3. CASE \E m \in committed : Overlap(call[w].row, m)
  <2> DEFINE what == Code("conflict")
  <2>1. Reply(w, what) /\ UNCHANGED <<committed, ledger, call, written, rules, facts, opening>>
    BY <1>3 DEF EnsureNoOverlap
  <2> HIDE DEF what
  <2>2. Becomes(w, "reply", call[w], written[w], rules[w], facts[w], opening[w], what)
    BY <1>1, <2>1, ExceptSets DEF Becomes, Reply, Go, PerWorker
  <2>3. Working("reply", call[w], written[w], rules[w], facts[w], opening[w], what, ledger)
    BY <1>2, ReplyCode
  <2> QED
    BY <2>2, <2>3, WorkerSteps DEF Stage
<1>4. CASE ~\E m \in committed : Overlap(call[w].row, m)
  <2>1. /\ Go(w, "flush")
        /\ UNCHANGED <<committed, ledger, call, written, rules, facts, opening, answer>>
    BY <1>4 DEF EnsureNoOverlap
  <2>2. Becomes(w, "flush", call[w], written[w], rules[w], facts[w], opening[w], answer[w])
    BY <1>1, <2>1, ExceptSets DEF Becomes, Go, PerWorker
  <2>3. Working("flush", call[w], written[w], rules[w], facts[w], opening[w], answer[w], ledger)
    BY <1>2 DEF Working
  <2> QED
    BY <2>2, <2>3, WorkerSteps DEF Stage
<1> QED
  BY <1>3, <1>4

(* The insert, refused or not.                                             *)
LEMMA FlushKeeps ==
  ASSUME Inv, NEW w \in Worker, Flush(w)
  PROVE  Inv'
<1> DEFINE row == call[w].row
           refusal == Code(IF row.table = "sheet" THEN "conflict" ELSE "error")
           created == Code("created")
<1>1. At(w) /\ PerWorker /\ stage[w] = "flush"
  BY DEF Inv, Flush
<1>2. call[w] \in Calls /\ call[w].op = "create" /\ written[w] \subseteq Mapping
        /\ rules[w] \subseteq Mapping
  BY <1>1 DEF At, Working
<1>3. {row} \subseteq Mapping
  BY <1>2, RequestFields
<1>4. CASE \E m \in committed : Excluded(row, m)
  <2>1. /\ Reply(w, refusal)
        /\ UNCHANGED <<committed, ledger, call, written, rules, facts, opening>>
    BY <1>4 DEF Flush
  <2> HIDE DEF refusal
  <2>2. Becomes(w, "reply", call[w], written[w], rules[w], facts[w], opening[w], refusal)
    BY <1>1, <2>1, ExceptSets DEF Becomes, Reply, Go, PerWorker
  <2>3. Working("reply", call[w], written[w], rules[w], facts[w], opening[w], refusal, ledger)
    BY <1>2, ReplyCode
  <2> QED
    BY <2>2, <2>3, WorkerSteps DEF Stage
<1>5. CASE (~\E m \in committed : Excluded(row, m)) /\ row.table = "sheet"
  <2>1. /\ written' = [written EXCEPT ![w] = {row}] /\ Go(w, "audit")
        /\ UNCHANGED <<committed, ledger, call, rules, facts, opening, answer>>
    BY <1>5 DEF Flush
  <2> HIDE DEF row
  <2>2. Becomes(w, "audit", call[w], {row}, rules[w], facts[w], opening[w], answer[w])
    BY <1>1, <2>1, ExceptSets DEF Becomes, Go, PerWorker
  <2>3. Working("audit", call[w], {row}, rules[w], facts[w], opening[w], answer[w], ledger)
    BY <1>2, <1>3 DEF Working
  <2> QED
    BY <2>2, <2>3, WorkerSteps DEF Stage
<1>6. CASE (~\E m \in committed : Excluded(row, m)) /\ row.table # "sheet"
  <2>1. /\ written' = [written EXCEPT ![w] = {row}] /\ Reply(w, created)
        /\ UNCHANGED <<committed, ledger, call, rules, facts, opening>>
    BY <1>6 DEF Flush
  <2> HIDE DEF row, created
  <2>2. Becomes(w, "reply", call[w], {row}, rules[w], facts[w], opening[w], created)
    BY <1>1, <2>1, ExceptSets DEF Becomes, Reply, Go, PerWorker
  <2>3. Working("reply", call[w], {row}, rules[w], facts[w], opening[w], created, ledger)
    BY <1>2, <1>3, ReplyCode
  <2> QED
    BY <2>2, <2>3, WorkerSteps DEF Stage
<1> QED
  BY <1>4, <1>5, <1>6

(* The audit record.                                                       *)
LEMMA AppendAuditKeeps ==
  ASSUME Inv, NEW w \in Worker, AppendAudit(w)
  PROVE  Inv'
<1> DEFINE what == Code("created")
<1>1. At(w) /\ PerWorker /\ stage[w] = "audit"
  BY DEF Inv, AppendAudit
<1>2. call[w] \in Calls /\ call[w].op = "create" /\ written[w] \subseteq Mapping
        /\ rules[w] \subseteq Mapping
  BY <1>1 DEF At, Working
<1>3. Reply(w, what) /\ UNCHANGED <<committed, ledger, call, written, rules, facts, opening>>
  BY DEF AppendAudit
<1> HIDE DEF what
<1>4. Becomes(w, "reply", call[w], written[w], rules[w], facts[w], opening[w], what)
  BY <1>1, <1>3, ExceptSets DEF Becomes, Reply, Go, PerWorker
<1>5. Working("reply", call[w], written[w], rules[w], facts[w], opening[w], what, ledger)
  BY <1>2, ReplyCode
<1> QED
  BY <1>4, <1>5, WorkerSteps DEF Stage

(* The one that is given up.                                               *)
LEMMA DeadlockVictimKeeps ==
  ASSUME Inv, NEW w \in Worker, DeadlockVictim(w)
  PROVE  Inv'
<1> DEFINE what == Code("error")
<1>1. At(w) /\ PerWorker /\ stage[w] = "audit"
  BY DEF Inv, DeadlockVictim
<1>2. call[w] \in Calls /\ call[w].op = "create" /\ rules[w] \subseteq Mapping
  BY <1>1 DEF At, Working
<1>3. /\ Reply(w, what) /\ written' = [written EXCEPT ![w] = {}]
      /\ UNCHANGED <<committed, ledger, call, rules, facts, opening>>
  BY DEF DeadlockVictim
<1> HIDE DEF what
<1>4. Becomes(w, "reply", call[w], {}, rules[w], facts[w], opening[w], what)
  BY <1>1, <1>3, ExceptSets DEF Becomes, Reply, Go, PerWorker
<1>5. Working("reply", call[w], {}, rules[w], facts[w], opening[w], what, ledger)
  BY <1>2, ReplyCode
<1> QED
  BY <1>4, <1>5, WorkerSteps DEF Stage

(* Mappings of a day of the balance sheet are never ambiguous.             *)
LEMMA ReadRulesKeeps ==
  ASSUME Inv, NEW w \in Worker, ReadRules(w)
  PROVE  Inv'
<1> DEFINE c == call[w]
           ms == IF c.op = "profit" THEN ListForPeriod(c.start, c.end) ELSE ListEffectiveAt(c.end)
           what == Code("ambiguous")
           st == IF c.op = "profit" THEN "reconcile" ELSE "facts"
<1>1. At(w) /\ PerWorker /\ stage[w] = "rules" /\ TableOK(committed)
  BY DEF Inv, ReadRules
<1>2. c \in Calls /\ c.op \in {"profit", "sheet"} /\ written[w] \subseteq Mapping
  BY <1>1 DEF At, Working
<1>3. /\ ms \subseteq Mapping /\ \A m \in ms : m.table = c.op
      /\ c.op = "sheet" => ~Ambiguous(ms)
  <2>1. CASE c.op = "profit"
    BY <1>1, <2>1 DEF ListForPeriod, TableOK
  <2>2. CASE c.op = "sheet"
    <3>1. c.end \in Day /\ ms = ListEffectiveAt(c.end)
      BY <1>2, <2>2, RequestFields
    <3> QED
      BY <1>1, <2>2, <3>1, OneEffective DEF Readable
  <2> QED
    BY <1>2, <2>1, <2>2
<1>4. /\ rules' = [rules EXCEPT ![w] = ms]
      /\ IF Ambiguous(ms) THEN Reply(w, what) ELSE Go(w, st) /\ UNCHANGED answer
      /\ UNCHANGED <<committed, ledger, call, written, facts, opening>>
  BY DEF ReadRules
<1> HIDE DEF ms, what
<1>5. CASE Ambiguous(ms)
  <2>0. /\ rules' = [rules EXCEPT ![w] = ms] /\ Reply(w, what)
        /\ UNCHANGED <<committed, ledger, call, written, facts, opening>>
    BY <1>4, <1>5
  <2>1. Becomes(w, "reply", call[w], written[w], ms, facts[w], opening[w], what)
    BY <1>1, <2>0, ExceptSets DEF Becomes, Reply, Go, PerWorker
  <2>2. c.op = "profit" /\ what.code # "statement"
    BY <1>2, <1>3, <1>5 DEF what, Code
  <2>3. Working("reply", call[w], written[w], ms, facts[w], opening[w], what, ledger)
    BY <1>2, <1>3, <2>2, ReplyCode
  <2> QED
    BY <2>1, <2>3, WorkerSteps DEF Stage
<1>6. CASE ~Ambiguous(ms)
  <2>1. (c.op = "profit" /\ st = "reconcile") \/ (c.op = "sheet" /\ st = "facts")
    BY <1>2
  <2> HIDE DEF st
  <2>2. Becomes(w, st, call[w], written[w], ms, facts[w], opening[w], answer[w])
    BY <1>1, <1>4, <1>6, ExceptSets DEF Becomes, Go, PerWorker
  <2>3. Readable(c.op, ms)
    BY <1>3, <1>6 DEF Readable
  <2>4. Working(st, call[w], written[w], ms, facts[w], opening[w], answer[w], ledger)
    BY <1>2, <1>3, <2>1, <2>3 DEF Working
  <2>5. st \in Stage
    BY <2>1 DEF Stage
  <2> QED
    BY <2>2, <2>4, <2>5, WorkerSteps
<1> QED
  BY <1>5, <1>6

(* Reconciliation reads the mappings no more.                              *)
LEMMA ReconcileKeeps ==
  ASSUME Inv, NEW w \in Worker, Reconcile(w)
  PROVE  Inv'
<1> DEFINE passes == DatesAccepted(Asked(call[w])) /\ Reconciled(ledger, Window(call[w]))
           what == Code(IF DatesAccepted(Asked(call[w])) THEN "unreconciled" ELSE "invalid")
<1>1. At(w) /\ PerWorker /\ stage[w] = "reconcile"
  BY DEF Inv, Reconcile
<1>2. /\ call[w] \in Calls /\ call[w].op = "profit" /\ Readable(call[w].op, rules[w])
      /\ written[w] \subseteq Mapping /\ rules[w] \subseteq Mapping
  BY <1>1 DEF At, Working
<1>3. CASE passes
  <2>1. /\ Go(w, "facts")
        /\ UNCHANGED <<committed, ledger, call, written, rules, facts, opening, answer>>
    BY <1>3 DEF Reconcile
  <2>2. Becomes(w, "facts", call[w], written[w], rules[w], facts[w], opening[w], answer[w])
    BY <1>1, <2>1, ExceptSets DEF Becomes, Go, PerWorker
  <2>3. Working("facts", call[w], written[w], rules[w], facts[w], opening[w], answer[w], ledger)
    BY <1>2 DEF Working
  <2> QED
    BY <2>2, <2>3, WorkerSteps DEF Stage
<1>4. CASE ~passes
  <2>1. Reply(w, what) /\ UNCHANGED <<committed, ledger, call, written, rules, facts, opening>>
    BY <1>4 DEF Reconcile
  <2>2. what.code # "statement"
    BY DEF Code
  <2> HIDE DEF what
  <2>3. Becomes(w, "reply", call[w], written[w], rules[w], facts[w], opening[w], what)
    BY <1>1, <2>1, ExceptSets DEF Becomes, Reply, Go, PerWorker
  <2>4. Working("reply", call[w], written[w], rules[w], facts[w], opening[w], what, ledger)
    BY <1>2, <2>2, ReplyCode
  <2> QED
    BY <2>3, <2>4, WorkerSteps DEF Stage
<1> QED
  BY <1>3, <1>4

(* The statement is computed from what was read.                           *)
LEMMA ReadFactsKeeps ==
  ASSUME Inv, NEW w \in Worker, ReadFacts(w)
  PROVE  Inv'
<1> DEFINE c == call[w]
           s == Window(c)
           rs == rules[w]
           fs == Facts(ledger, s)
           what == [code |-> "statement", results |-> Statement(c.op, fs, rs)]
<1>1. At(w) /\ PerWorker /\ stage[w] = "facts" /\ LedgerOK(ledger)
  BY DEF Inv, ReadFacts
<1>2. /\ c \in Calls /\ c.op \in {"profit", "sheet"} /\ Readable(c.op, rs)
      /\ written[w] \subseteq Mapping /\ rs \subseteq Mapping
  BY <1>1 DEF At, Working
<1>3. ledger \in Seq(Posted) /\ Balanced(ledger)
  BY <1>1 DEF LedgerOK
<1>4. /\ IF DatesAccepted(Asked(c)) THEN facts' = [facts EXCEPT ![w] = fs] /\ Reply(w, what)
         ELSE Reply(w, Code("invalid")) /\ UNCHANGED facts
      /\ UNCHANGED <<committed, ledger, call, written, rules, opening>>
  BY DEF ReadFacts
<1>5. c.op = "sheet" => SheetAnswered(rs, fs, what)
  <2> SUFFICES ASSUME c.op = "sheet" PROVE SheetAnswered(rs, fs, what)
    OBVIOUS
  <2>1. Readable("sheet", rs)
    BY <1>2
  <2> HIDE DEF s, rs
  <2>2. SheetAnswered(rs, fs, [code |-> "statement", results |-> Statement("sheet", fs, rs)])
    BY <1>2, <1>3, <2>1, SheetComputed
  <2> QED
    BY <2>2
<1>6. c.op = "profit" => ProfitAnswered(rs, fs, what)
  <2> SUFFICES ASSUME c.op = "profit" PROVE ProfitAnswered(rs, fs, what)
    OBVIOUS
  <2>1. ~Ambiguous(rs)
    BY <1>2 DEF Readable
  <2>2. fs \in SUBSET Postings(ledger)
    BY DEF Facts
  <2> HIDE DEF s, rs, fs
  <2>3. Postable(fs)
    BY <1>3, <2>2, PostingsPostable, PartPostable
  <2>4. ProfitAnswered(rs, fs, [code |-> "statement", results |-> Statement("profit", fs, rs)])
    BY <2>1, <2>3, ProfitComputed
  <2> QED
    BY <2>4
<1> HIDE DEF fs, what
<1>7. CASE DatesAccepted(Asked(c))
  <2>1. Working("reply", c, written[w], rs, fs, opening[w], what, ledger)
    BY <1>2, <1>5, <1>6 DEF Working, Reporting
  <2>2. /\ facts' = [facts EXCEPT ![w] = fs] /\ Reply(w, what)
        /\ UNCHANGED <<committed, ledger, call, written, rules, opening>>
    BY <1>4, <1>7
  <2>3. Becomes(w, "reply", c, written[w], rs, fs, opening[w], what)
    BY <1>1, <2>2, ExceptSets DEF Becomes, Reply, Go, PerWorker
  <2> QED
    BY <2>1, <2>3, WorkerSteps DEF Stage
<1>8. CASE ~DatesAccepted(Asked(c))
  <2> DEFINE refusal == Code("invalid")
  <2>1. refusal.code # "statement"
    BY DEF Code
  <2> HIDE DEF refusal
  <2>2. Working("reply", c, written[w], rs, facts[w], opening[w], refusal, ledger)
    BY <1>2, <1>8, <2>1, ReplyCode
  <2>3. Reply(w, refusal) /\ UNCHANGED facts
        /\ UNCHANGED <<committed, ledger, call, written, rules, opening>>
    BY <1>4, <1>8 DEF refusal
  <2>4. Becomes(w, "reply", c, written[w], rs, facts[w], opening[w], refusal)
    BY <1>1, <2>3, ExceptSets DEF Becomes, Reply, Go, PerWorker
  <2> QED
    BY <2>2, <2>4, WorkerSteps DEF Stage
<1> QED
  BY <1>7, <1>8

(* Nothing is brought forward before the first day.                        *)
LEMMA CheckDatesKeeps ==
  ASSUME Inv, NEW w \in Worker, CheckDates(w)
  PROVE  Inv'
<1> DEFINE c == call[w]
           what == Code("invalid")
           st == IF c.op = "movements" /\ OpeningDate(c.scope) # None THEN "opening" ELSE "range"
<1>1. At(w) /\ PerWorker /\ stage[w] = "dates" /\ LedgerOK(ledger)
  BY DEF Inv, CheckDates
<1>2. /\ c \in Calls /\ c.op \in Reporting /\ opening[w] = NothingBrought
      /\ written[w] \subseteq Mapping /\ rules[w] \subseteq Mapping
  BY <1>1 DEF At, Working
<1>3. CASE DatesAccepted(c.scope)
  <2>1. Go(w, st) /\ UNCHANGED <<committed, ledger, call, written, rules, facts, opening, answer>>
    BY <1>3 DEF CheckDates
  <2>2. \/ st = "opening" /\ OpeningDate(c.scope) # None
        \/ st = "range"
    OBVIOUS
  <2>3. Brought(ledger, c, opening[w])
    <3>1. BalanceOf(ledger, 0, c.account, FirstDay(c.scope) - 1) = 0
      BY <1>1, BalanceOfNoEntry DEF LedgerOK
    <3>2. Len(ledger) \in Nat
      BY <1>1 DEF LedgerOK
    <3> QED
      BY <1>2, <3>1, <3>2 DEF Brought, NothingBrought
  <2> HIDE DEF st
  <2>4. Becomes(w, st, c, written[w], rules[w], facts[w], opening[w], answer[w])
    BY <1>1, <2>1, ExceptSets DEF Becomes, Go, PerWorker
  <2>5. Working(st, c, written[w], rules[w], facts[w], opening[w], answer[w], ledger)
    BY <1>2, <1>3, <2>2, <2>3 DEF Working
  <2>6. st \in Stage
    BY <2>2 DEF Stage
  <2> QED
    BY <2>4, <2>5, <2>6, WorkerSteps
<1>4. CASE ~DatesAccepted(c.scope)
  <2>1. Reply(w, what) /\ UNCHANGED <<committed, ledger, call, written, rules, facts, opening>>
    BY <1>4 DEF CheckDates
  <2> HIDE DEF what
  <2>2. Becomes(w, "reply", c, written[w], rules[w], facts[w], opening[w], what)
    BY <1>1, <2>1, ExceptSets DEF Becomes, Reply, Go, PerWorker
  <2>3. Working("reply", c, written[w], rules[w], facts[w], opening[w], what, ledger)
    BY <1>2, <1>4, ReplyCode
  <2> QED
    BY <2>2, <2>3, WorkerSteps DEF Stage
<1> QED
  BY <1>3, <1>4

(* What is brought forward is the balance of the ledger as it is.          *)
LEMMA ReadOpeningKeeps ==
  ASSUME Inv, NEW w \in Worker, ReadOpening(w)
  PROVE  Inv'
<1> DEFINE c == call[w]
           open == [at |-> Len(ledger), amount |-> Opening(ledger, c.account, c.scope)]
<1>1. At(w) /\ PerWorker /\ stage[w] = "opening" /\ LedgerOK(ledger)
  BY DEF Inv, ReadOpening
<1>2. /\ c \in Calls /\ c.op \in Reporting
      /\ DatesAccepted(c.scope) /\ OpeningDate(c.scope) # None
      /\ written[w] \subseteq Mapping /\ rules[w] \subseteq Mapping
  BY <1>1 DEF At, Working
<1>3. ledger \in Seq(Posted) /\ Len(ledger) \in 0 .. Len(ledger)
  BY <1>1 DEF LedgerOK
<1>4. c.scope \in Scope
  BY <1>2, RequestFields
<1>5. Opening(ledger, c.account, c.scope)
        = BalanceOf(ledger, Len(ledger), c.account, FirstDay(c.scope) - 1)
  BY <1>2, <1>3, <1>4, OpeningIsBalance
<1>6. Brought(ledger, c, open)
  BY <1>3, <1>5 DEF Brought
<1>7. /\ opening' = [opening EXCEPT ![w] = open] /\ Go(w, "range")
      /\ UNCHANGED <<committed, ledger, call, written, rules, facts, answer>>
  BY DEF ReadOpening
<1> HIDE DEF open
<1>8. Becomes(w, "range", c, written[w], rules[w], facts[w], open, answer[w])
  BY <1>1, <1>7, ExceptSets DEF Becomes, Go, PerWorker
<1>9. Working("range", c, written[w], rules[w], facts[w], open, answer[w], ledger)
  BY <1>2, <1>6 DEF Working
<1> QED
  BY <1>8, <1>9, WorkerSteps DEF Stage

(* A report answers what the ledger holds when it reads the range.         *)
LEMMA ReportTied ==
  ASSUME NEW led \in Seq(Posted), Balanced(led), NEW c, c.op \in Reporting, c.scope \in Scope,
         DatesWithin(c.scope), NEW open, Brought(led, c, open), NEW what,
         what.at = Len(led),
         c.op = "balance" => what.balance = AccountBalance(led, c.account, c.scope),
         c.op = "trial" => what.rows = TrialBalance(led, c.scope),
         c.op = "movements" =>
           what.closing = open.amount + AccountBalance(led, c.account, c.scope)
  PROVE  Tied(led, c, open, what)
<1> DEFINE n == Len(led)
           s == c.scope
<1>1. n \in 0 .. n /\ what.at \in 0 .. Len(led)
  OBVIOUS
<1>2. \A a : AccountBalance(led, a, s) = MovedIn(led, n, a, s)
  <2> SUFFICES ASSUME NEW a PROVE AccountBalance(led, a, s) = MovedIn(led, n, a, s)
    OBVIOUS
  <2> QED
    BY BalanceOfWindow DEF MovedIn
<1>3. c.op = "trial" =>
        /\ \A a \in Account :
             MovedIn(led, n, a, s) = (IF a \in DOMAIN what.rows THEN what.rows[a] ELSE 0)
        /\ SumFunction(what.rows) = 0
  BY <1>2, TrialRows, TrialSum
<1>4. ASSUME c.op = "movements", \A i \in open.at + 1 .. n : led[i].day >= FirstDay(s)
      PROVE  what.closing = BalanceOf(led, n, c.account, ClosingDay(s))
  <2> DEFINE a == c.account
             first == FirstDay(s)
             last == ClosingDay(s)
             k == open.at
  <2>1. k \in 0 .. n /\ open.amount = BalanceOf(led, k, a, first - 1)
    BY <1>4 DEF Brought
  <2>2. first \in Int
    BY WindowBegins
  <2>3. \A i \in k + 1 .. n : led[i].day >= first
    BY <1>4
  <2>4. what.closing = open.amount + MovedIn(led, n, a, s)
    BY <1>2, <1>4
  <2>5. MovedIn(led, n, a, s) = BalanceOf(led, n, a, last) - BalanceOf(led, n, a, first - 1)
    BY DEF MovedIn
  <2> HIDE DEF a, first, last, k
  <2>6. BalanceOf(led, n, a, first - 1) = BalanceOf(led, k, a, first - 1)
    BY <1>1, <2>1, <2>2, <2>3, BalanceUndisturbed
  <2>7. BalanceOf(led, n, a, last) \in Int /\ BalanceOf(led, n, a, first - 1) \in Int
    BY <1>1, BalanceInt
  <2>8. what.closing = BalanceOf(led, n, a, last)
    BY <2>1, <2>4, <2>5, <2>6, <2>7
  <2> QED
    BY <2>8 DEF a, last
<1>5. c.op = "movements" => open.at \in 0 .. n
  BY DEF Brought
<1> QED
  BY <1>1, <1>2, <1>3, <1>4, <1>5 DEF Tied

(* So each of the three reports ties.                                      *)
LEMMA ReadRangeKeeps ==
  ASSUME Inv, NEW w \in Worker, ReadRange(w)
  PROVE  Inv'
<1> DEFINE c == call[w]
           n == Len(ledger)
           trial == [code |-> "trial", at |-> n, rows |-> TrialBalance(ledger, c.scope)]
           balance == [code |-> "balance", at |-> n,
                       balance |-> AccountBalance(ledger, c.account, c.scope)]
           movements == [code |-> "movements", at |-> n,
                         closing |-> opening[w].amount
                                       + AccountBalance(ledger, c.account, c.scope)]
           what == CASE c.op = "trial" -> trial
                     [] c.op = "balance" -> balance
                     [] c.op = "movements" -> movements
<1>1. At(w) /\ PerWorker /\ stage[w] = "range" /\ LedgerOK(ledger)
  BY DEF Inv, ReadRange
<1>2. /\ c \in Calls /\ c.op \in Reporting
      /\ DatesAccepted(c.scope) /\ Brought(ledger, c, opening[w])
      /\ written[w] \subseteq Mapping /\ rules[w] \subseteq Mapping
  BY <1>1 DEF At, Working
<1>3. ledger \in Seq(Posted) /\ Balanced(ledger)
  BY <1>1 DEF LedgerOK
<1>4. c.scope \in Scope
  BY <1>2, RequestFields
<1>5. Reply(w, what) /\ UNCHANGED <<committed, ledger, call, written, rules, facts, opening>>
  BY DEF ReadRange
<1>6. /\ c.op = "trial" => what = trial
      /\ c.op = "balance" => what = balance
      /\ c.op = "movements" => what = movements
  <2> HIDE DEF trial, balance, movements
  <2> QED
    OBVIOUS
<1> HIDE DEF what
<1>7. /\ what.at = n
      /\ c.op = "balance" => what.balance = AccountBalance(ledger, c.account, c.scope)
      /\ c.op = "trial" => what.rows = TrialBalance(ledger, c.scope)
      /\ c.op = "movements" =>
           what.closing = opening[w].amount + AccountBalance(ledger, c.account, c.scope)
  BY <1>2, <1>6 DEF Reporting
<1>8. DatesWithin(c.scope) => Tied(ledger, c, opening[w], what)
  BY <1>2, <1>3, <1>4, <1>7, ReportTied
<1>9. Becomes(w, "reply", c, written[w], rules[w], facts[w], opening[w], what)
  BY <1>1, <1>5, ExceptSets DEF Becomes, Reply, Go, PerWorker
<1>10. Working("reply", c, written[w], rules[w], facts[w], opening[w], what, ledger)
  BY <1>2, <1>8 DEF Working, Reporting
<1> QED
  BY <1>9, <1>10, WorkerSteps DEF Stage

(* The end of a request, delivered or cut off.                             *)
LEMMA CloseKeeps ==
  ASSUME Inv, NEW w \in Worker, Close(w)
  PROVE  Inv'
<1>1. PerWorker
  BY DEF Inv
<1>2. Becomes(w, "idle", None, {}, {}, {}, NothingBrought, None)
  BY <1>1, ExceptSets DEF Becomes, Close, Go, PerWorker
<1>3. Working("idle", None, {}, {}, {}, NothingBrought, None, ledger)
  BY DEF Working
<1> QED
  BY <1>2, <1>3, WorkerSteps DEF Stage

----------------------------------------------------------------------------
(* Other sessions                                                          *)

(* A mapping stored excludes none of those there are.                      *)
LEMMA StoreKeeps ==
  ASSUME Inv, NEW m \in Mapping, Store(m)
  PROVE  Inv'
<1>1. /\ committed' = committed \cup {m}
      /\ UNCHANGED <<ledger, stage, call, written, rules, facts, opening, answer>>
      /\ \A n \in committed : ~Excluded(m, n)
  BY DEF Store
<1>2. TableOK(committed \cup {m})
  BY <1>1, TableGrows DEF Inv
<1>3. TableOK(committed)'
  BY <1>1, <1>2
<1>4. LedgerOK(ledger)' /\ PerWorker'
  BY <1>1 DEF Inv, PerWorker
<1>5. ASSUME NEW w \in Worker PROVE At(w)'
  BY <1>1 DEF Inv, At
<1> QED
  BY <1>3, <1>4, <1>5 DEF Inv

(* The workers keep what they know of a ledger that goes on.               *)
LEMMA LedgerSteps ==
  ASSUME Inv, LedgerOK(ledger)', Carries(ledger, ledger'),
         UNCHANGED <<committed, stage, call, written, rules, facts, opening, answer>>
  PROVE  Inv'
<1>1. TableOK(committed)' /\ PerWorker'
  BY DEF Inv, PerWorker
<1>2. ledger \in Seq(Posted) /\ ledger' \in Seq(Posted)
  BY DEF Inv, LedgerOK
<1>3. ASSUME NEW w \in Worker PROVE At(w)'
  <2>1. Working(stage[w], call[w], written[w], rules[w], facts[w], opening[w], answer[w], ledger)
    BY DEF Inv, At
  <2>2. Working(stage[w], call[w], written[w], rules[w], facts[w], opening[w], answer[w], ledger')
    BY <1>2, <2>1, WorkingCarried
  <2> QED
    BY <2>2 DEF At
<1> QED
  BY <1>1, <1>3 DEF Inv

(* An entry posted.                                                        *)
LEMMA PostKeeps ==
  ASSUME Inv, NEW m \in Movements, Post(m)
  PROVE  Inv'
<1> DEFINE e == [day |-> m.day, lines |-> m.lines, status |-> "POSTED"]
<1>1. /\ m.day \in UNION {DaysOf(p) : p \in FiscalPeriod}
      /\ m.lines \in [Account -> Int] /\ SumFunction(m.lines) = 0
  BY StatementsAssumption
<1>2. m.day \in Day
  <2>1. PICK p \in FiscalPeriod : m.day \in p.first .. p.last
    BY <1>1 DEF DaysOf
  <2>2. p.first \in Day /\ p.last \in Day
    BY ReportsAssumption
  <2>3. LastDay \in Nat
    BY ReportsAssumption
  <2>4. p.first \in Nat /\ 1 <= p.first /\ p.last \in Nat /\ p.last <= LastDay
    BY <2>2, <2>3 DEF Day
  <2>5. m.day \in Nat /\ 1 <= m.day /\ m.day <= LastDay
    BY <2>1, <2>3, <2>4
  <2> QED
    BY <2>3, <2>5 DEF Day
<1>3. e \in Posted /\ e.lines = m.lines
  BY <1>1, <1>2 DEF Posted
<1>4. /\ Len(ledger) < Room /\ ledger' = Append(ledger, e)
      /\ UNCHANGED <<committed, stage, call, written, rules, facts, opening, answer>>
  BY DEF Post
<1> HIDE DEF e
<1>5. LedgerOK(ledger)
  BY DEF Inv
<1>6. LedgerOK(Append(ledger, e)) /\ Carries(ledger, Append(ledger, e))
  BY <1>1, <1>3, <1>4, <1>5, LedgerGrows
<1> QED
  BY <1>4, <1>6, LedgerSteps

(* A reversal: its lines are those of the original, negated.               *)
LEMMA ReverseEntryKeeps ==
  ASSUME Inv, NEW i \in DOMAIN ledger, NEW day \in Day, ReverseEntry(i, day)
  PROVE  Inv'
<1> DEFINE lines == [a \in Account |-> -ledger[i].lines[a]]
           e == [day |-> day, lines |-> lines, status |-> "POSTED"]
           marked == [ledger EXCEPT ![i].status = "REVERSED"]
<1>1. LedgerOK(ledger) /\ ledger \in Seq(Posted)
  BY DEF Inv, LedgerOK
<1>2. ledger[i].lines \in [Account -> Int] /\ SumFunction(ledger[i].lines) = 0
  BY <1>1, PostedEntry DEF LedgerOK, Balanced
<1>3. lines \in [Account -> Int]
  BY <1>2
<1>4. SumFunction(lines) = 0
  <2> DEFINE given == ledger[i].lines
  <2>1. given \in [Account -> Int] /\ SumFunction(given) = 0
    BY <1>2
  <2>2. lines = [a \in Account |-> -given[a]]
    OBVIOUS
  <2> HIDE DEF given, lines
  <2>3. SumFunction([a \in Account |-> -given[a]]) = -SumFunction(given)
    BY <2>1, AccountsFinite, SumNegated
  <2>4. SumFunction(lines) = -SumFunction(given)
    BY <2>2, <2>3
  <2> DEFINE total == SumFunction(given)
  <2>5. SumFunction(lines) = -total /\ total \in Int
    BY <2>1, <2>4
  <2>6. total = 0
    BY <2>1
  <2> HIDE DEF total
  <2>7. SumFunction(lines) \in Int /\ SumFunction(lines) + total = 0
    BY <2>5
  <2> QED
    BY <2>6, <2>7
<1>5. e \in Posted /\ e.lines = lines
  BY <1>3 DEF Posted
<1>6. /\ Len(ledger) < Room /\ ledger' = Append(marked, e)
      /\ UNCHANGED <<committed, stage, call, written, rules, facts, opening, answer>>
  BY DEF ReverseEntry
<1>7. LedgerOK(marked) /\ Carries(ledger, marked) /\ Len(marked) = Len(ledger)
  BY <1>1, LedgerMarked
<1> HIDE DEF e, marked, lines
<1>8. LedgerOK(Append(marked, e)) /\ Carries(marked, Append(marked, e))
  BY <1>4, <1>5, <1>6, <1>7, LedgerGrows
<1>9. Carries(ledger, Append(marked, e))
  BY <1>1, <1>7, <1>8, CarriesOn DEF LedgerOK
<1> QED
  BY <1>6, <1>8, <1>9, LedgerSteps

----------------------------------------------------------------------------
(* The invariant holds                                                     *)

(* At the beginning nobody works, and nothing is posted.                   *)
LEMMA InvInitially == Init => Inv
<1> SUFFICES ASSUME Init PROVE Inv
  OBVIOUS
<1>1. TableOK(committed)
  BY StatementsAssumption DEF Init, TableOK
<1>2. LedgerOK(ledger)
  <2>1. ledger = <<>> /\ Room \in Nat
    BY StatementsAssumption DEF Init
  <2> QED
    BY <2>1 DEF LedgerOK, Balanced
<1>3. PerWorker
  BY DEF Init, PerWorker, Stage
<1>4. ASSUME NEW w \in Worker PROVE At(w)
  BY DEF Init, At, Working
<1> QED
  BY <1>1, <1>2, <1>3, <1>4 DEF Inv

(* Every step keeps the invariant.                                         *)
LEMMA InvKept == Inv /\ [Next]_vars => Inv'
<1> SUFFICES ASSUME Inv, [Next]_vars PROVE Inv'
  OBVIOUS
<1>1. ASSUME NEW w \in Worker, Begin(w) PROVE Inv'
  BY <1>1, BeginKeeps
<1>2. ASSUME NEW w \in Worker, EnsureNoOverlap(w) PROVE Inv'
  BY <1>2, EnsureNoOverlapKeeps
<1>3. ASSUME NEW w \in Worker, Flush(w) PROVE Inv'
  BY <1>3, FlushKeeps
<1>4. ASSUME NEW w \in Worker, AppendAudit(w) PROVE Inv'
  BY <1>4, AppendAuditKeeps
<1>5. ASSUME NEW w \in Worker, DeadlockVictim(w) PROVE Inv'
  BY <1>5, DeadlockVictimKeeps
<1>6. ASSUME NEW w \in Worker, ReadRules(w) PROVE Inv'
  BY <1>6, ReadRulesKeeps
<1>7. ASSUME NEW w \in Worker, Reconcile(w) PROVE Inv'
  BY <1>7, ReconcileKeeps
<1>8. ASSUME NEW w \in Worker, ReadFacts(w) PROVE Inv'
  BY <1>8, ReadFactsKeeps
<1>9. ASSUME NEW w \in Worker, CheckDates(w) PROVE Inv'
  BY <1>9, CheckDatesKeeps
<1>10. ASSUME NEW w \in Worker, ReadOpening(w) PROVE Inv'
  BY <1>10, ReadOpeningKeeps
<1>11. ASSUME NEW w \in Worker, ReadRange(w) PROVE Inv'
  BY <1>11, ReadRangeKeeps
<1>12. ASSUME NEW w \in Worker, Deliver(w) \/ CutOff(w) PROVE Inv'
  BY <1>12, CloseKeeps DEF Deliver, CutOff
<1>13. ASSUME NEW c \in Calls, c.op = "create", Store(c.row) PROVE Inv'
  BY <1>13, RequestFields, StoreKeeps
<1>14. ASSUME NEW m \in Movements, Post(m) PROVE Inv'
  BY <1>14, PostKeeps
<1>15. ASSUME NEW i \in DOMAIN ledger, NEW day \in Day, ReverseEntry(i, day) PROVE Inv'
  BY <1>15, ReverseEntryKeeps
<1>16. CASE UNCHANGED vars
  <2>1. UNCHANGED <<committed, ledger, stage, call, written, rules, facts, opening, answer>>
    BY <1>16 DEF vars
  <2>2. TableOK(committed)' /\ LedgerOK(ledger)' /\ PerWorker'
    BY <2>1 DEF Inv, PerWorker
  <2>3. ASSUME NEW w \in Worker PROVE At(w)'
    BY <2>1 DEF Inv, At
  <2> QED
    BY <2>2, <2>3 DEF Inv
<1>17. CASE Next
  BY <1>1, <1>2, <1>3, <1>4, <1>5, <1>6, <1>7, <1>8, <1>9, <1>10, <1>11, <1>12, <1>13, <1>14,
     <1>15, <1>17 DEF Next
<1> QED
  BY <1>16, <1>17

(* So it always holds.                                                     *)
THEOREM StatementsInvariant == Spec => []Inv
<1>1. Init => Inv
  BY InvInitially
<1>2. Inv /\ [Next]_vars => Inv'
  BY InvKept
<1> QED
  BY <1>1, <1>2, PTL DEF Spec

----------------------------------------------------------------------------
(* The theorems                                                            *)

(* The variables have their types; an idle worker keeps nothing from the   *)
(* request before.                                                         *)
THEOREM StatementsTypeCorrect == Spec => []TypeOK
<1>1. Inv => TypeOK
  <2> SUFFICES ASSUME Inv PROVE TypeOK
    OBVIOUS
  <2>1. committed \subseteq Mapping /\ Len(ledger) <= Room /\ stage \in [Worker -> Stage]
    BY DEF Inv, TableOK, LedgerOK, PerWorker
  <2>2. ledger \in Seq(Posted)
    BY DEF Inv, LedgerOK
  <2>3. \A i \in DOMAIN ledger :
          ledger[i] \in [day : Day, lines : [Account -> Int], status : {"POSTED", "REVERSED"}]
    <3>1. \A i \in DOMAIN ledger : ledger[i] \in Posted
      BY <2>2
    <3> QED
      BY <3>1 DEF Posted
  <2>4. ASSUME NEW w \in Worker
        PROVE  /\ call[w] \in Calls \cup {None}
               /\ written[w] \cup rules[w] \subseteq Mapping
               /\ stage[w] = "idle" => {call[w], answer[w]} = {None} /\ written[w] = {}
                                         /\ rules[w] = {} /\ facts[w] = {}
                                         /\ opening[w] = NothingBrought
    <3>1. Working(stage[w], call[w], written[w], rules[w], facts[w], opening[w], answer[w], ledger)
      BY DEF Inv, At
    <3> QED
      BY <3>1 DEF Working
  <2> QED
    BY <2>1, <2>3, <2>4 DEF TypeOK
<1> QED
  BY <1>1, StatementsInvariant, PTL

(* A balance sheet is always computed when its day is accepted, and        *)
(* balances when the accounts of all its postings are mapped.              *)
THEOREM SheetAlwaysBalances == Spec => []SheetBalances
<1>1. Inv => SheetBalances
  <2> SUFFICES ASSUME Inv, NEW w \in Worker, stage[w] = "reply", call[w].op = "sheet",
                      DatesAccepted(Asked(call[w]))
               PROVE  SheetAnswered(rules[w], facts[w], answer[w])
    BY DEF SheetBalances, SheetAnswered
  <2>1. Working(stage[w], call[w], written[w], rules[w], facts[w], opening[w], answer[w], ledger)
    BY DEF Inv, At
  <2> QED
    BY <2>1 DEF Working
<1> QED
  BY <1>1, StatementsInvariant, PTL

(* Net income is what the mapped postings moved, there when all categories *)
(* are; its margin is an error exactly when revenue is zero.               *)
THEOREM NetIncomeAlwaysMovement == Spec => []NetIncomeIsMovement
<1>1. Inv => NetIncomeIsMovement
  <2> SUFFICES ASSUME Inv, NEW w \in Worker, stage[w] = "reply", call[w].op = "profit",
                      answer[w].code = "statement"
               PROVE  ProfitAnswered(rules[w], facts[w], answer[w])
    BY DEF NetIncomeIsMovement, ProfitAnswered
  <2>1. Working(stage[w], call[w], written[w], rules[w], facts[w], opening[w], answer[w], ledger)
    BY DEF Inv, At
  <2> QED
    BY <2>1 DEF Working
<1> QED
  BY <1>1, StatementsInvariant, PTL

(* The reports tie: balances, trial balances and movements of a window     *)
(* within its period are differences of balances at the end of days.       *)
THEOREM ReportsAlwaysTie == Spec => []ReportsTie
<1>1. Inv => ReportsTie
  <2> SUFFICES ASSUME Inv, NEW w \in Worker, stage[w] = "reply", call[w].op \in Reporting,
                      DatesWithin(call[w].scope)
               PROVE  LET s == call[w].scope
                          moved(a) == BalanceAt(answer[w].at, a, ClosingDay(s))
                                        - BalanceAt(answer[w].at, a, FirstDay(s) - 1)
                      IN CASE call[w].op = "balance" -> answer[w].balance = moved(call[w].account)
                           [] call[w].op = "trial" ->
                                /\ \A a \in Account :
                                     moved(a) = (IF a \in DOMAIN answer[w].rows
                                                  THEN answer[w].rows[a] ELSE 0)
                                /\ SumFunction(answer[w].rows) = 0
                           [] call[w].op = "movements" ->
                                Undisturbed(w) =>
                                  answer[w].closing =
                                    BalanceAt(answer[w].at, call[w].account, ClosingDay(s))
    BY DEF ReportsTie, Reporting
  <2>1. Working(stage[w], call[w], written[w], rules[w], facts[w], opening[w], answer[w], ledger)
    BY DEF Inv, At
  <2>2. Tied(ledger, call[w], opening[w], answer[w])
    BY <2>1 DEF Working
  <2>3. \A n, a, day : BalanceAt(n, a, day) = BalanceOf(ledger, n, a, day)
    BY DEF BalanceAt, BalanceOf
  <2>4. \/ call[w].op = "balance" \/ call[w].op = "trial" \/ call[w].op = "movements"
    BY DEF Reporting
  <2> QED
    BY <2>2, <2>3, <2>4 DEF Tied, MovedIn, Undisturbed
<1> QED
  BY <1>1, StatementsInvariant, PTL

=============================================================================
