------------------------------ MODULE SumTheorems -----------------------------
(***************************************************************************)
(* Induction and sums, for the proofs about counters: what is charged to a *)
(* usage or a statistic one request at a time is the sum over the requests *)
(* that are open.                                                          *)
(*                                                                         *)
(* The induction theorems of the library are about an operator P(_).       *)
(* NatInd and SetInd are the same about the set of what has the property,  *)
(* and follow from the library's theorem that every nonempty subset of a   *)
(* well-founded order has a minimal element.  IterDef then justifies the   *)
(* recursive function behind MapThenSumSet, and the lemmas that start with *)
(* Sum are what the other modules cite.                                    *)
(***************************************************************************)
EXTENDS FiniteSetsExt, FiniteSetTheorems, TLAPS

-----------------------------------------------------------------------------
(* Induction *)

\* A set that contains zero and with every number the next one.
LEMMA NatInd ==
  ASSUME NEW T, 0 \in T, \A n \in Nat : n \in T => n + 1 \in T
  PROVE  Nat \subseteq T
<1> SUFFICES ASSUME Nat \ T # {} PROVE FALSE
  OBVIOUS
<1>1. PICK m \in Nat \ T : \A k \in Nat \ T : <<k, m>> \notin OpToRel(<, Nat)
  BY NatLessThanWellFounded, WFMin
<1>2. \A k \in Nat : k < m => k \in T
  BY <1>1 DEF OpToRel
<1>3. m \in Nat /\ m \notin T
  BY <1>1
<1>4. m # 0
  BY <1>3
<1>5. m - 1 \in Nat /\ m - 1 < m /\ (m - 1) + 1 = m
  BY <1>3, <1>4
<1> QED BY <1>2, <1>3, <1>5

\* A set that contains a subset of S as soon as it contains all smaller ones.
LEMMA SetInd ==
  ASSUME NEW S, IsFiniteSet(S), NEW T,
         \A U \in SUBSET S : (\A V \in SUBSET U : V # U => V \in T) => U \in T
  PROVE  \A U \in SUBSET S : U \in T
<1> DEFINE Small(n) == \A U \in SUBSET S : Cardinality(U) < n => U \in T
           N == {n \in Nat : Small(n)}
<1>1. ASSUME NEW U \in SUBSET S PROVE IsFiniteSet(U) /\ Cardinality(U) \in Nat
  BY FS_Subset, FS_CardinalityType
<1>2. 0 \in N
  BY <1>1
<1>3. ASSUME NEW n \in Nat, n \in N PROVE n + 1 \in N
  <2>1. ASSUME NEW U \in SUBSET S, Cardinality(U) < n + 1 PROVE U \in T
    <3>1. ASSUME NEW V \in SUBSET U, V # U PROVE V \in T
      <4>1. Cardinality(V) < Cardinality(U)
        BY <1>1, <3>1, FS_Subset
      <4>2. Cardinality(V) \in Nat /\ Cardinality(U) \in Nat /\ V \in SUBSET S
        BY <1>1
      <4>3. Cardinality(V) < n
        BY <2>1, <4>1, <4>2
      <4> QED BY <1>3, <4>2, <4>3
    <3> QED BY <3>1
  <2> QED BY <2>1
<1> HIDE DEF N
<1>4. Nat \subseteq N
  BY <1>2, <1>3, NatInd
<1> QED
  <2> SUFFICES ASSUME NEW U \in SUBSET S PROVE U \in T
    OBVIOUS
  <2>1. Cardinality(U) + 1 \in Nat /\ Cardinality(U) < Cardinality(U) + 1
    BY <1>1
  <2>2. Cardinality(U) + 1 \in N
    BY <1>4, <2>1
  <2> QED BY <2>1, <2>2 DEF N

-----------------------------------------------------------------------------
(* The fold *)

Pick(s) == CHOOSE x \in s : TRUE

\* One round of the fold, when g holds the sums of the smaller sets.
Round(f, g, s) == IF s = {} THEN 0 ELSE f[Pick(s)] + g[s \ {Pick(s)}]

\* The recursive function of MapThenFoldSet, for the sum of the values of f.
Iter(f, S) == CHOOSE g : g = [s \in SUBSET S |-> Round(f, g, s)]

SumOver(f, S) == MapThenSumSet(LAMBDA b : f[b], S)

LEMMA SumIter == ASSUME NEW f, NEW S PROVE SumOver(f, S) = Iter(f, S)[S]
  BY DEF SumOver, MapThenSumSet, MapThenFoldSet, Iter, Round, Pick

LEMMA PickIn ==
  ASSUME NEW s, s # {}
  PROVE  Pick(s) \in s
  BY DEF Pick

LEMMA Smaller ==
  ASSUME NEW S, IsFiniteSet(S), NEW s \in SUBSET S, NEW x \in s
  PROVE  /\ Cardinality(s) \in Nat /\ Cardinality(s \ {x}) \in Nat
         /\ Cardinality(s) = Cardinality(s \ {x}) + 1
         /\ s \ {x} \in SUBSET S
<1>1. IsFiniteSet(s) /\ Cardinality(s) \in Nat
  BY FS_Subset, FS_CardinalityType
<1>2. IsFiniteSet(s \ {x}) /\ Cardinality(s \ {x}) = Cardinality(s) - 1
  BY <1>1, FS_RemoveElement
<1>3. Cardinality(s \ {x}) \in Nat
  BY <1>2, FS_CardinalityType
<1> QED BY <1>1, <1>2, <1>3

\* The fold is well defined: there is a function that satisfies the recursion,
\* because there is one on the subsets of up to n elements, for every n.
LEMMA IterDef ==
  ASSUME NEW f, NEW S, IsFiniteSet(S)
  PROVE  \A s \in SUBSET S : Iter(f, S)[s] = Round(f, Iter(f, S), s)
<1> DEFINE Upto(n) == {s \in SUBSET S : Cardinality(s) <= n}
           Good(g, n) == g = [s \in Upto(n) |-> Round(f, g, s)]
           N == {n \in Nat : \E g : Good(g, n)}
<1>1. 0 \in N
  <2> DEFINE h == [s \in Upto(0) |-> 0]
  <2>1. ASSUME NEW s \in Upto(0) PROVE s = {}
    BY FS_Subset, FS_EmptySet, FS_CardinalityType
  <2>2. Good(h, 0)
    BY <2>1 DEF Round
  <2> QED BY <2>2
<1>2. ASSUME NEW n \in Nat, n \in N PROVE n + 1 \in N
  <2>1. PICK g : Good(g, n)
    BY <1>2
  <2> DEFINE h == [s \in Upto(n + 1) |-> Round(f, g, s)]
  <2>2. ASSUME NEW s \in Upto(n) PROVE s \in Upto(n + 1) /\ h[s] = g[s]
    <3>1. Cardinality(s) \in Nat
      BY FS_Subset, FS_CardinalityType
    <3>2. s \in Upto(n + 1)
      BY <3>1
    <3> QED BY <2>1, <3>2
  <2>3. ASSUME NEW s \in Upto(n + 1) PROVE Round(f, g, s) = Round(f, h, s)
    <3>1. CASE s = {}
      BY <3>1 DEF Round
    <3>2. CASE s # {}
      <4>1. s \ {Pick(s)} \in Upto(n)
        BY <3>2, PickIn, Smaller
      <4>2. h[s \ {Pick(s)}] = g[s \ {Pick(s)}]
        BY <4>1, <2>2
      <4> HIDE DEF h
      <4> QED BY <3>2, <4>2 DEF Round
    <3> QED BY <3>1, <3>2
  <2>4. Good(h, n + 1)
    BY <2>3
  <2> HIDE DEF Good
  <2> QED BY <2>4
<1> HIDE DEF N
<1>3. Cardinality(S) \in N
  BY <1>1, <1>2, NatInd, FS_CardinalityType
<1>4. Upto(Cardinality(S)) = SUBSET S
  BY FS_Subset
<1>5. \E g : g = [s \in SUBSET S |-> Round(f, g, s)]
  BY <1>3, <1>4 DEF N
<1> DEFINE G == Iter(f, S)
<1>6. G = [s \in SUBSET S |-> Round(f, G, s)]
  BY <1>5 DEF Iter
<1> HIDE DEF G
<1>7. \A s \in SUBSET S : G[s] = Round(f, G, s)
  BY <1>6
<1> QED BY <1>7 DEF G

LEMMA IterEmpty ==
  ASSUME NEW f, NEW S, IsFiniteSet(S)
  PROVE  Iter(f, S)[{}] = 0
  BY IterDef DEF Round

LEMMA IterPick ==
  ASSUME NEW f, NEW S, IsFiniteSet(S), NEW s \in SUBSET S, s # {}
  PROVE  /\ Pick(s) \in s
         /\ Iter(f, S)[s] = f[Pick(s)] + Iter(f, S)[s \ {Pick(s)}]
  BY IterDef, PickIn DEF Round

\* What a fold yields depends on the set and on the values in it only.
LEMMA IterSame ==
  ASSUME NEW f, NEW g, NEW S, NEW R, IsFiniteSet(S), IsFiniteSet(R),
         \A x \in S \cap R : f[x] = g[x]
  PROVE  \A s \in SUBSET (S \cap R) : Iter(f, S)[s] = Iter(g, R)[s]
<1> DEFINE T == {s \in SUBSET (S \cap R) : Iter(f, S)[s] = Iter(g, R)[s]}
<1>1. IsFiniteSet(S \cap R)
  BY FS_Subset
<1>2. ASSUME NEW U \in SUBSET (S \cap R), \A V \in SUBSET U : V # U => V \in T
      PROVE  U \in T
  <2>1. U \in SUBSET S /\ U \in SUBSET R
    OBVIOUS
  <2>2. CASE U = {}
    BY <2>2, IterEmpty
  <2>3. CASE U # {}
    <3>1. Pick(U) \in U /\ Iter(f, S)[U] = f[Pick(U)] + Iter(f, S)[U \ {Pick(U)}]
      BY <2>1, <2>3, IterPick
    <3>2. Iter(g, R)[U] = g[Pick(U)] + Iter(g, R)[U \ {Pick(U)}]
      <4> HIDE DEF T
      <4>1. U \in SUBSET R
        BY <2>1
      <4> QED BY <4>1, <2>3, IterPick
    <3>3. U \ {Pick(U)} \in T
      BY <1>2, <3>1
    <3>4. f[Pick(U)] = g[Pick(U)]
      BY <2>1, <3>1
    <3> QED BY <3>1, <3>2, <3>3, <3>4
  <2> QED BY <2>2, <2>3
<1> HIDE DEF T
<1>3. \A s \in SUBSET (S \cap R) : s \in T
  BY <1>1, <1>2, SetInd
<1> QED BY <1>3 DEF T

-----------------------------------------------------------------------------
(* Sums *)

LEMMA SumEmpty == ASSUME NEW f PROVE SumOver(f, {}) = 0
  BY SumIter, IterEmpty, FS_EmptySet

LEMMA SumSame ==
  ASSUME NEW f, NEW g, NEW S, IsFiniteSet(S), \A x \in S : f[x] = g[x]
  PROVE  SumOver(f, S) = SumOver(g, S)
  BY SumIter, IterSame

LEMMA IterSum ==
  ASSUME NEW f, NEW S, IsFiniteSet(S), NEW s \in SUBSET S
  PROVE  Iter(f, S)[s] = SumOver(f, s)
<1>1. IsFiniteSet(s) /\ s \in SUBSET (S \cap s)
  BY FS_Subset
<1>2. Iter(f, S)[s] = Iter(f, s)[s]
  BY <1>1, IterSame
<1> QED BY <1>2, SumIter

LEMMA SumPick ==
  ASSUME NEW f, NEW S, IsFiniteSet(S), S # {}
  PROVE  /\ Pick(S) \in S
         /\ SumOver(f, S) = f[Pick(S)] + SumOver(f, S \ {Pick(S)})
<1>0. S \in SUBSET S
  OBVIOUS
<1>1. Pick(S) \in S /\ Iter(f, S)[S] = f[Pick(S)] + Iter(f, S)[S \ {Pick(S)}]
  BY <1>0, IterPick
<1>2. Iter(f, S)[S \ {Pick(S)}] = SumOver(f, S \ {Pick(S)})
  BY IterSum
<1> QED BY <1>1, <1>2, SumIter

LEMMA SumInt ==
  ASSUME NEW f, NEW S, IsFiniteSet(S), \A x \in S : f[x] \in Int
  PROVE  SumOver(f, S) \in Int
<1> DEFINE T == {s \in SUBSET S : SumOver(f, s) \in Int}
<1>1. ASSUME NEW U \in SUBSET S, \A V \in SUBSET U : V # U => V \in T
      PROVE  U \in T
  <2>1. CASE U = {}
    BY <2>1, SumEmpty
  <2>2. CASE U # {}
    <3>1. Pick(U) \in U /\ SumOver(f, U) = f[Pick(U)] + SumOver(f, U \ {Pick(U)})
      BY <2>2, SumPick, FS_Subset
    <3>2. U \ {Pick(U)} \in T
      BY <1>1, <3>1
    <3>3. f[Pick(U)] \in Int
      BY <3>1
    <3> QED BY <3>1, <3>2, <3>3
  <2> QED BY <2>1, <2>2
<1> HIDE DEF T
<1>2. \A s \in SUBSET S : s \in T
  BY <1>1, SetInd
<1> QED BY <1>2 DEF T

\* A sum may be taken in any order.
LEMMA SumRemove ==
  ASSUME NEW f, NEW S, IsFiniteSet(S), \A x \in S : f[x] \in Int, NEW x \in S
  PROVE  SumOver(f, S) = f[x] + SumOver(f, S \ {x})
<1> DEFINE T == {s \in SUBSET S : \A y \in s : SumOver(f, s) = f[y] + SumOver(f, s \ {y})}
<1>1. ASSUME NEW U \in SUBSET S, \A V \in SUBSET U : V # U => V \in T
      PROVE  U \in T
  <2> SUFFICES ASSUME NEW y \in U PROVE SumOver(f, U) = f[y] + SumOver(f, U \ {y})
    OBVIOUS
  <2> DEFINE p == Pick(U)
  <2>1. p \in U /\ SumOver(f, U) = f[p] + SumOver(f, U \ {p})
    BY SumPick, FS_Subset
  <2> HIDE DEF p
  <2>2. CASE y = p
    BY <2>1, <2>2
  <2>3. CASE y # p
    <3>1. U \ {p} \in T /\ U \ {y} \in T
      BY <1>1, <2>1
    <3>2. SumOver(f, U \ {p}) = f[y] + SumOver(f, (U \ {p}) \ {y})
      BY <3>1, <2>3
    <3>3. SumOver(f, U \ {y}) = f[p] + SumOver(f, (U \ {y}) \ {p})
      BY <3>1, <2>1, <2>3
    <3>4. (U \ {y}) \ {p} = (U \ {p}) \ {y}
      OBVIOUS
    <3>5. f[p] \in Int /\ f[y] \in Int
      BY <2>1
    <3>6. SumOver(f, (U \ {p}) \ {y}) \in Int
      BY SumInt, FS_Subset
    <3>7. SumOver(f, U) = f[p] + (f[y] + SumOver(f, (U \ {p}) \ {y}))
      BY <2>1, <3>2
    <3>8. SumOver(f, U \ {y}) = f[p] + SumOver(f, (U \ {p}) \ {y})
      BY <3>3, <3>4
    <3> QED BY <3>5, <3>6, <3>7, <3>8
  <2> QED BY <2>2, <2>3
<1> HIDE DEF T
<1>2. \A s \in SUBSET S : s \in T
  BY <1>1, SetInd
<1> QED BY <1>2 DEF T

LEMMA SumAdd ==
  ASSUME NEW f, NEW S, IsFiniteSet(S), \A x \in S : f[x] \in Int,
         NEW x, x \notin S, f[x] \in Int
  PROVE  SumOver(f, S \cup {x}) = SumOver(f, S) + f[x]
<1>1. IsFiniteSet(S \cup {x}) /\ (S \cup {x}) \ {x} = S
  BY FS_AddElement
<1>2. SumOver(f, S \cup {x}) = f[x] + SumOver(f, S)
  BY <1>1, SumRemove
<1> QED BY <1>2, SumInt

\* A sum of natural numbers grows with the set.
LEMMA SumNat ==
  ASSUME NEW f, NEW S, IsFiniteSet(S), \A x \in S : f[x] \in Nat
  PROVE  SumOver(f, S) \in Nat /\ \A s \in SUBSET S : SumOver(f, s) <= SumOver(f, S)
<1> DEFINE T == {s \in SUBSET S : /\ SumOver(f, s) \in Nat
                                  /\ \A r \in SUBSET s : SumOver(f, r) <= SumOver(f, s)}
<1>1. ASSUME NEW U \in SUBSET S, \A V \in SUBSET U : V # U => V \in T
      PROVE  U \in T
  <2>1. CASE U = {}
    BY <2>1, SumEmpty
  <2>2. CASE U # {}
    <3>1. \A x \in U : SumOver(f, U) = f[x] + SumOver(f, U \ {x})
      BY SumRemove, FS_Subset
    <3>2. \A x \in U : U \ {x} \in T
      BY <1>1
    <3>3. SumOver(f, U) \in Nat
      <4>1. PICK x \in U : TRUE
        BY <2>2
      <4>2. f[x] \in Nat /\ SumOver(f, U \ {x}) \in Nat
        BY <3>2
      <4> QED BY <3>1, <4>2
    <3>4. ASSUME NEW r \in SUBSET U, r # U PROVE SumOver(f, r) <= SumOver(f, U)
      <4>1. PICK x \in U : x \notin r
        BY <3>4
      <4>2. SumOver(f, r) <= SumOver(f, U \ {x})
        BY <3>2, <4>1
      <4>3. r \in T /\ U \ {x} \in T
        BY <1>1, <3>4
      <4>4. SumOver(f, r) \in Nat /\ SumOver(f, U \ {x}) \in Nat /\ f[x] \in Nat
        BY <4>3
      <4>5. SumOver(f, U) = f[x] + SumOver(f, U \ {x})
        BY <3>1
      <4> QED BY <4>2, <4>4, <4>5
    <3> QED BY <3>3, <3>4
  <2> QED BY <2>1, <2>2
<1> HIDE DEF T
<1>2. \A s \in SUBSET S : s \in T
  BY <1>1, SetInd
<1> QED BY <1>2 DEF T

\* A step that concerns b only moves a sum by what it does to b.
LEMMA SumWithout ==
  ASSUME NEW f, NEW S, IsFiniteSet(S), \A x \in S : f[x] \in Int, NEW b
  PROVE  /\ SumOver(f, S) \in Int
         /\ SumOver(f, S) - (IF b \in S THEN f[b] ELSE 0) = SumOver(f, S \ {b})
<1>1. SumOver(f, S) \in Int /\ SumOver(f, S \ {b}) \in Int
  BY SumInt, FS_RemoveElement
<1>2. CASE b \in S
  BY <1>1, <1>2, SumRemove
<1>3. CASE b \notin S
  <2>1. S \ {b} = S
    BY <1>3
  <2> QED BY <1>1, <1>3, <2>1
<1> QED BY <1>1, <1>2, <1>3

LEMMA SumMove ==
  ASSUME NEW f, NEW g, NEW S, NEW R, NEW b, IsFiniteSet(S), IsFiniteSet(R),
         S \ {b} = R \ {b}, \A x \in S \ {b} : f[x] = g[x],
         \A x \in S : f[x] \in Int, \A x \in R : g[x] \in Int
  PROVE  /\ SumOver(f, S) \in Int /\ SumOver(g, R) \in Int
         /\ SumOver(g, R) - (IF b \in R THEN g[b] ELSE 0)
              = SumOver(f, S) - (IF b \in S THEN f[b] ELSE 0)
<1>1. SumOver(f, S \ {b}) = SumOver(g, R \ {b})
  <2>1. IsFiniteSet(S \ {b})
    BY FS_RemoveElement
  <2>2. SumOver(f, S \ {b}) = SumOver(g, S \ {b})
    BY <2>1, SumSame
  <2> QED BY <2>2
<1>2. /\ SumOver(f, S) \in Int
      /\ SumOver(f, S) - (IF b \in S THEN f[b] ELSE 0) = SumOver(f, S \ {b})
  BY SumWithout
<1>3. /\ SumOver(g, R) \in Int
      /\ SumOver(g, R) - (IF b \in R THEN g[b] ELSE 0) = SumOver(g, R \ {b})
  BY SumWithout
<1> QED BY <1>1, <1>2, <1>3
=============================================================================
