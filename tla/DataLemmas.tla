------------------------------ MODULE DataLemmas ------------------------------
(***************************************************************************)
(* Induction with sets in the place of predicates: what the proofs about   *)
(* recursively defined functions and about enumerated finite sets need.    *)
(***************************************************************************)
EXTENDS Integers, FiniteSetTheorems, WellFoundedInduction, TLAPS

(* A set of numbers has a least one: the intervals 0 .. n below its        *)
(* members are finite sets, which inclusion orders in a well-founded way.  *)
LEMMA LeastNat ==
  ASSUME NEW S \in SUBSET Nat, S # {}
  PROVE  \E m \in S : \A n \in S : m <= n
<1> DEFINE F == FiniteSubsetsOf(Nat)
           R == StrictSubsetOrdering(Nat)
           T == {0 .. n : n \in S}
<1>1. IsWellFoundedOn(R, F)
  BY FS_StrictSubsetOrderingWellFounded
<1>2. T \subseteq F /\ T # {}
  <2>1. ASSUME NEW n \in S PROVE 0 .. n \in F
    <3>1. n \in Int
      OBVIOUS
    <3>2. IsFiniteSet(0 .. n)
      BY <3>1, FS_Interval
    <3>. QED
      BY <3>2 DEF FiniteSubsetsOf
  <2>. QED
    BY <2>1
<1>3. ASSUME NEW x \in F, NEW y \in F, y \subseteq x, y # x PROVE <<y, x>> \in R
  BY <1>3 DEF StrictSubsetOrdering, FiniteSubsetsOf
<1> HIDE DEF R, F
<1>4. \E x \in T : \A y \in T : ~(<<y, x>> \in R)
  BY <1>1, <1>2, WFMin
<1>5. PICK m \in S : \A n \in S : ~(<<0 .. n, 0 .. m>> \in R)
  BY <1>4
<1>6. ASSUME NEW n \in S, n < m PROVE FALSE
  <2>1. 0 .. n \in F /\ 0 .. m \in F
    BY <1>2
  <2>2. 0 .. n \subseteq 0 .. m /\ m \in 0 .. m /\ m \notin 0 .. n
    BY <1>6
  <2>. QED
    BY <1>3, <1>5, <2>1, <2>2
<1>. QED
  BY <1>6

(* Induction over the numbers.                                             *)
LEMMA Induct ==
  ASSUME NEW S, 0 \in S, \A n \in Nat : n \in S => n + 1 \in S
  PROVE  \A n \in Nat : n \in S
<1> SUFFICES ASSUME NEW k \in Nat, k \notin S PROVE FALSE
  OBVIOUS
<1> DEFINE C == Nat \ S
<1>1. C \in SUBSET Nat /\ C # {}
  OBVIOUS
<1>2. PICK m \in C : \A n \in C : m <= n
  <2> HIDE DEF C
  <2>. QED
    BY <1>1, LeastNat
<1>3. m # 0 /\ m - 1 \in Nat /\ m - 1 \notin C
  BY <1>2
<1>. QED
  BY <1>3

(* A function may be defined by recursion: from a value, step by step.     *)
Steps(N, V) == [1 .. N -> [V -> V]]
Iterates(f, N, V, a, G) ==
  f \in [0 .. N -> V] /\ f[0] = a /\ \A n \in 1 .. N : f[n] = G[n][f[n - 1]]

LEMMA Iteration ==
  ASSUME NEW N \in Nat, NEW V, NEW a \in V, NEW G \in Steps(N, V)
  PROVE  \E f : Iterates(f, N, V, a, G)
<1> DEFINE Defines(f, k) == f \in [0 .. k -> V] /\ f[0] = a
                            /\ \A n \in 1 .. k : n <= N => f[n] = G[n][f[n - 1]]
           S == {k \in Nat : \E f : Defines(f, k)}
<1>1. 0 \in S
  <2>1. Defines([n \in 0 .. 0 |-> a], 0)
    OBVIOUS
  <2>. QED
    BY <2>1
<1>2. ASSUME NEW k \in Nat, k \in S PROVE k + 1 \in S
  <2>1. PICK f : Defines(f, k)
    BY <1>2
  <2> DEFINE b == IF k + 1 <= N THEN G[k + 1][f[k]] ELSE a
             g == [n \in 0 .. (k + 1) |-> IF n = k + 1 THEN b ELSE f[n]]
  <2>2. b \in V
    BY <2>1 DEF Steps
  <2>3. g \in [0 .. (k + 1) -> V] /\ g[0] = a
    BY <2>1, <2>2
  <2>4. ASSUME NEW n \in 1 .. (k + 1), n <= N PROVE g[n] = G[n][g[n - 1]]
    <3>1. CASE n = k + 1
      BY <2>4, <3>1
    <3>2. CASE n # k + 1
      BY <2>1, <2>4, <3>2
    <3>. QED
      BY <3>1, <3>2
  <2>5. Defines(g, k + 1)
    BY <2>3, <2>4
  <2> HIDE DEF g
  <2>. QED
    BY <2>5
<1> HIDE DEF S
<1>3. N \in S
  BY <1>1, <1>2, Induct
<1>4. PICK f : Defines(f, N)
  BY <1>3 DEF S
<1>. QED
  BY <1>4 DEF Iterates

===============================================================================
