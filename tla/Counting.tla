-------------------------------- MODULE Counting --------------------------------
(***************************************************************************)
(* Lemmas about natural numbers and finite sets on which the proofs of     *)
(* several components rest: the least element, induction over a set of     *)
(* numbers, and the places of the elements of an ordered finite set.       *)
(***************************************************************************)
EXTENDS Integers, FiniteSets, FiniteSetTheorems, WellFoundedInduction, TLAPS

LEMMA LeastExists ==
    ASSUME NEW S, S \subseteq Nat, S # {}
    PROVE  \E i \in S : \A j \in S : i <= j
<1> DEFINE less == {pair \in Nat \X Nat : pair[1] < pair[2]}
<1>1. IsWellFoundedOn(less, Nat)
    BY NatLessThanWellFounded DEF OpToRel
<1>2. PICK i \in S : \A j \in S : <<j, i>> \notin less
    BY <1>1, WFMin
<1>3. ASSUME NEW j \in S PROVE i <= j
  <2>1. i \in Nat /\ j \in Nat /\ ~ (j < i)
    BY <1>2
  <2> QED
    BY <2>1
<1> QED
    BY <1>3

(* Induction, over a set instead of a predicate.                           *)
LEMMA InductionOverSet ==
    ASSUME NEW S, NEW first \in Nat, first \in S,
           \A n \in Nat : n >= first /\ n \in S => n + 1 \in S
    PROVE  \A n \in Nat : n >= first => n \in S
<1> DEFINE missing == {n \in Nat : n >= first /\ n \notin S}
<1> SUFFICES ASSUME missing # {} PROVE FALSE
    OBVIOUS
<1>1. PICK m \in missing : \A n \in missing : m <= n
    BY LeastExists
<1>2. m \in Nat /\ m # first /\ m >= first /\ m \notin S
    OBVIOUS
<1>3. m - 1 \in Nat /\ m - 1 >= first /\ m - 1 \notin missing
    BY <1>1, <1>2
<1>4. m - 1 \in S
    BY <1>3
<1>5. (m - 1) + 1 \in S
    BY <1>3, <1>4
<1> QED
    BY <1>2, <1>5

-----------------------------------------------------------------------------
(* The place of an element of a finite set under a strict total order is   *)
(* the number of elements before it: every place below the size of the set *)
(* is taken, and those before have lower places.                           *)
Orders(R, S) ==
    /\ \A i \in S : <<i, i>> \notin R
    /\ \A i, j, k \in S : <<i, j>> \in R /\ <<j, k>> \in R => <<i, k>> \in R
    /\ \A i, j \in S : i # j => <<i, j>> \in R \/ <<j, i>> \in R
Before(R, S, i) == {j \in S : <<j, i>> \in R}
Place(R, S, i) == Cardinality(Before(R, S, i))

LEMMA PlaceIsNumber ==
    ASSUME NEW S, NEW R, IsFiniteSet(S), Orders(R, S), NEW i \in S
    PROVE  /\ Cardinality(S) \in Nat /\ IsFiniteSet(Before(R, S, i))
           /\ Place(R, S, i) \in Nat /\ Place(R, S, i) < Cardinality(S)
<1>1. Before(R, S, i) \in SUBSET S /\ Before(R, S, i) # S
    BY DEF Before, Orders
<1>2. /\ IsFiniteSet(Before(R, S, i)) /\ Cardinality(Before(R, S, i)) <= Cardinality(S)
      /\ Cardinality(S) = Cardinality(Before(R, S, i)) => S = Before(R, S, i)
    BY <1>1, FS_Subset
<1>3. Cardinality(S) \in Nat /\ Cardinality(Before(R, S, i)) \in Nat
    BY <1>2, FS_CardinalityType
<1> QED
    BY <1>1, <1>2, <1>3 DEF Place

LEMMA PlacesKeepOrder ==
    ASSUME NEW S, NEW R, IsFiniteSet(S), Orders(R, S), NEW i \in S, NEW j \in S, <<i, j>> \in R
    PROVE  Place(R, S, i) < Place(R, S, j)
<1>1. Before(R, S, i) \in SUBSET Before(R, S, j)
    BY DEF Before, Orders
<1>2. i \in Before(R, S, j) /\ i \notin Before(R, S, i)
    BY DEF Before, Orders
<1>3. IsFiniteSet(Before(R, S, j))
    BY PlaceIsNumber
<1>4. /\ Cardinality(Before(R, S, i)) <= Cardinality(Before(R, S, j))
      /\ Cardinality(Before(R, S, j)) = Cardinality(Before(R, S, i))
            => Before(R, S, j) = Before(R, S, i)
    BY <1>1, <1>3, FS_Subset
<1>5. Place(R, S, i) \in Nat /\ Place(R, S, j) \in Nat
    BY PlaceIsNumber
<1> QED
    BY <1>2, <1>4, <1>5 DEF Place

LEMMA PlacesAreTaken ==
    ASSUME NEW S, NEW R, IsFiniteSet(S), Orders(R, S)
    PROVE  \A n \in 1..Cardinality(S) : \E i \in S : Place(R, S, i) = n - 1
<1> DEFINE f == [i \in S |-> Place(R, S, i) + 1]
           T == 1..Cardinality(S)
<1>1. Cardinality(S) \in Nat
    BY FS_CardinalityType
<1>2. f \in [S -> T]
    BY <1>1, PlaceIsNumber
<1>3. \A i, j \in S : f[i] = f[j] => i = j
  <2> SUFFICES ASSUME NEW i \in S, NEW j \in S, i # j PROVE f[i] # f[j]
    OBVIOUS
  <2>1. Place(R, S, i) \in Nat /\ Place(R, S, j) \in Nat
    BY PlaceIsNumber
  <2>2. <<i, j>> \in R \/ <<j, i>> \in R
    BY DEF Orders
  <2>3. Place(R, S, i) < Place(R, S, j) \/ Place(R, S, j) < Place(R, S, i)
    BY <2>2, PlacesKeepOrder
  <2> QED
    BY <2>1, <2>3
<1>4. f \in Injection(S, T)
    BY <1>2, <1>3 DEF Injection, IsInjective
<1>5. IsFiniteSet(T) /\ Cardinality(T) = Cardinality(S)
    BY <1>1, FS_Interval
<1>6. f \in Surjection(S, T)
    BY <1>4, <1>5, FS_Injection
<1>7. \A n \in T : \E i \in S : f[i] = n
    BY <1>6 DEF Surjection
<1> QED
  <2> SUFFICES ASSUME NEW n \in T PROVE \E i \in S : Place(R, S, i) = n - 1
    OBVIOUS
  <2>1. PICK i \in S : f[i] = n
    BY <1>7
  <2>2. Place(R, S, i) \in Nat /\ Place(R, S, i) + 1 = n
    BY <2>1, PlaceIsNumber
  <2> QED
    BY <2>2
===============================================================================
