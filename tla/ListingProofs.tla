--------------------------- MODULE ListingProofs ---------------------------
(* What a list keeps of another, and induction over the naturals, for the  *)
(* proofs about the components.                                            *)
EXTENDS Listing, FiniteSetTheorems, WellFoundedInduction, TLAPS

(* Every set of naturals that has a member has a least one: a statement    *)
(* that fails for some number fails for a first one.                       *)
LEMMA LeastNatural ==
  ASSUME NEW T, T \subseteq Nat, T # {}
  PROVE  \E n \in T : \A m \in T : n <= m
<1> DEFINE U == {0 .. n : n \in T}
<1>1. U \subseteq FiniteSubsetsOf(Nat)
  <2>1. ASSUME NEW n \in T
        PROVE  IsFiniteSet(0 .. n) /\ 0 .. n \in SUBSET Nat
    <3>1. n \in Nat
      OBVIOUS
    <3> QED
      BY <3>1, FS_Interval
  <2> QED
    BY <2>1 DEF FiniteSubsetsOf
<1>2. U # {}
  OBVIOUS
<1>3. \E x \in U : \A y \in U : ~ (<<y, x>> \in StrictSubsetOrdering(Nat))
  <2> HIDE DEF U
  <2> QED
    BY <1>1, <1>2, FS_StrictSubsetOrderingWellFounded, WFMin
<1>4. PICK n \in T :
        \A m \in T : ~ (<<0 .. m, 0 .. n>> \in StrictSubsetOrdering(Nat))
  BY <1>3
<1>5. ASSUME NEW m \in T, ~ (n <= m)
      PROVE  FALSE
  <2>1. m \in Nat /\ n \in Nat /\ m < n
    BY <1>5
  <2>2. n \in 0 .. n /\ n \notin 0 .. m
    BY <2>1
  <2>3. 0 .. m \subseteq 0 .. n /\ 0 .. m # 0 .. n
    BY <2>1, <2>2
  <2>4. 0 .. m \subseteq Nat /\ 0 .. n \subseteq Nat
    BY <2>1
  <2> QED
    BY <2>3, <2>4, <1>4 DEF StrictSubsetOrdering
<1> QED
  BY <1>4, <1>5

-----------------------------------------------------------------------------
(* How many of S come before i, i among them.                              *)
Place(S, i) == Cardinality({j \in S : j <= i})

-----------------------------------------------------------------------------
(* Ordered lists every member of a set of positions once, and keeps their  *)
(* order: Nth and Place are inverse to each other.                          *)
LEMMA PlacesAreInOrder ==
  ASSUME NEW n \in Nat, NEW S \in SUBSET (1 .. n)
  PROVE  /\ IsFiniteSet(S)
         /\ Cardinality(S) \in Nat
         /\ \A i \in S : Place(S, i) \in 1 .. Cardinality(S)
         /\ \A i, j \in S : i < j => Place(S, i) < Place(S, j)
<1>1. IsFiniteSet(1 .. n)
  BY FS_Interval
<1>2. IsFiniteSet(S)
  BY <1>1, FS_Subset
<1>3. Cardinality(S) \in Nat
  BY <1>2, FS_CardinalityType
<1>4. ASSUME NEW i \in S
      PROVE  /\ Place(S, i) \in 1 .. Cardinality(S)
             /\ IsFiniteSet({k \in S : k <= i})
  <2> DEFINE upTo == {k \in S : k <= i}
  <2>1. upTo \in SUBSET S /\ i \in upTo
    OBVIOUS
  <2>2. IsFiniteSet(upTo) /\ Cardinality(upTo) <= Cardinality(S)
    BY <1>2, <2>1, FS_Subset
  <2>3. Cardinality(upTo) \in Nat /\ Cardinality(upTo) # 0
    BY <2>1, <2>2, FS_CardinalityType, FS_EmptySet
  <2> QED
    BY <1>3, <2>2, <2>3 DEF Place
<1>5. ASSUME NEW i \in S, NEW j \in S, i < j
      PROVE  Place(S, i) < Place(S, j)
  <2> DEFINE low  == {k \in S : k <= i}
             high == {k \in S : k <= j}
  <2>1. low \in SUBSET high /\ j \in high /\ j \notin low
    <3>1. S \subseteq Int
      OBVIOUS
    <3>2. i \in Int /\ j \in Int /\ i < j /\ ~ (j <= i)
      BY <1>5, <3>1
    <3>3. ASSUME NEW k \in S, k <= i
          PROVE  k <= j
      BY <3>1, <3>2, <3>3
    <3>4. low \subseteq high
      BY <3>3
    <3>5. j \in high /\ j \notin low
      BY <3>1, <3>2
    <3> QED
      BY <3>4, <3>5
  <2>2. IsFiniteSet(high) /\ IsFiniteSet(low)
    BY <1>4
  <2>3. Cardinality(low) <= Cardinality(high) /\ Cardinality(low) # Cardinality(high)
    BY <2>1, <2>2, FS_Subset
  <2>4. Cardinality(low) \in Nat /\ Cardinality(high) \in Nat
    BY <2>2, FS_CardinalityType
  <2> QED
    BY <2>3, <2>4 DEF Place
<1> QED
  BY <1>2, <1>3, <1>4, <1>5

LEMMA NthIsInverse ==
  ASSUME NEW n \in Nat, NEW S \in SUBSET (1 .. n)
  PROVE  /\ \A i \in S : Nth(S, Place(S, i)) = i
         /\ \A k \in 1 .. Cardinality(S) : Nth(S, k) \in S /\ Place(S, Nth(S, k)) = k
<1> DEFINE places == 1 .. Cardinality(S)
           rank   == [i \in S |-> Place(S, i)]
<1>1. /\ IsFiniteSet(S)
      /\ Cardinality(S) \in Nat
      /\ \A i \in S : Place(S, i) \in places
      /\ \A i, j \in S : i < j => Place(S, i) < Place(S, j)
  BY PlacesAreInOrder
<1>2. \A i, j \in S : Place(S, i) = Place(S, j) => i = j
  BY <1>1
<1>3. rank \in Injection(S, places)
  BY <1>1, <1>2 DEF Injection, IsInjective
<1>4. IsFiniteSet(places) /\ Cardinality(places) = Cardinality(S)
  BY <1>1, FS_Interval
<1>5. rank \in Surjection(S, places)
  BY <1>3, <1>4, FS_Injection
<1>6. \A k \in places : \E i \in S : Place(S, i) = k
  BY <1>5 DEF Surjection
<1>7. \A k \in places : Nth(S, k) \in S /\ Place(S, Nth(S, k)) = k
  BY <1>6 DEF Nth, Place
<1>8. ASSUME NEW i \in S
      PROVE  Nth(S, Place(S, i)) = i
  BY <1>1, <1>2, <1>7
<1> QED
  BY <1>7, <1>8

(* What is selected are the members at the positions, in their order.      *)
LEMMA SelectedInOrder ==
  ASSUME NEW T, NEW s \in Seq(T), NEW S \in SUBSET DOMAIN s
  PROVE  LET picked == Selected(s, S) IN
         /\ picked \in Seq(T)
         /\ DOMAIN picked = 1 .. Len(picked)
         /\ Len(picked) = Cardinality(S)
         /\ \A k \in DOMAIN picked : Nth(S, k) \in S /\ picked[k] = s[Nth(S, k)]
         /\ \A i \in S : Place(S, i) \in DOMAIN picked /\ picked[Place(S, i)] = s[i]
         /\ \A j, k \in DOMAIN picked : j < k => Nth(S, j) < Nth(S, k)
<1> DEFINE picked == Selected(s, S)
<1>1. DOMAIN s = 1 .. Len(s) /\ Len(s) \in Nat /\ S \in SUBSET (1 .. Len(s))
  OBVIOUS
<1>2. /\ Cardinality(S) \in Nat
      /\ \A i \in S : Place(S, i) \in 1 .. Cardinality(S)
      /\ \A i, j \in S : i < j => Place(S, i) < Place(S, j)
  BY <1>1, PlacesAreInOrder
<1>3. /\ \A i \in S : Nth(S, Place(S, i)) = i
      /\ \A k \in 1 .. Cardinality(S) : Nth(S, k) \in S /\ Place(S, Nth(S, k)) = k
  BY <1>1, NthIsInverse
<1>4. /\ DOMAIN picked = 1 .. Cardinality(S)
      /\ \A k \in 1 .. Cardinality(S) : picked[k] = s[Nth(S, k)]
  BY DEF Selected
<1>5. picked \in [1 .. Cardinality(S) -> T]
  BY <1>1, <1>3 DEF Selected
<1>6. picked \in Seq(T) /\ Len(picked) = Cardinality(S)
  BY <1>2, <1>5
<1>7. \A i \in S : Place(S, i) \in DOMAIN picked /\ picked[Place(S, i)] = s[i]
  BY <1>2, <1>3, <1>4
<1>8. \A j, k \in DOMAIN picked : j < k => Nth(S, j) < Nth(S, k)
  <2> SUFFICES ASSUME NEW j \in 1 .. Cardinality(S), NEW k \in 1 .. Cardinality(S),
                      j < k, ~ (Nth(S, j) < Nth(S, k))
               PROVE  FALSE
    BY <1>4
  <2>1. Nth(S, j) \in Nat /\ Nth(S, k) \in Nat /\ Nth(S, j) \in S /\ Nth(S, k) \in S
    BY <1>1, <1>3
  <2>2. Nth(S, k) < Nth(S, j) \/ Nth(S, k) = Nth(S, j)
    BY <2>1
  <2>3. k < j \/ k = j
    BY <1>2, <1>3, <2>1, <2>2
  <2> QED
    BY <2>3
<1> QED
  BY <1>3, <1>4, <1>6, <1>7, <1>8
=============================================================================
