------------------------------ MODULE NatFacts ------------------------------
(* The extrema of sets of natural numbers, which the scans over arrays     *)
(* choose, and division with a remainder.  The library states the          *)
(* well-foundedness of the natural numbers for an operator; here it is     *)
(* drawn from that of finite sets.                                         *)
EXTENDS Integers, FiniteSets, FiniteSetTheorems, TLAPS

\* A non-empty set of natural numbers has a least element.
LEMMA LeastNat ==
  ASSUME NEW S \in SUBSET Nat, S # {}
  PROVE  \E x \in S : \A y \in S : x <= y
<1> DEFINE Below(x) == 0 .. (x - 1)
           T == {Below(x) : x \in S}
<1>1. IsWellFoundedOn(StrictSubsetOrdering(Nat), FiniteSubsetsOf(Nat))
  BY FS_StrictSubsetOrderingWellFounded
<1>2. T \subseteq FiniteSubsetsOf(Nat)
  <2>1. ASSUME NEW x \in S PROVE Below(x) \in SUBSET Nat /\ IsFiniteSet(Below(x))
    <3>1. 0 \in Int /\ x - 1 \in Int
      OBVIOUS
    <3>2. IsFiniteSet(0 .. (x - 1))
      BY <3>1, FS_Interval
    <3> QED BY <3>2
  <2> HIDE DEF Below
  <2> QED BY <2>1, Zenon DEF FiniteSubsetsOf
<1>3. T # {}
  OBVIOUS
<1>4. PICK U \in T : \A V \in T : <<V, U>> \notin StrictSubsetOrdering(Nat)
  <2> HIDE DEF T
  <2> QED BY <1>1, <1>2, <1>3, WFMin, Zenon
<1>5. PICK x \in S : U = Below(x)
  BY <1>4
<1>6. ASSUME NEW y \in S, y < x PROVE FALSE
  <2>1. Below(y) \subseteq Below(x) /\ Below(y) # Below(x) /\ Below(x) \subseteq Nat
    <3>1. y \in Below(x) /\ y \notin Below(y)
      BY <1>6
    <3> QED BY <1>6, <3>1
  <2>2. Below(y) \in T /\ Below(x) \in T
    OBVIOUS
  <2> HIDE DEF T, Below
  <2>3. <<Below(y), Below(x)>> \in StrictSubsetOrdering(Nat)
    <3>1. Below(y) \in SUBSET Nat /\ Below(x) \in SUBSET Nat
      BY <2>1, Zenon
    <3> QED BY <2>1, <3>1 DEF StrictSubsetOrdering
  <2> QED BY <2>2, <2>3, <1>4, <1>5
<1> QED BY <1>6

\* A non-empty set of natural numbers below a bound has a greatest element.
LEMMA GreatestNat ==
  ASSUME NEW b \in Nat, NEW S \in SUBSET (0 .. b), S # {}
  PROVE  \E x \in S : \A y \in S : y <= x
<1> DEFINE Gap == {b - x : x \in S}
<1>1. Gap \in SUBSET Nat /\ Gap # {}
  <2>1. \A x \in S : b - x \in Nat
    OBVIOUS
  <2>2. Gap \subseteq Nat
    BY <2>1
  <2>3. Gap # {}
    OBVIOUS
  <2> QED BY <2>2, <2>3
<1>2. PICK g \in Gap : \A h \in Gap : g <= h
  <2> HIDE DEF Gap
  <2> QED BY <1>1, LeastNat
<1>3. PICK x \in S : g = b - x
  BY <1>2
<1>4. ASSUME NEW y \in S PROVE y <= x
  <2>1. b - y \in Gap
    OBVIOUS
  <2> QED BY <1>2, <1>3, <2>1
<1> QED BY <1>4

\* A product with an integer that is at least two, or negative.
LEMMA Multiple ==
  ASSUME NEW m \in Nat \ {0}, NEW q \in Int
  PROVE  /\ m * q \in Int
         /\ q >= 2 => m * q >= 2 * m
         /\ q <= -1 => m * q <= -m
         /\ q <= -2 => m * q <= -(2 * m)
<1>1. m * q \in Int
  OBVIOUS
<1>2. ASSUME q >= 2 PROVE m * q >= 2 * m
  BY <1>2
<1>3. ASSUME q <= -1 PROVE m * q <= -m
  BY <1>3
<1>4. ASSUME q <= -2 PROVE m * q <= -(2 * m)
  BY <1>4
<1> QED BY <1>1, <1>2, <1>3, <1>4

\* Division with a remainder.
LEMMA DivMod ==
  ASSUME NEW m \in Nat \ {0}, NEW x \in Int
  PROVE  /\ x \div m \in Int
         /\ x % m \in 0 .. m - 1
         /\ x = (m * (x \div m)) + (x % m)
OBVIOUS

\* The remainder of a number that is off by less than one m.
LEMMA Remainder ==
  ASSUME NEW m \in Nat \ {0}, NEW x \in Int, -m <= x, x < 2 * m
  PROVE  x % m = IF x < 0 THEN x + m ELSE IF x < m THEN x ELSE x - m
<1> DEFINE q == x \div m
           r == x % m
<1>1. q \in Int /\ r \in 0 .. m - 1 /\ x = (m * q) + r
  BY DivMod
<1> HIDE DEF q, r
<1>2. q \in {-1, 0, 1}
  BY <1>1, Multiple
<1>3. CASE q = -1
  BY <1>1, <1>3 DEF r
<1>4. CASE q = 0
  BY <1>1, <1>4 DEF r
<1>5. CASE q = 1
  BY <1>1, <1>5 DEF r
<1> QED BY <1>2, <1>3, <1>4, <1>5
=============================================================================
