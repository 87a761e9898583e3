----------------------------- MODULE BtestProofs ----------------------------
(***************************************************************************)
(* Proofs about the test harness of the data lab, for every table of       *)
(* puzzles, word and float size, test range and time limit.                *)
(*                                                                         *)
(* PointsEarned is not inductive: that the functions agreed on everything  *)
(* when the loops end needs that at each call they have agreed on exactly  *)
(* the combinations before the present one (Tested), that the loops go to  *)
(* the next one in that order (NextPlaces) and end at the last             *)
(* (LastPlaces), and that a puzzle that was timed out has an error.  That  *)
(* the points are a sum needs that the puzzles to come have no verdict yet *)
(* (Accounts).  That what hangs is ended needs when an alarm is set, and   *)
(* for which call (AlarmSet), and what is said of stray ones that those    *)
(* come from puzzles that have ended (Left).                               *)
(***************************************************************************)
EXTENDS Btest, NatFacts, SequenceTheorems

-----------------------------------------------------------------------------
(* FlattenSeq.                                                             *)

\* The function that FlattenSeq is defined with does exist.
LEMMA FlattenWalk ==
  ASSUME NEW S, NEW n \in Nat \ {0}, NEW f \in [1 .. n -> Seq(S)]
  PROVE  \E g : /\ \A x \in 1 .. n : g[x] = IF x = 1 THEN f[x] ELSE g[x - 1] \o f[x]
                /\ FlattenSeq(f) = g[n]
<1> DEFINE Body(h, x) == IF x = 1 THEN f[x] ELSE h[x - 1] \o f[x]
           Walk(m) == \E h : h = [x \in 1 .. m |-> Body(h, x)]
<1>1. Walk(0)
  <2>1. 1 .. 0 = {}
    OBVIOUS
  <2>2. [x \in {} |-> {}] = [x \in 1 .. 0 |-> Body([y \in {} |-> {}], x)]
    BY <2>1, Zenon
  <2> QED BY <2>2
<1>2. ASSUME NEW m \in Nat, Walk(m) PROVE Walk(m + 1)
  <2>1. PICK h : h = [x \in 1 .. m |-> Body(h, x)]
    BY <1>2
  <2> DEFINE G == [x \in 1 .. m + 1 |-> IF x \in 1 .. m THEN h[x] ELSE Body(h, x)]
  <2>2. ASSUME NEW x \in 1 .. m + 1 PROVE G[x] = Body(G, x)
    <3>1. G[x] = Body(h, x)
      <4>1. x \in 1 .. m => h[x] = Body(h, x)
        BY <2>1, Zenon
      <4> HIDE DEF Body
      <4> QED BY <4>1
    <3>2. CASE x = 1
      BY <3>1, <3>2
    <3>3. CASE x # 1
      <4>1. x - 1 \in 1 .. m /\ x - 1 \in 1 .. m + 1
        BY <3>3
      <4>2. G[x - 1] = h[x - 1]
        BY <4>1
      <4> HIDE DEF G
      <4> QED BY <3>1, <3>3, <4>2
    <3> QED BY <3>2, <3>3
  <2>3. G = [x \in 1 .. m + 1 |-> Body(G, x)]
    <3> HIDE DEF Body
    <3> DEFINE g == G
    <3>1. g = [x \in 1 .. m + 1 |-> g[x]]
      OBVIOUS
    <3>2. \A x \in 1 .. m + 1 : g[x] = Body(g, x)
      BY <2>2
    <3> HIDE DEF g
    <3>3. g = [x \in 1 .. m + 1 |-> Body(g, x)]
      BY <3>1, <3>2, Zenon
    <3> QED BY <3>3 DEF g
  <2> HIDE DEF G, Body
  <2> QED BY <2>3
<1>3. \A m \in Nat : Walk(m)
  <2> HIDE DEF Walk
  <2> DEFINE Bad == {m \in Nat : ~Walk(m)}
  <2>1. SUFFICES ASSUME Bad # {} PROVE FALSE
    OBVIOUS
  <2>2. PICK m \in Bad : \A y \in Bad : m <= y
    <3>1. Bad \in SUBSET Nat
      OBVIOUS
    <3> HIDE DEF Bad
    <3> QED BY <2>1, <3>1, LeastNat
  <2>3. m \in Nat /\ ~Walk(m)
    BY <2>2
  <2>4. m # 0
    BY <1>1, <2>3
  <2>5. m - 1 \in Nat /\ (m - 1) + 1 = m /\ ~(m <= m - 1)
    BY <2>3, <2>4
  <2>6. Walk(m - 1)
    BY <2>2, <2>5
  <2> QED BY <1>2, <2>3, <2>5, <2>6
<1>4. Len(f) = n /\ f \in Seq(Seq(S))
  OBVIOUS
<1> DEFINE flatten[x \in 1 .. Len(f)] == IF x = 1 THEN f[x] ELSE flatten[x - 1] \o f[x]
<1>5. FlattenSeq(f) = flatten[Len(f)]
  BY <1>4 DEF FlattenSeq
<1>6. \E h : h = [x \in 1 .. Len(f) |-> IF x = 1 THEN f[x] ELSE h[x - 1] \o f[x]]
  BY <1>3, <1>4, Zenon
<1>7. flatten = [x \in 1 .. Len(f) |-> IF x = 1 THEN f[x] ELSE flatten[x - 1] \o f[x]]
  BY <1>6, Zenon
<1> HIDE DEF flatten
<1>8. \A x \in 1 .. n : flatten[x] = IF x = 1 THEN f[x] ELSE flatten[x - 1] \o f[x]
  BY <1>4, <1>7, Zenon
<1> QED BY <1>4, <1>5, <1>8

\* A set of numbers that has 1 and with each the next has all of them up to n.
LEMMA UpTo ==
  ASSUME NEW n \in Nat, NEW P \in SUBSET (1 .. n), n > 0 => 1 \in P,
         \A x \in P : x < n => x + 1 \in P
  PROVE  P = 1 .. n
<1> DEFINE Bad == (1 .. n) \ P
<1>1. SUFFICES ASSUME Bad # {} PROVE FALSE
  OBVIOUS
<1>2. PICK m \in Bad : \A y \in Bad : m <= y
  <2>1. Bad \in SUBSET Nat
    OBVIOUS
  <2> HIDE DEF Bad
  <2> QED BY <1>1, <2>1, LeastNat
<1>3. m \in 1 .. n /\ m \notin P
  BY <1>2
<1>4. m # 1
  BY <1>3
<1>5. m - 1 \in 1 .. n /\ (m - 1) + 1 = m /\ m - 1 < n /\ ~(m <= m - 1)
  BY <1>3, <1>4
<1>6. m - 1 \in P
  BY <1>2, <1>5
<1> QED BY <1>3, <1>5, <1>6

\* Sequence s has all the elements of t.
Has(s, t) == \A y \in 1 .. Len(t) : \E z \in 1 .. Len(s) : s[z] = t[y]

\* FlattenSeq gives a sequence of what the sequences hold, with all of the first, and not
\* longer than they are together.
LEMMA Flattened ==
  ASSUME NEW S, NEW n \in Nat \ {0}, NEW f \in [1 .. n -> Seq(S)], NEW c \in Nat,
         \A x \in 1 .. n : Len(f[x]) <= c
  PROVE  /\ FlattenSeq(f) \in Seq(S)
         /\ Len(FlattenSeq(f)) <= c * n
         /\ Has(FlattenSeq(f), f[1])
<1>1. PICK g : /\ \A x \in 1 .. n : g[x] = IF x = 1 THEN f[x] ELSE g[x - 1] \o f[x]
               /\ FlattenSeq(f) = g[n]
  BY FlattenWalk
<1> DEFINE Good(s, m) == /\ s \in Seq(S) /\ Len(s) <= c * m
                         /\ \A y \in 1 .. Len(f[1]) : y <= Len(s) /\ s[y] = f[1][y]
           P == {x \in 1 .. n : Good(g[x], x)}
<1>2. 1 \in 1 .. n /\ n \in 1 .. n /\ \A x \in 1 .. n : f[x] \in Seq(S) /\ Len(f[x]) \in Nat
  OBVIOUS
<1>3. 1 \in P
  <2>1. g[1] = f[1] /\ c * 1 = c
    BY <1>1, <1>2
  <2> HIDE DEF P
  <2>2. Good(g[1], 1)
    BY <1>2, <2>1
  <2> QED BY <1>2, <2>2 DEF P
<1>4. ASSUME NEW x \in P, x < n PROVE x + 1 \in P
  <2>1. x \in 1 .. n /\ Good(g[x], x) /\ x + 1 \in 1 .. n
    BY <1>4
  <2> DEFINE s == g[x]
             t == f[x + 1]
             r == g[x + 1]
  <2>2. r = s \o t
    <3>1. (x + 1) - 1 = x /\ x + 1 # 1
      BY <2>1
    <3> QED BY <1>1, <2>1, <3>1
  <2>3. s \in Seq(S) /\ t \in Seq(S) /\ Len(s) \in Nat /\ Len(t) \in Nat /\ Len(t) <= c
    BY <1>2, <2>1
  <2>4. /\ r \in Seq(S) /\ Len(r) = Len(s) + Len(t)
        /\ \A y \in 1 .. Len(s) + Len(t) : r[y] = IF y <= Len(s) THEN s[y] ELSE t[y - Len(s)]
    <3> HIDE DEF r, s, t
    <3> QED BY <2>2, <2>3, ConcatProperties
  <2>5. c * (x + 1) = c * x + c /\ c * x \in Int
    BY <2>1
  <2>6. Len(s) <= c * x /\ \A y \in 1 .. Len(f[1]) : y <= Len(s) /\ s[y] = f[1][y]
    BY <2>1
  <2>7. Good(r, x + 1)
    <3> HIDE DEF r, s, t, P
    <3>1. Len(r) <= c * (x + 1)
      <4> DEFINE v == c * x
                 w == c * (x + 1)
      <4> HIDE DEF v, w
      <4>1. v \in Int /\ w = v + c /\ Len(s) <= v
        BY <2>5, <2>6 DEF v, w
      <4>2. Len(r) <= w
        BY <2>3, <2>4, <4>1
      <4> QED BY <4>2 DEF w
    <3>2. ASSUME NEW y \in 1 .. Len(f[1]) PROVE y <= Len(r) /\ r[y] = f[1][y]
      BY <1>2, <2>3, <2>4, <2>6
    <3> QED BY <2>4, <3>1, <3>2
  <2> QED BY <2>1, <2>7
<1>5. P = 1 .. n
  <2>1. P \in SUBSET (1 .. n)
    OBVIOUS
  <2> HIDE DEF P
  <2> QED BY <1>3, <1>4, <2>1, UpTo
<1>6. Good(g[n], n)
  BY <1>2, <1>5
<1>7. \A y \in 1 .. Len(f[1]) : y \in 1 .. Len(g[n]) /\ g[n][y] = f[1][y]
  <2>1. f[1] \in Seq(S) /\ g[n] \in Seq(S)
    BY <1>2, <1>6
  <2>2. \A y \in 1 .. Len(f[1]) : y <= Len(g[n]) /\ g[n][y] = f[1][y]
    BY <1>6
  <2> HIDE DEF P
  <2> QED BY <2>1, <2>2
<1>8. Has(g[n], f[1])
  BY <1>7, Zenon DEF Has
<1> QED BY <1>1, <1>6, <1>8

-----------------------------------------------------------------------------
(* gen_vals.                                                               *)

\* What the table of puzzles says of a range: it is made of ints, and gen_vals can do it.
LEMMA RangeFacts ==
  ASSUME NEW t \in DOMAIN TestSet, NEW a \in 1 .. TestSet[t].args
  PROVE  LET min == TestSet[t].ranges[a][1]
             max == TestSet[t].ranges[a][2]
         IN  /\ min \in Int /\ max \in Int /\ TMin <= min /\ min <= max /\ max <= TMax
             /\ ~(min = 1 /\ max = 1) =>
                  /\ max - MAX_TEST_VALS >= TMin
                  /\ max - min <= MAX_TEST_VALS => max < TMax /\ max - min # MAX_TEST_VALS
<1> DEFINE rs == TestSet[t].ranges
           range == rs[a]
<1>1. /\ TestSet[t] \in Puzzles /\ TestSet[t].args <= Len(rs)
      /\ TMin <= range[1] /\ range[1] <= range[2] /\ range[2] <= TMax
      /\ range = <<1, 1>> \/ Computable(range)
  BY TestSetAssumption
<1>2. rs \in Seq(Int \X Int) /\ TestSet[t].args \in 0 .. 3
  BY <1>1 DEF Puzzles
<1>3. range \in Int \X Int
  <2>1. rs \in Seq(Int \X Int) /\ a \in 1 .. Len(rs)
    BY <1>1, <1>2
  <2> HIDE DEF rs
  <2> QED BY <2>1, ElementOfSeq
<1> HIDE DEF range
<1>4. range[1] \in Int /\ range[2] \in Int
  BY <1>3
<1>5. range = <<1, 1>> => range[1] = 1 /\ range[2] = 1
  OBVIOUS
<1> QED BY <1>1, <1>4, <1>5 DEF Computable, range

\* No int overflows on the way to the values.
LEMMA NoOverflow ==
  ASSUME NEW t \in DOMAIN TestSet, NEW a \in 1 .. TestSet[t].args,
         NEW range \in 1 .. TEST_RANGE,
         ~(TestSet[t].ranges[a][1] = 1 /\ TestSet[t].ranges[a][2] = 1)
  PROVE  Computed(TestSet[t].ranges[a][1], TestSet[t].ranges[a][2], range) \subseteq TMin .. TMax
<1> DEFINE min == TestSet[t].ranges[a][1]
           max == TestSet[t].ranges[a][2]
<1>1. /\ min \in Int /\ max \in Int /\ TMin <= min /\ min <= max /\ max <= TMax
      /\ max - MAX_TEST_VALS >= TMin
      /\ max - min <= MAX_TEST_VALS => max < TMax
  BY RangeFacts
<1> HIDE DEF min, max
<1>2. /\ MAX_TEST_VALS \in Nat /\ TEST_RANGE \in Nat /\ MAX_TEST_VALS >= 13 * TEST_RANGE
      /\ range \in Nat \ {0} /\ range <= TEST_RANGE
  BY BtestAssumption
<1>3. sign \in Int /\ TMin = -sign /\ TMax = sign - 1
  <2>1. sign \in Int
    BY BtestPowers
  <2> QED BY <2>1 DEF TMin, TMax, sign
<1>4. max - MAX_TEST_VALS \in TMin .. TMax
  BY <1>1, <1>2, <1>3
<1>5. CASE max - MAX_TEST_VALS <= min
  <2>1. min .. max + 1 \subseteq TMin .. TMax
    BY <1>1, <1>2, <1>3, <1>5
  <2> QED BY <1>4, <1>5, <2>1 DEF Computed, min, max
<1>6. CASE ~(max - MAX_TEST_VALS <= min)
  <2>1. ASSUME NEW n \in 0 .. range - 1
        PROVE  {min + n, max - n, n, -n, n + 1} \subseteq TMin .. TMax
    BY <1>1, <1>2, <1>3, <1>6
  <2>2. UNION {{min + n, max - n, n, -n, n + 1} : n \in 0 .. range - 1} \subseteq TMin .. TMax
    BY <2>1
  <2> QED BY <1>4, <1>6, <2>2, Zenon DEF Computed, min, max
<1> QED BY <1>5, <1>6

\* A test range is from 1 to TEST_RANGE.
LEMMA TestRangeTyped ==
  ASSUME NEW n \in 0 .. 3
  PROVE  TestRange(n) \in 1 .. TEST_RANGE
<1> DEFINE S == {r \in 0 .. TEST_RANGE : r >= 1 /\ Power(r, n) <= TEST_RANGE}
<1>1. TEST_RANGE \in Nat /\ TEST_RANGE >= 4
  BY BtestAssumption
<1>2. 1 \in S
  BY <1>1 DEF Power
<1>3. PICK r \in S : \A q \in S : q <= r
  <2>1. S \in SUBSET (0 .. TEST_RANGE) /\ S # {}
    BY <1>2
  <2> HIDE DEF S
  <2> QED BY <1>1, <2>1, GreatestNat
<1>4. r \in 1 .. TEST_RANGE /\ Power(r, n) <= TEST_RANGE
  BY <1>3
<1>5. Power(r + 1, n) \in Int /\ Power(r + 1, n) >= r + 1
  <2> DEFINE q == r + 1
  <2>1. q \in Nat /\ q >= 1
    BY <1>4
  <2> HIDE DEF q
  <2>2. q * q \in Nat /\ q * q >= q
    BY <2>1
  <2>3. q * q * q \in Nat /\ q * q * q >= q * q
    BY <2>1, <2>2
  <2>4. Power(q, n) \in Int /\ Power(q, n) >= q
    BY <2>1, <2>2, <2>3 DEF Power
  <2> QED BY <2>4 DEF q
<1>6. Power(r + 1, n) > TEST_RANGE
  <2>1. CASE r = TEST_RANGE
    BY <1>1, <1>5, <2>1
  <2>2. CASE r # TEST_RANGE
    <3>1. r + 1 \in 0 .. TEST_RANGE /\ r + 1 >= 1 /\ ~(r + 1 <= r)
      BY <1>1, <1>4, <2>2
    <3>2. r + 1 \notin S
      BY <1>3, <3>1
    <3> QED BY <1>1, <1>5, <3>1, <3>2
  <2> QED BY <2>1, <2>2
<1>7. \E q \in 1 .. TEST_RANGE : Power(q, n) <= TEST_RANGE /\ Power(q + 1, n) > TEST_RANGE
  BY <1>4, <1>6
<1> QED BY <1>7 DEF TestRange

\* A random value lies between the two bounds, rounded towards zero as it is.
LEMMA RandomVal ==
  ASSUME NEW min \in Int, NEW max \in Int, min <= max, NEW weight \in 0 .. 100
  PROVE  random_val(min, max, weight) \in min .. max
<1> DEFINE x == (min * (100 - weight)) + (max * weight)
<1>1. x \in Int /\ 100 * min <= x /\ x <= 100 * max
  <2> DEFINE d == max - min
             e == d * weight
  <2>1. d \in Nat /\ e \in Nat /\ e <= d * 100
    <3> DEFINE u == 100 - weight
    <3>1. d \in Nat /\ u \in Nat /\ d * u \in Nat /\ d * weight \in Nat
      OBVIOUS
    <3>2. d * 100 = d * weight + d * u
      OBVIOUS
    <3> HIDE DEF d, u
    <3> QED BY <3>1, <3>2
  <2>2. x = 100 * min + e
    OBVIOUS
  <2>3. d * 100 = 100 * max - 100 * min
    OBVIOUS
  <2> HIDE DEF d, e, x
  <2> QED BY <2>1, <2>2, <2>3
<1> HIDE DEF x
<1>2. CASE x >= 0
  <2>1. x \div 100 \in Int /\ x = (100 * (x \div 100)) + (x % 100) /\ x % 100 \in 0 .. 99
    BY <1>1
  <2>2. x \div 100 \in min .. max
    BY <1>1, <2>1
  <2> QED BY <1>2, <2>2 DEF random_val, Truncated, x
<1>3. CASE ~(x >= 0)
  <2> DEFINE y == -x
  <2>1. y \in Int /\ -(100 * max) <= y /\ y <= -(100 * min)
    BY <1>1
  <2> HIDE DEF y
  <2>2. y \div 100 \in Int /\ y = (100 * (y \div 100)) + (y % 100) /\ y % 100 \in 0 .. 99
    BY <2>1
  <2>3. -(y \div 100) \in min .. max
    BY <2>1, <2>2
  <2> QED BY <1>3, <2>3 DEF random_val, Truncated, x, y
<1> QED BY <1>2, <1>3

\* What ValuesFit asks of the values s of an argument with this range.
Fits(s, min, max) ==
  LET tried == {s[k] : k \in DOMAIN s}
  IN  /\ Len(s) <= MAX_TEST_VALS
      /\ IF min = 1 /\ max = 1
         THEN /\ {0, sign, one, smallest_norm, inf, sign + inf, nan} \subseteq tried
              /\ tried \subseteq 0 .. (2 * sign) - 1
         ELSE /\ {min, max} \cup ({0} \cap min .. max) \subseteq tried
              /\ tried \subseteq min .. max

\* All of a range that is small.
LEMMA ExhaustiveFits ==
  ASSUME NEW min \in Int, NEW max \in Int, min <= max, max - min # MAX_TEST_VALS,
         max - MAX_TEST_VALS <= min, ~(min = 1 /\ max = 1)
  PROVE  /\ Exhaustive(min, max) \in Seq(Int) /\ Len(Exhaustive(min, max)) \in Nat \ {0}
         /\ Fits(Exhaustive(min, max), min, max)
<1> DEFINE s == Exhaustive(min, max)
           n == (max - min) + 1
<1>1. MAX_TEST_VALS \in Nat
  BY BtestAssumption
<1>2. n \in Nat \ {0} /\ n <= MAX_TEST_VALS
  BY <1>1
<1>3. s = [x \in 1 .. n |-> (min + x) - 1]
  BY DEF Exhaustive
<1> HIDE DEF s
<1>4. s \in Seq(Int) /\ Len(s) = n /\ DOMAIN s = 1 .. n
  BY <1>2, <1>3
<1>5. {s[x] : x \in DOMAIN s} = min .. max
  <2>1. ASSUME NEW x \in 1 .. n PROVE s[x] \in min .. max
    BY <1>3
  <2>2. ASSUME NEW y \in min .. max PROVE (y - min) + 1 \in 1 .. n /\ s[(y - min) + 1] = y
    BY <1>3
  <2> HIDE DEF n
  <2> QED BY <1>4, <2>1, <2>2
<1>6. {min, max} \cup ({0} \cap min .. max) \subseteq min .. max
  OBVIOUS
<1> HIDE DEF n
<1>7. Fits(s, min, max)
  BY <1>2, <1>4, <1>5, <1>6, Zenon DEF Fits
<1> QED BY <1>2, <1>4, <1>7 DEF s

\* Sequence t has the elements of a after its first m.
HasAfter(t, m, a) == \A x \in 1 .. Len(a) : t[m + x] = a[x]

\* Sequence t is the four put together.
Joined(t, a, b, c, d) == t = a \o b \o c \o d

\* Three concatenations.
LEMMA FourParts ==
  ASSUME NEW S, NEW a \in Seq(S), NEW b \in Seq(S), NEW c \in Seq(S), NEW d \in Seq(S),
         NEW t, Joined(t, a, b, c, d)
  PROVE  /\ t \in Seq(S)
         /\ Len(t) = Len(a) + Len(b) + Len(c) + Len(d)
         /\ HasAfter(t, 0, a) /\ HasAfter(t, Len(a), b)
<1> DEFINE ab == a \o b
           abc == ab \o c
           abcd == abc \o d
<1>1. Len(a) \in Nat /\ Len(b) \in Nat /\ Len(c) \in Nat /\ Len(d) \in Nat
  OBVIOUS
<1>2. /\ ab \in Seq(S) /\ Len(ab) = Len(a) + Len(b)
      /\ \A x \in 1 .. Len(a) + Len(b) : ab[x] = IF x <= Len(a) THEN a[x] ELSE b[x - Len(a)]
  BY ConcatProperties
<1> HIDE DEF ab
<1>3. /\ abc \in Seq(S) /\ Len(abc) = Len(ab) + Len(c)
      /\ \A x \in 1 .. Len(ab) + Len(c) : abc[x] = IF x <= Len(ab) THEN ab[x] ELSE c[x - Len(ab)]
  <2>1. ab \in Seq(S)
    BY <1>2
  <2> QED BY <2>1, ConcatProperties, Zenon
<1> HIDE DEF abc
<1>4. /\ abcd \in Seq(S) /\ Len(abcd) = Len(abc) + Len(d)
      /\ \A x \in 1 .. Len(abc) + Len(d) :
           abcd[x] = IF x <= Len(abc) THEN abc[x] ELSE d[x - Len(abc)]
  <2>1. abc \in Seq(S)
    BY <1>3
  <2> QED BY <2>1, ConcatProperties, Zenon
<1> HIDE DEF abcd
<1>5. \A x \in 1 .. Len(a) : abcd[x] = a[x]
  BY <1>1, <1>2, <1>3, <1>4
<1>6. \A x \in 1 .. Len(b) : abcd[Len(a) + x] = b[x]
  <2>1. ASSUME NEW x \in 1 .. Len(b) PROVE abcd[Len(a) + x] = b[x]
    <3> DEFINE y == Len(a) + x
    <3>1. y \in 1 .. Len(a) + Len(b) /\ ~(y <= Len(a)) /\ y - Len(a) = x
      BY <1>1
    <3> HIDE DEF y
    <3>2. abcd[y] = abc[y] /\ abc[y] = ab[y] /\ ab[y] = b[x]
      BY <1>1, <1>2, <1>3, <1>4, <3>1
    <3> QED BY <3>2 DEF y
  <2> QED BY <2>1
<1>7. t = abcd
  BY DEF abcd, abc, ab, Joined
<1>8. HasAfter(t, 0, a)
  <2>1. \A x \in 1 .. Len(a) : 0 + x = x
    BY <1>1
  <2> QED BY <1>5, <1>7, <2>1 DEF HasAfter
<1>9. HasAfter(t, Len(a), b)
  BY <1>6, <1>7, Zenon DEF HasAfter
<1>10. Len(t) = Len(a) + Len(b) + Len(c) + Len(d)
  BY <1>1, <1>2, <1>3, <1>4, <1>7
<1> QED BY <1>4, <1>7, <1>8, <1>9, <1>10

\* Samples of a range that is large.
LEMMA SampledFits ==
  ASSUME NEW min \in Int, NEW max \in Int, ~(max - MAX_TEST_VALS <= min), ~(min = 1 /\ max = 1),
         NEW range \in 1 .. TEST_RANGE, NEW weights \in [1 .. range -> Weights]
  PROVE  /\ Sampled(min, max, range, weights) \in Seq(Int)
         /\ Len(Sampled(min, max, range, weights)) \in Nat \ {0}
         /\ Fits(Sampled(min, max, range, weights), min, max)
<1> DEFINE S == min .. max
           Ends(n) == <<min + n, max - n>>
           Up(n) == IF min <= n /\ n <= max THEN <<n>> ELSE <<>>
           Down(n) == IF min <= -n /\ -n <= max THEN <<-n>> ELSE <<>>
           Random(x) == <<random_val(min, max, weights[x])>>
           item(x) == Ends(x - 1) \o Up(x - 1) \o Down(x - 1) \o Random(x)
           f == [x \in 1 .. range |-> item(x)]
           s == FlattenSeq(f)
<1>1. /\ MAX_TEST_VALS \in Nat /\ TEST_RANGE \in Nat /\ MAX_TEST_VALS >= 13 * TEST_RANGE
      /\ range \in Nat \ {0} /\ range <= TEST_RANGE
  BY BtestAssumption
<1>2. min <= max /\ max - min >= range
  BY <1>1
<1>3. ASSUME NEW x \in 1 .. range
      PROVE  /\ Ends(x - 1) \in Seq(S) /\ Len(Ends(x - 1)) = 2
             /\ Up(x - 1) \in Seq(S) /\ Len(Up(x - 1)) \in 0 .. 1
             /\ Down(x - 1) \in Seq(S) /\ Len(Down(x - 1)) \in 0 .. 1
             /\ Random(x) \in Seq(S) /\ Len(Random(x)) = 1
  <2> DEFINE n == x - 1
  <2>1. n \in Nat /\ n < range
    OBVIOUS
  <2> HIDE DEF n
  <2>2. min + n \in S /\ max - n \in S
    BY <1>1, <1>2, <2>1
  <2>3. Ends(n) \in Seq(S) /\ Len(Ends(n)) = 2
    <3> HIDE DEF S
    <3> QED BY <2>2
  <2>4. Up(n) \in Seq(S) /\ Len(Up(n)) \in 0 .. 1
    <3>1. CASE n \in S
      <4>1. Up(n) = <<n>>
        BY <2>1, <3>1
      <4> HIDE DEF S
      <4>2. <<n>> \in Seq(S) /\ Len(<<n>>) = 1
        BY <3>1
      <4> QED BY <4>1, <4>2
    <3>2. CASE n \notin S
      <4>1. Up(n) = <<>>
        BY <2>1, <3>2
      <4> HIDE DEF S
      <4> QED BY <4>1
    <3> QED BY <3>1, <3>2
  <2>5. Down(n) \in Seq(S) /\ Len(Down(n)) \in 0 .. 1
    <3>1. CASE -n \in S
      <4>1. Down(n) = <<-n>>
        BY <2>1, <3>1
      <4> HIDE DEF S
      <4>2. <<-n>> \in Seq(S) /\ Len(<<-n>>) = 1
        BY <3>1
      <4> QED BY <4>1, <4>2
    <3>2. CASE -n \notin S
      <4>1. Down(n) = <<>>
        BY <2>1, <3>2
      <4> HIDE DEF S
      <4> QED BY <4>1
    <3> QED BY <3>1, <3>2
  <2>6. weights[x] \in 0 .. 100
    BY BtestAssumption
  <2>7. random_val(min, max, weights[x]) \in S
    BY <1>2, <2>6, RandomVal
  <2>8. Random(x) \in Seq(S) /\ Len(Random(x)) = 1
    <3> HIDE DEF S
    <3> QED BY <2>7
  <2> HIDE DEF Ends, Up, Down, Random, S
  <2> QED BY <2>3, <2>4, <2>5, <2>8 DEF n
<1>4. ASSUME NEW x \in 1 .. range
      PROVE  /\ item(x) \in Seq(S) /\ Len(item(x)) \in Nat /\ Len(item(x)) >= 2 /\ Len(item(x)) <= 5
             /\ item(x)[1] = min + (x - 1) /\ item(x)[2] = max - (x - 1)
             /\ Len(Up(x - 1)) = 1 => Len(item(x)) >= 3 /\ item(x)[3] = Up(x - 1)[1]
  <2> DEFINE a == Ends(x - 1)
             b == Up(x - 1)
             c == Down(x - 1)
             d == Random(x)
             t == a \o b \o c \o d
  <2>1. a[1] = min + (x - 1) /\ a[2] = max - (x - 1)
    OBVIOUS
  <2>2. /\ a \in Seq(S) /\ b \in Seq(S) /\ c \in Seq(S) /\ d \in Seq(S)
        /\ Len(a) = 2 /\ Len(b) \in 0 .. 1 /\ Len(c) \in 0 .. 1 /\ Len(d) = 1
    BY <1>3
  <2> HIDE DEF S, a, b, c, d
  <2>3. /\ t \in Seq(S) /\ Len(t) = Len(a) + Len(b) + Len(c) + Len(d)
        /\ HasAfter(t, 0, a) /\ HasAfter(t, Len(a), b)
    <3>1. a \in Seq(S) /\ b \in Seq(S) /\ c \in Seq(S) /\ d \in Seq(S)
      BY <2>2
    <3>2. Joined(t, a, b, c, d)
      BY DEF Joined
    <3> HIDE DEF t
    <3> QED BY <3>1, <3>2, FourParts
  <2> HIDE DEF t
  <2>4. Len(t) \in Nat /\ Len(t) >= 2 /\ Len(t) <= 5 /\ t[1] = a[1] /\ t[2] = a[2]
    <3>1. 1 \in 1 .. Len(a) /\ 2 \in 1 .. Len(a) /\ 0 + 1 = 1 /\ 0 + 2 = 2
      BY <2>2
    <3>2. t[0 + 1] = a[1] /\ t[0 + 2] = a[2]
      BY <2>3, <3>1, Zenon DEF HasAfter
    <3>3. Len(t) = Len(a) + Len(b) + Len(c) + Len(d)
      BY <2>3
    <3> DEFINE lb == Len(b)
               lc == Len(c)
    <3>4. lb \in 0 .. 1 /\ lc \in 0 .. 1 /\ Len(t) = 2 + lb + lc + 1
      BY <2>2, <3>3
    <3> HIDE DEF lb, lc
    <3>5. Len(t) \in Nat /\ Len(t) >= 2 /\ Len(t) <= 5
      BY <3>4
    <3> QED BY <3>1, <3>2, <3>5
  <2>5. ASSUME Len(b) = 1 PROVE Len(t) >= 3 /\ t[2 + 1] = b[1]
    <3>1. 1 \in 1 .. Len(b) /\ Len(a) = 2
      BY <2>2, <2>5
    <3>2. t[2 + 1] = b[1]
      BY <2>3, <3>1, Zenon DEF HasAfter
    <3> DEFINE lc == Len(c)
    <3>3. lc \in 0 .. 1 /\ Len(t) = 2 + 1 + lc + 1
      BY <2>2, <2>3, <2>5
    <3> HIDE DEF lc
    <3>4. Len(t) >= 3
      BY <3>3
    <3> QED BY <3>2, <3>4
  <2>6. t \in Seq(S) /\ 2 + 1 = 3
    BY <2>3
  <2>7. t = item(x)
    BY DEF a, b, c, d, t
  <2> HIDE DEF item
  <2> QED BY <2>1, <2>4, <2>5, <2>6, <2>7 DEF b
<1>5. f \in [1 .. range -> Seq(S)] /\ \A x \in 1 .. range : Len(f[x]) <= 5
  <2> HIDE DEF S, item
  <2> QED BY <1>4
<1>6. /\ s \in Seq(S) /\ Len(s) <= 5 * range
      /\ \A y \in 1 .. Len(f[1]) : \E z \in 1 .. Len(s) : s[z] = f[1][y]
  <2> HIDE DEF S, f
  <2> DEFINE c == 5
             n == range
  <2>1. c \in Nat /\ n \in Nat \ {0}
    BY <1>1
  <2>2. f \in [1 .. n -> Seq(S)] /\ \A x \in 1 .. n : Len(f[x]) <= c
    BY <1>5
  <2> HIDE DEF c, n
  <2>3. /\ s \in Seq(S) /\ Len(s) <= c * n
        /\ Has(s, f[1])
    BY <2>1, <2>2, Flattened, Zenon
  <2>4. \A y \in 1 .. Len(f[1]) : \E z \in 1 .. Len(s) : s[z] = f[1][y]
    BY <2>3, Zenon DEF Has
  <2> HIDE DEF s
  <2> QED BY <2>3, <2>4 DEF c, n
<1>7. Len(s) \in Nat /\ DOMAIN s = 1 .. Len(s) /\ \A z \in DOMAIN s : s[z] \in min .. max
  <2> HIDE DEF s
  <2> QED BY <1>6
<1>8. s \in Seq(Int)
  <2> HIDE DEF s
  <2> QED BY <1>6
<1>9. 1 \in 1 .. range /\ f[1] = item(1) /\ 1 - 1 = 0
  BY <1>1
<1>10. Len(item(1)) \in Nat /\ Len(item(1)) >= 2 /\ item(1)[1] = min /\ item(1)[2] = max
  <2>1. min + 0 = min /\ max - 0 = max
    OBVIOUS
  <2> HIDE DEF item
  <2> QED BY <1>4, <1>9, <2>1
<1>11. 0 \in min .. max => Len(item(1)) >= 3 /\ item(1)[3] = 0
  <2>1. ASSUME 0 \in min .. max PROVE Up(0) = <<0>>
    BY <2>1
  <2>2. Len(<<0>>) = 1 /\ <<0>>[1] = 0
    OBVIOUS
  <2> HIDE DEF item, Up
  <2> QED BY <1>4, <1>9, <2>1, <2>2
<1> HIDE DEF f, s, item, Ends, Up, Down, Random, S
<1>12. 1 \in 1 .. Len(f[1]) /\ 2 \in 1 .. Len(f[1]) /\ f[1][1] = min /\ f[1][2] = max
  BY <1>9, <1>10
<1>13. /\ \E z \in DOMAIN s : s[z] = min
       /\ \E z \in DOMAIN s : s[z] = max
  BY <1>6, <1>7, <1>12, Zenon
<1>14. ASSUME 0 \in min .. max PROVE \E z \in DOMAIN s : s[z] = 0
  <2>1. 3 \in 1 .. Len(f[1]) /\ f[1][3] = 0
    BY <1>9, <1>10, <1>11, <1>14
  <2> QED BY <1>6, <1>7, <2>1, Zenon
<1>15. Len(s) # 0 /\ Len(s) <= MAX_TEST_VALS
  BY <1>1, <1>6, <1>7, <1>13
<1> DEFINE tried == {s[z] : z \in DOMAIN s}
<1>16. {min, max} \cup ({0} \cap min .. max) \subseteq tried
  BY <1>13, <1>14
<1>17. tried \subseteq min .. max
  BY <1>7
<1>18. Fits(s, min, max)
  <2> HIDE DEF tried
  <2> QED BY <1>15, <1>16, <1>17, Zenon DEF Fits, tried
<1>19. s = Sampled(min, max, range, weights)
  BY DEF s, f, item, Ends, Up, Down, Random, Sampled
<1> QED BY <1>7, <1>8, <1>15, <1>18, <1>19

\* The floats that the others are computed from, in their order.
LEMMA FloatNumbers ==
  \E h \in Nat \ {0}, p \in Nat :
    /\ smallest_norm = 2 * h /\ p >= 2 * smallest_norm /\ sign = 2 * p
    /\ one = p - smallest_norm /\ inf = 2 * p - smallest_norm /\ nan = inf + h
    /\ largest_norm = 2 * p - 2 * smallest_norm
<1> DEFINE h == 2 ^ (Mantissa - 1)
           e == 2 ^ (W - 2 - Mantissa)
           p == e * smallest_norm
<1>1. h \in Nat \ {0} /\ smallest_norm = 2 * h /\ e \in Nat /\ e >= 2
      /\ sign = 2 * e * smallest_norm
  BY BtestPowers
<1>2. nan = inf + h /\ one = (e - 1) * smallest_norm
      /\ inf = sign - smallest_norm /\ largest_norm = inf - smallest_norm
  BY DEF nan, one, inf, largest_norm
<1> DEFINE sn == smallest_norm
<1>3. sn \in Nat /\ sn >= 1
  BY <1>1
<1> HIDE DEF h, e, sn
<1>4. e * sn \in Nat /\ e * sn >= 2 * sn
  BY <1>1, <1>3
<1>5. (e - 1) * sn = e * sn - sn /\ 2 * e * sn = 2 * (e * sn)
  BY <1>1, <1>3
<1>6. sign = 2 * p /\ one = p - smallest_norm
  BY <1>1, <1>2, <1>5 DEF sn
<1>7. p \in Nat /\ p >= 2 * smallest_norm /\ smallest_norm \in Nat
  BY <1>3, <1>4 DEF sn
<1> HIDE DEF p
<1>8. inf = 2 * p - smallest_norm /\ largest_norm = 2 * p - 2 * smallest_norm
  BY <1>2, <1>6, <1>7
<1> QED BY <1>1, <1>2, <1>6, <1>7, <1>8

\* The values for floats.
LEMMA FloatFits ==
  ASSUME NEW range \in 1 .. TEST_RANGE
  PROVE  /\ FloatVals(range) \in Seq(Int) /\ Len(FloatVals(range)) \in Nat \ {0}
         /\ Fits(FloatVals(range), 1, 1)
<1> DEFINE sn == smallest_norm
           r == IF range > sn THEN sn ELSE range
           S == 0 .. (2 * sign) - 1
           item(n) == <<n, sign + n,
                        smallest_norm + n, smallest_norm - n,
                        sign + smallest_norm + n, sign + smallest_norm - n,
                        one + n, one - n, sign + one + n, sign + one - n,
                        largest_norm - n, sign + largest_norm - n>>
           f == [x \in 1 .. r |-> item(x - 1)]
           a == FlattenSeq(f)
           b == <<inf, sign + inf, nan, sign + nan>>
           s == a \o b
<1>1. PICK h \in Nat \ {0}, p \in Nat :
        /\ smallest_norm = 2 * h /\ p >= 2 * smallest_norm /\ sign = 2 * p
        /\ one = p - smallest_norm /\ inf = 2 * p - smallest_norm /\ nan = inf + h
        /\ largest_norm = 2 * p - 2 * smallest_norm
  BY FloatNumbers
<1>2. /\ MAX_TEST_VALS \in Nat /\ TEST_RANGE \in Nat /\ MAX_TEST_VALS >= 13 * TEST_RANGE
      /\ TEST_RANGE >= 4
  BY BtestAssumption
<1>3. r \in Nat \ {0} /\ r <= sn /\ r <= TEST_RANGE /\ sn \in Nat
  BY <1>1, <1>2
<1> HIDE DEF r
<1>4. ASSUME NEW x \in 1 .. r PROVE item(x - 1) \in Seq(S) /\ Len(item(x - 1)) = 12
  <2> DEFINE n == x - 1
  <2>1. n \in Nat /\ n < sn
    BY <1>3
  <2> HIDE DEF n
  <2>2. n \in S /\ sign + n \in S /\ smallest_norm + n \in S /\ smallest_norm - n \in S
    BY <1>1, <2>1
  <2>3. /\ sign + smallest_norm + n \in S /\ sign + smallest_norm - n \in S
        /\ one + n \in S /\ one - n \in S /\ sign + one + n \in S /\ sign + one - n \in S
    BY <1>1, <2>1
  <2>4. largest_norm - n \in S /\ sign + largest_norm - n \in S
    BY <1>1, <2>1
  <2> HIDE DEF S
  <2>5. item(n) \in Seq(S) /\ Len(item(n)) = 12
    BY <2>2, <2>3, <2>4
  <2> HIDE DEF item
  <2> QED BY <2>5 DEF n
<1>5. f \in [1 .. r -> Seq(S)] /\ \A x \in 1 .. r : Len(f[x]) <= 12
  <2>1. \A x \in 1 .. r : f[x] = item(x - 1)
    BY Zenon
  <2> HIDE DEF S, item
  <2>2. f \in [1 .. r -> Seq(S)]
    BY <1>4, Zenon
  <2>3. ASSUME NEW x \in 1 .. r PROVE Len(f[x]) <= 12
    <3>1. Len(f[x]) = 12
      BY <1>4, <2>1
    <3> HIDE DEF f
    <3> QED BY <3>1
  <2> QED BY <2>2, <2>3
<1>6. a \in Seq(S) /\ Len(a) <= 12 * r /\ Has(a, f[1])
  <2> DEFINE c == 12
  <2>1. c \in Nat
    OBVIOUS
  <2>2. \A x \in 1 .. r : Len(f[x]) <= c
    BY <1>5
  <2> HIDE DEF f, S, c
  <2>3. a \in Seq(S) /\ Len(a) <= c * r /\ Has(a, f[1])
    BY <1>3, <1>5, <2>1, <2>2, Flattened, Zenon
  <2> QED BY <2>3 DEF c
<1>7. b \in Seq(S) /\ Len(b) = 4
  <2>1. inf \in S /\ sign + inf \in S /\ nan \in S /\ sign + nan \in S
    BY <1>1
  <2> HIDE DEF S
  <2> QED BY <2>1
<1>8. f[1] = item(0) /\ Len(item(0)) = 12
  <2>1. 1 \in 1 .. r /\ 1 - 1 = 0
    BY <1>3
  <2> HIDE DEF item
  <2> QED BY <1>4, <2>1
<1>9. /\ item(0)[1] = 0 /\ item(0)[2] = sign /\ item(0)[3] = smallest_norm /\ item(0)[7] = one
  <2>1. sign + 0 = sign /\ smallest_norm + 0 = smallest_norm /\ one + 0 = one
    BY <1>1
  <2> QED BY <2>1
<1>10. b[1] = inf /\ b[2] = sign + inf /\ b[3] = nan
  OBVIOUS
<1> HIDE DEF item, f, a, b
<1>11. /\ s \in Seq(S) /\ Len(s) = Len(a) + Len(b)
       /\ \A x \in 1 .. Len(a) + Len(b) : s[x] = IF x <= Len(a) THEN a[x] ELSE b[x - Len(a)]
  <2> HIDE DEF S
  <2>1. a \in Seq(S) /\ b \in Seq(S)
    BY <1>6, <1>7
  <2> QED BY <2>1, ConcatProperties, Zenon
<1>12. Len(a) \in Nat /\ DOMAIN s = 1 .. Len(s) /\ \A x \in DOMAIN s : s[x] \in S
  <2> HIDE DEF S, s
  <2> QED BY <1>6, <1>11
<1> HIDE DEF s
<1>13. Len(s) \in Nat /\ Len(s) # 0 /\ Len(s) <= MAX_TEST_VALS
  <2>1. Len(s) = Len(a) + 4 /\ Len(a) <= 12 * r /\ Len(a) \in Nat
    BY <1>6, <1>7, <1>11, <1>12
  <2> QED BY <1>2, <1>3, <2>1
<1> DEFINE tried == {s[x] : x \in DOMAIN s}
<1>14. \A y \in 1 .. 12 : item(0)[y] \in tried
  <2>1. ASSUME NEW y \in 1 .. 12 PROVE item(0)[y] \in tried
    <3>1. PICK z \in 1 .. Len(a) : a[z] = item(0)[y]
      BY <1>6, <1>8, Zenon DEF Has
    <3>2. z \in DOMAIN s /\ s[z] = a[z]
      BY <1>7, <1>11, <1>12
    <3> QED BY <3>1, <3>2
  <2> QED BY <2>1
<1>15. \A y \in 1 .. 4 : b[y] \in tried
  <2>1. ASSUME NEW y \in 1 .. 4 PROVE b[y] \in tried
    <3> DEFINE z == Len(a) + y
    <3>1. z \in 1 .. Len(a) + Len(b) /\ ~(z <= Len(a)) /\ z - Len(a) = y
      BY <1>7, <1>12
    <3> HIDE DEF z
    <3>2. z \in DOMAIN s /\ s[z] = b[y]
      BY <1>11, <1>12, <3>1
    <3> QED BY <3>2
  <2> QED BY <2>1
<1>16. 1 \in 1 .. 12 /\ 2 \in 1 .. 12 /\ 3 \in 1 .. 12 /\ 7 \in 1 .. 12
       /\ 1 \in 1 .. 4 /\ 2 \in 1 .. 4 /\ 3 \in 1 .. 4
  OBVIOUS
<1>17. tried \subseteq 0 .. (2 * sign) - 1
  BY <1>12
<1> HIDE DEF tried, S
<1>18. {0, sign, one, smallest_norm, inf, sign + inf, nan} \subseteq tried
  <2>1. 0 \in tried /\ sign \in tried /\ smallest_norm \in tried /\ one \in tried
    BY <1>9, <1>14, <1>16
  <2>2. inf \in tried /\ sign + inf \in tried /\ nan \in tried
    BY <1>10, <1>15, <1>16
  <2> QED BY <2>1, <2>2, Zenon
<1>19. Fits(s, 1, 1)
  BY <1>13, <1>17, <1>18, Zenon DEF Fits, tried
<1>20. s \in Seq(Int)
  <2>1. S \subseteq Int
    BY <1>1 DEF S
  <2>2. s \in Seq(S)
    BY <1>11
  <2> QED BY <2>1, <2>2, SeqMonotonic
<1>21. s = FloatVals(range)
  BY DEF s, a, b, f, item, r, FloatVals
<1> QED BY <1>13, <1>19, <1>20, <1>21

\* gen_vals, whatever the case: at least one value, and unless the value was given on the
\* command line those that ValuesFit asks for.
LEMMA GenVals ==
  ASSUME NEW t \in DOMAIN TestSet, NEW a \in 1 .. TestSet[t].args,
         NEW range \in 1 .. TEST_RANGE, NEW weights \in [1 .. range -> Weights],
         NEW s, s = gen_vals(TestSet[t].ranges[a][1], TestSet[t].ranges[a][2], range, weights, a)
  PROVE  /\ Len(s) \in Nat \ {0} /\ DOMAIN s = 1 .. Len(s)
         /\ a \notin DOMAIN fixed => Fits(s, TestSet[t].ranges[a][1], TestSet[t].ranges[a][2])
<1> DEFINE min == TestSet[t].ranges[a][1]
           max == TestSet[t].ranges[a][2]
<1>0. s = gen_vals(min, max, range, weights, a)
  OBVIOUS
<1>1. /\ MAX_TEST_VALS \in Nat /\ min \in Int /\ max \in Int /\ min <= max
      /\ ~(min = 1 /\ max = 1) /\ max - min <= MAX_TEST_VALS => max - min # MAX_TEST_VALS
  BY BtestAssumption, RangeFacts
<1> HIDE DEF min, max
<1>2. CASE a \in DOMAIN fixed
  <2>1. s = <<fixed[a]>>
    BY <1>0, <1>2 DEF gen_vals
  <2> QED BY <1>2, <2>1 DEF min, max
<1>3. CASE a \notin DOMAIN fixed
  <2>1. s \in Seq(Int) /\ Len(s) \in Nat \ {0} /\ Fits(s, min, max)
    <3>1. CASE min = 1 /\ max = 1
      <4>1. s = FloatVals(range)
        BY <1>0, <1>3, <3>1 DEF gen_vals
      <4> QED BY <3>1, <4>1, FloatFits, Zenon
    <3>2. CASE ~(min = 1 /\ max = 1) /\ max - MAX_TEST_VALS <= min
      <4>1. s = Exhaustive(min, max)
        BY <1>0, <1>3, <3>2 DEF gen_vals
      <4>2. max - min # MAX_TEST_VALS
        BY <1>1, <3>2
      <4> QED BY <1>1, <3>2, <4>1, <4>2, ExhaustiveFits, Zenon
    <3>3. CASE ~(min = 1 /\ max = 1) /\ ~(max - MAX_TEST_VALS <= min)
      <4>1. s = Sampled(min, max, range, weights)
        BY <1>0, <1>3, <3>3 DEF gen_vals
      <4> QED BY <1>1, <3>3, <4>1, SampledFits, Zenon
    <3> QED BY <3>1, <3>2, <3>3
  <2>2. DOMAIN s = 1 .. Len(s)
    BY <2>1
  <2> QED BY <2>1, <2>2 DEF min, max
<1> QED BY <1>2, <1>3

-----------------------------------------------------------------------------
(* The order of the nested loops.                                          *)

\* The combinations of places in the n sequences of v.
Combos(v, n) == {c \in [1 .. n -> Nat \ {0}] : \A a \in 1 .. n : c[a] <= Len(v[a])}
\* Combination c comes before d: the last place changes fastest.
Precedes(c, d, n) == \E a \in 1 .. n : c[a] < d[a] /\ \A b \in 1 .. a - 1 : c[b] = d[b]
\* Combination e is d with place a one further and those after it back at the start.
Advanced(e, d, a, n) ==
  e = [b \in 1 .. n |-> IF b = a THEN d[b] + 1 ELSE IF b > a THEN 1 ELSE d[b]]
\* The places after a are the last ones.
AtEnd(d, v, a, n) == \A b \in a + 1 .. n : d[b] = Len(v[b])
\* Those before d.
Tested(v, d, n) == {c \in Combos(v, n) : Precedes(c, d, n)}

\* Two combinations that differ do so first at one place.
LEMMA FirstDifference ==
  ASSUME NEW n \in Nat, NEW c \in [1 .. n -> Nat], NEW d \in [1 .. n -> Nat], c # d
  PROVE  \E a \in 1 .. n : c[a] # d[a] /\ \A b \in 1 .. a - 1 : c[b] = d[b]
<1> DEFINE D == {a \in 1 .. n : c[a] # d[a]}
<1>1. D \in SUBSET Nat
  OBVIOUS
<1>2. D # {}
  <2>1. c = [a \in 1 .. n |-> c[a]] /\ d = [a \in 1 .. n |-> d[a]]
    OBVIOUS
  <2>2. \E a \in 1 .. n : c[a] # d[a]
    BY <2>1, Zenon
  <2> QED BY <2>2
<1>3. PICK a \in D : \A b \in D : a <= b
  <2> HIDE DEF D
  <2> QED BY <1>1, <1>2, LeastNat
<1>4. a \in 1 .. n /\ c[a] # d[a]
  BY <1>3
<1>5. ASSUME NEW b \in 1 .. a - 1 PROVE c[b] = d[b]
  <2>1. b \in 1 .. n /\ ~(a <= b)
    BY <1>4
  <2> QED BY <1>3, <2>1
<1> QED BY <1>4, <1>5

\* From one combination the loops go to the next one.
LEMMA NextPlaces ==
  ASSUME NEW n \in Nat, NEW v, \A b \in 1 .. n : Len(v[b]) \in Nat,
         NEW d \in Combos(v, n), NEW a \in 1 .. n,
         d[a] < Len(v[a]), AtEnd(d, v, a, n),
         NEW e, Advanced(e, d, a, n)
  PROVE  /\ e \in Combos(v, n)
         /\ Tested(v, e, n) = Tested(v, d, n) \cup {d}
<1>1. /\ d \in [1 .. n -> Nat \ {0}] /\ \A b \in 1 .. n : d[b] <= Len(v[b])
      /\ \A b \in 1 .. n : d[b] \in Nat \ {0} /\ d[b] >= 1
  BY DEF Combos
<1>2. e \in [1 .. n -> Nat \ {0}]
  BY <1>1 DEF Advanced
<1>3. ASSUME NEW b \in 1 .. n PROVE e[b] <= Len(v[b])
  BY <1>1 DEF Advanced
<1>4. e \in Combos(v, n)
  BY <1>2, <1>3 DEF Combos
<1>5. /\ e[a] = d[a] + 1
      /\ \A b \in 1 .. a - 1 : b \in 1 .. n /\ e[b] = d[b]
      /\ \A b \in a + 1 .. n : b \in 1 .. n /\ e[b] = 1
  BY DEF Advanced
<1>6. ASSUME NEW c \in Combos(v, n), Precedes(c, d, n) \/ c = d PROVE Precedes(c, e, n)
  <2>1. c \in [1 .. n -> Nat \ {0}]
    BY DEF Combos
  <2>2. CASE c = d
    <3>1. c[a] < e[a] /\ \A b \in 1 .. a - 1 : c[b] = e[b]
      BY <1>1, <1>5, <2>2
    <3> QED BY <3>1 DEF Precedes
  <2>3. CASE Precedes(c, d, n)
    <3>1. PICK x \in 1 .. n : c[x] < d[x] /\ \A b \in 1 .. x - 1 : c[b] = d[b]
      BY <2>3 DEF Precedes
    <3>2. CASE x < a
      <4>1. c[x] < e[x] /\ \A b \in 1 .. x - 1 : c[b] = e[b]
        BY <1>5, <3>1, <3>2
      <4> QED BY <4>1 DEF Precedes
    <3>3. CASE x = a
      <4>1. c[a] < e[a] /\ \A b \in 1 .. a - 1 : c[b] = e[b]
        BY <1>1, <1>5, <2>1, <3>1, <3>3
      <4> QED BY <4>1 DEF Precedes
    <3>4. CASE x > a
      <4>1. a \in 1 .. x - 1 /\ \A b \in 1 .. a - 1 : b \in 1 .. x - 1
        BY <3>4
      <4>2. c[a] < e[a] /\ \A b \in 1 .. a - 1 : c[b] = e[b]
        BY <1>1, <1>5, <2>1, <3>1, <4>1
      <4> QED BY <4>2 DEF Precedes
    <3> QED BY <3>2, <3>3, <3>4
  <2> QED BY <1>6, <2>2, <2>3
<1>7. ASSUME NEW c \in Combos(v, n), Precedes(c, e, n), c # d PROVE Precedes(c, d, n)
  <2>1. c \in [1 .. n -> Nat \ {0}] /\ \A b \in 1 .. n : c[b] \in Nat \ {0} /\ c[b] <= Len(v[b])
    BY DEF Combos
  <2>2. PICK x \in 1 .. n : c[x] < e[x] /\ \A b \in 1 .. x - 1 : c[b] = e[b]
    BY <1>7 DEF Precedes
  <2>3. ~(x > a)
    BY <1>5, <2>1, <2>2
  <2>4. CASE x < a
    <3>1. c[x] < d[x] /\ \A b \in 1 .. x - 1 : c[b] = d[b]
      <4>1. x \in 1 .. a - 1 /\ \A b \in 1 .. x - 1 : b \in 1 .. a - 1
        BY <2>4
      <4>2. e[x] = d[x] /\ \A b \in 1 .. x - 1 : e[b] = d[b]
        BY <1>5, <4>1, Zenon
      <4> QED BY <2>2, <4>2
    <3> QED BY <3>1 DEF Precedes
  <2>5. CASE x = a
    <3>1. PICK y \in 1 .. n : c[y] # d[y] /\ \A b \in 1 .. y - 1 : c[b] = d[b]
      <4>1. c \in [1 .. n -> Nat] /\ d \in [1 .. n -> Nat]
        BY <1>1, <2>1
      <4> QED BY <1>7, <4>1, FirstDifference
    <3>2. c[a] <= d[a] /\ \A b \in 1 .. a - 1 : c[b] = d[b]
      <4>1. c[a] < d[a] + 1 /\ \A b \in 1 .. a - 1 : c[b] = e[b]
        BY <1>5, <2>2, <2>5
      <4>2. \A b \in 1 .. a - 1 : c[b] = d[b]
        BY <1>5, <4>1, Zenon
      <4>3. c[a] \in Nat /\ d[a] \in Nat
        BY <1>1, <2>1
      <4> QED BY <4>1, <4>2, <4>3
    <3>3. ~(y < a)
      BY <3>1, <3>2
    <3>4. c[y] < d[y]
      <4>1. CASE y = a
        BY <1>1, <2>1, <3>1, <3>2, <4>1
      <4>2. CASE y > a
        <5>1. y \in a + 1 .. n
          BY <4>2
        <5>2. d[y] = Len(v[y]) /\ c[y] <= Len(v[y])
          BY <2>1, <5>1 DEF AtEnd
        <5> QED BY <1>1, <2>1, <3>1, <5>2
      <4> QED BY <3>3, <4>1, <4>2
    <3> QED BY <3>1, <3>4 DEF Precedes
  <2> QED BY <2>3, <2>4, <2>5
<1>8. Tested(v, e, n) = Tested(v, d, n) \cup {d}
  BY <1>6, <1>7, Zenon DEF Tested
<1> QED BY <1>4, <1>8

\* When no loop can go on, all the others have been tested.
LEMMA LastPlaces ==
  ASSUME NEW n \in Nat, NEW v, \A a \in 1 .. n : Len(v[a]) \in Nat, NEW d \in Combos(v, n),
         \A a \in 1 .. n : AtEnd(d, v, a, n) => ~(d[a] < Len(v[a]))
  PROVE  Combos(v, n) = Tested(v, d, n) \cup {d}
<1>1. d \in [1 .. n -> Nat \ {0}] /\ \A b \in 1 .. n : d[b] \in Nat \ {0} /\ d[b] <= Len(v[b])
  BY DEF Combos
<1>2. \A a \in 1 .. n : d[a] = Len(v[a])
  <2> DEFINE D == {a \in 1 .. n : d[a] # Len(v[a])}
  <2>1. SUFFICES ASSUME D # {} PROVE FALSE
    OBVIOUS
  <2>2. PICK a \in D : \A b \in D : b <= a
    <3>1. D \in SUBSET (0 .. n)
      OBVIOUS
    <3> HIDE DEF D
    <3> QED BY <2>1, <3>1, GreatestNat
  <2>3. a \in 1 .. n /\ d[a] # Len(v[a])
    BY <2>2
  <2>4. ASSUME NEW b \in a + 1 .. n PROVE d[b] = Len(v[b])
    <3>1. b \in 1 .. n /\ ~(b <= a)
      BY <2>3
    <3> QED BY <2>2, <3>1
  <2>5. ~(d[a] < Len(v[a]))
    BY <2>3, <2>4 DEF AtEnd
  <2> QED BY <1>1, <2>3, <2>5
<1>3. ASSUME NEW c \in Combos(v, n), c # d PROVE Precedes(c, d, n)
  <2>1. c \in [1 .. n -> Nat \ {0}] /\ \A b \in 1 .. n : c[b] \in Nat \ {0} /\ c[b] <= Len(v[b])
    BY DEF Combos
  <2>2. PICK y \in 1 .. n : c[y] # d[y] /\ \A b \in 1 .. y - 1 : c[b] = d[b]
    <3>1. c \in [1 .. n -> Nat] /\ d \in [1 .. n -> Nat]
      BY <1>1, <2>1
    <3> QED BY <1>3, <3>1, FirstDifference
  <2>3. c[y] < d[y]
    BY <1>1, <1>2, <2>1, <2>2
  <2> QED BY <2>2, <2>3 DEF Precedes
<1> QED BY <1>3, Zenon DEF Tested

\* Nothing comes before the first combination.
LEMMA FirstPlaces ==
  ASSUME NEW n \in Nat, NEW v, \A a \in 1 .. n : Len(v[a]) \in Nat \ {0}
  PROVE  /\ [a \in 1 .. n |-> 1] \in Combos(v, n)
         /\ Tested(v, [a \in 1 .. n |-> 1], n) = {}
<1> DEFINE d == [a \in 1 .. n |-> 1]
<1>1. d \in [1 .. n -> Nat \ {0}] /\ \A a \in 1 .. n : d[a] = 1 /\ d[a] <= Len(v[a])
  OBVIOUS
<1>2. \A c \in [1 .. n -> Nat \ {0}], a \in 1 .. n : ~(c[a] < d[a])
  BY <1>1
<1> HIDE DEF d
<1>3. d \in Combos(v, n)
  BY <1>1 DEF Combos
<1>4. Tested(v, d, n) = {}
  BY <1>2, Zenon DEF Tested, Precedes, Combos
<1> QED BY <1>3, <1>4 DEF d

-----------------------------------------------------------------------------
(* The invariant.                                                          *)

Calling == {"setjmp", "alarm", "call", "hang"}
Testing == Calling \cup {"score", "timeout"}

\* The values of the puzzle at hand.
Generated ==
  /\ i \in DOMAIN TestSet /\ DOMAIN vals = Args
  /\ \A a \in Args : /\ Len(vals[a]) \in Nat \ {0} /\ DOMAIN vals[a] = 1 .. Len(vals[a])
                     /\ a \notin DOMAIN fixed => Fits(vals[a], Test.ranges[a][1], Test.ranges[a][2])

\* How far the loops are, and what became of the puzzle.
Progress ==
  /\ pc \in Testing => at \in Combos(vals, Test.args)
  /\ pc \in Calling => terrors = 0 /\ agreed = Tested(vals, at, Test.args)
  /\ pc = "score" /\ terrors = 0 => agreed = Combos(vals, Test.args)
  /\ pc = "timeout" => terrors = 1

Counts ==
  /\ global_rating \in {0, 1} /\ i \in 1 .. Len(TestSet) + 1 /\ terrors \in {0, 1}

BInv ==
  /\ Counts
  /\ pc \in Testing \cup {"next", "done", "undefined"}
  /\ pc \in {"next", "done"} => vals = <<>>
  /\ pc \in Testing => Generated
  /\ pc = "undefined" => vals = <<>> \/ Generated
  /\ Progress

LEMMA PuzzleFacts ==
  /\ Len(TestSet) \in Nat /\ DOMAIN TestSet = 1 .. Len(TestSet)
  /\ \A t \in DOMAIN TestSet : TestSet[t].args \in 0 .. 3 /\ TestSet[t].rating \in Nat \ {0}
<1>1. TestSet \in Seq(Puzzles)
  BY TestSetAssumption
<1>2. Len(TestSet) \in Nat /\ DOMAIN TestSet = 1 .. Len(TestSet)
  BY <1>1
<1>3. ASSUME NEW t \in DOMAIN TestSet
      PROVE  TestSet[t].args \in 0 .. 3 /\ TestSet[t].rating \in Nat \ {0}
  <2>1. TestSet[t] \in Puzzles
    BY <1>1
  <2> QED BY <2>1 DEF Puzzles
<1> QED BY <1>2, <1>3

LEMMA InitBInv == Init => BInv
BY PuzzleFacts DEF Init, BInv, Counts, Progress, Testing, Calling

\* A step that leaves the puzzle at hand and its values alone leaves them generated.
LEMMA StillGenerated ==
  ASSUME Generated, UNCHANGED <<options, i, vals>>
  PROVE  Generated'
BY DEF Generated, Args, Test, options

LEMMA SkipKeeps == ASSUME BInv, Skip PROVE BInv'
<1>1. /\ pc = "next" /\ i <= Len(TestSet) /\ i' = i + 1
      /\ UNCHANGED <<options, pc, vals, at, terrors, score, envbuf, left, spent, agreed>>
  BY DEF Skip
<1>2. Counts'
  BY <1>1, PuzzleFacts DEF BInv, Counts, options, score
<1>3. pc' = "next" /\ vals' = <<>>
  BY <1>1 DEF BInv
<1> QED BY <1>2, <1>3 DEF BInv, Progress, Testing, Calling

LEMMA GenerateKeeps == ASSUME BInv, Generate PROVE BInv'
<1>1. /\ pc = "next" /\ i <= Len(TestSet)
      /\ at' = [a \in Args |-> 1] /\ terrors' = 0
      /\ pc' = (IF timeout_limit > 0 THEN "setjmp" ELSE "call") /\ agreed' = {}
      /\ UNCHANGED <<options, i, score, envbuf, left>>
  BY Zenon DEF Generate
<1>2. PICK weights \in [Args -> [1 .. TestRange(Test.args) -> Weights]] :
        vals' = [a \in Args |-> gen_vals(Test.ranges[a][1], Test.ranges[a][2],
                                         TestRange(Test.args), weights[a], a)]
  BY Zenon DEF Generate
<1>3. i \in DOMAIN TestSet /\ i \in 1 .. Len(TestSet) + 1 /\ Test' = Test /\ Args' = Args
  BY <1>1, PuzzleFacts DEF BInv, Counts, Test, Args
<1>4. Test.args \in 0 .. 3 /\ Args = 1 .. Test.args /\ Test = TestSet[i]
  BY <1>3, PuzzleFacts DEF Test, Args
<1>5. TestRange(Test.args) \in 1 .. TEST_RANGE
  BY <1>4, TestRangeTyped
<1>6. ASSUME NEW a \in Args
      PROVE  /\ Len(vals'[a]) \in Nat \ {0} /\ DOMAIN vals'[a] = 1 .. Len(vals'[a])
             /\ a \notin DOMAIN fixed => Fits(vals'[a], Test.ranges[a][1], Test.ranges[a][2])
  <2>1. vals'[a] = gen_vals(TestSet[i].ranges[a][1], TestSet[i].ranges[a][2],
                            TestRange(Test.args), weights[a], a)
    BY <1>2, <1>4
  <2>2. /\ i \in DOMAIN TestSet /\ a \in 1 .. TestSet[i].args
        /\ weights[a] \in [1 .. TestRange(Test.args) -> Weights]
    BY <1>2, <1>3, <1>4 DEF BInv, Counts
  <2> DEFINE u == vals'[a]
             w == weights[a]
             r == TestRange(Test.args)
  <2>3. /\ u = gen_vals(TestSet[i].ranges[a][1], TestSet[i].ranges[a][2], r, w, a)
        /\ w \in [1 .. r -> Weights] /\ r \in 1 .. TEST_RANGE
    BY <1>5, <2>1, <2>2
  <2> HIDE DEF u, w, r
  <2>4. /\ Len(u) \in Nat \ {0} /\ DOMAIN u = 1 .. Len(u)
        /\ a \notin DOMAIN fixed => Fits(u, TestSet[i].ranges[a][1], TestSet[i].ranges[a][2])
    BY <2>2, <2>3, GenVals, Zenon
  <2> QED BY <1>4, <2>4 DEF u
<1>7. Generated'
  <2>1. DOMAIN vals' = Args /\ fixed' = fixed /\ i' = i
    BY <1>1, <1>2 DEF options
  <2> QED BY <1>3, <1>6, <2>1 DEF Generated
<1>8. at' \in Combos(vals', Test.args) /\ Tested(vals', at', Test.args) = {}
  <2> DEFINE n == Test.args
             v == vals'
             d == at'
  <2>1. n \in Nat /\ d = [a \in 1 .. n |-> 1] /\ \A a \in 1 .. n : Len(v[a]) \in Nat \ {0}
    BY <1>1, <1>4, <1>6
  <2> HIDE DEF n, v, d
  <2>2. d \in Combos(v, n) /\ Tested(v, d, n) = {}
    BY <2>1, FirstPlaces, Zenon
  <2> QED BY <2>2 DEF n, v, d
<1>9. Progress' /\ pc' \in {"setjmp", "call"}
  BY <1>1, <1>3, <1>8 DEF Progress, Testing, Calling
<1>10. Counts'
  BY <1>1, <1>3 DEF BInv, Counts, options, score
<1> QED BY <1>7, <1>9, <1>10 DEF BInv, Testing, Calling

\* The loops' own variables as those of the lemmas.
LEMMA LoopFacts ==
  ASSUME BInv, pc \in Testing
  PROVE  /\ Test.args \in Nat /\ Args = 1 .. Test.args
         /\ \A a \in 1 .. Test.args : Len(vals[a]) \in Nat \ {0} /\ DOMAIN vals[a] = 1 .. Len(vals[a])
<1>1. Generated
  BY DEF BInv
<1>2. i \in DOMAIN TestSet
  BY <1>1 DEF Generated
<1> QED BY <1>1, <1>2, PuzzleFacts DEF Generated, Args, Test

LEMMA SetjmpKeeps == ASSUME BInv, Setjmp PROVE BInv'
<1>1. /\ pc = "setjmp" /\ pc' = "alarm"
      /\ UNCHANGED <<options, i, vals, at, terrors, score, agreed>>
  BY DEF Setjmp
<1>2. Generated' /\ Counts' /\ Test' = Test
  BY <1>1, StillGenerated DEF BInv, Counts, options, score, Test, Testing, Calling
<1> QED BY <1>1, <1>2 DEF BInv, Progress, Testing, Calling

LEMMA SetAlarmKeeps == ASSUME BInv, SetAlarm PROVE BInv'
<1>1. /\ pc = "alarm" /\ pc' = "call"
      /\ UNCHANGED <<options, i, vals, at, terrors, score, agreed>>
  BY DEF SetAlarm
<1>2. Generated' /\ Counts' /\ Test' = Test
  BY <1>1, StillGenerated DEF BInv, Counts, options, score, Test, Testing, Calling
<1> QED BY <1>1, <1>2 DEF BInv, Progress, Testing, Calling

LEMMA AgreeKeeps == ASSUME BInv, Agree PROVE BInv'
<1>1. /\ pc = "call" /\ agreed' = agreed \cup {at}
      /\ UNCHANGED <<options, i, vals, terrors, score, envbuf, left, spent>>
  BY DEF Agree
<1>2. Generated' /\ Counts' /\ Test' = Test
  BY <1>1, StillGenerated DEF BInv, Counts, options, score, Test, Testing, Calling
<1> DEFINE n == Test.args
<1>3. n \in Nat /\ Args = 1 .. n /\ \A a \in 1 .. n : Len(vals[a]) \in Nat
  BY <1>1, LoopFacts DEF Testing, Calling
<1>4. at \in Combos(vals, n) /\ agreed = Tested(vals, at, n) /\ terrors = 0
  BY <1>1 DEF BInv, Progress, Testing, Calling
<1>5. Carry = {a \in 1 .. n : AtEnd(at, vals, a, n)}
  BY <1>3 DEF Carry, AtEnd
<1> HIDE DEF n
<1>6. CASE Turns = {}
  <2>1. pc' = "score" /\ at' = at
    BY <1>6 DEF Agree
  <2>2. Combos(vals, n) = Tested(vals, at, n) \cup {at}
    <3>1. \A a \in 1 .. n : AtEnd(at, vals, a, n) => ~(at[a] < Len(vals[a]))
      BY <1>5, <1>6 DEF Turns
    <3> QED BY <1>3, <1>4, <3>1, LastPlaces
  <2>3. agreed' = Combos(vals, n)
    BY <1>1, <1>4, <2>2
  <2>4. vals' = vals /\ Test'.args = n
    BY <1>1, <1>2 DEF n
  <2> QED BY <1>2, <1>4, <2>1, <2>3, <2>4 DEF BInv, Progress, Testing, Calling
<1>7. CASE Turns # {}
  <2>1. pc' = pc /\ \E a \in Turns : at' = [b \in Args |-> IF b = a THEN at[b] + 1
                                                           ELSE IF b > a THEN 1 ELSE at[b]]
    BY <1>7, Zenon DEF Agree
  <2>2. PICK a \in Turns : at' = [b \in 1 .. n |-> IF b = a THEN at[b] + 1
                                                   ELSE IF b > a THEN 1 ELSE at[b]]
    BY <1>3, <2>1
  <2>3. a \in 1 .. n /\ at[a] < Len(vals[a]) /\ AtEnd(at, vals, a, n)
    BY <1>5 DEF Turns
  <2> DEFINE e == at'
  <2>4. Advanced(e, at, a, n)
    BY <2>2 DEF Advanced
  <2> HIDE DEF e
  <2>5. e \in Combos(vals, n) /\ Tested(vals, e, n) = Tested(vals, at, n) \cup {at}
    BY <1>3, <1>4, <2>3, <2>4, NextPlaces
  <2>6. at' \in Combos(vals, n) /\ agreed' = Tested(vals, at', n)
    BY <1>1, <1>4, <2>5 DEF e
  <2>7. vals' = vals /\ Test'.args = n /\ pc' = "call" /\ terrors' = 0
    BY <1>1, <1>2, <1>4, <2>1 DEF n
  <2> QED BY <1>2, <2>6, <2>7 DEF BInv, Progress, Testing, Calling
<1> QED BY <1>6, <1>7

LEMMA DifferKeeps == ASSUME BInv, Differ PROVE BInv'
<1>1. /\ pc = "call" /\ terrors' = 1 /\ pc' = "score"
      /\ UNCHANGED <<options, i, vals, at, score, agreed>>
  BY DEF Differ
<1>2. Generated' /\ Counts' /\ Test' = Test
  BY <1>1, StillGenerated DEF BInv, Counts, options, score, Test, Testing, Calling
<1> QED BY <1>1, <1>2 DEF BInv, Progress, Testing, Calling

LEMMA HangKeeps == ASSUME BInv, Hang PROVE BInv'
<1>1. /\ pc = "call" /\ pc' = "hang"
      /\ UNCHANGED <<options, i, vals, at, terrors, score, agreed>>
  BY DEF Hang
<1>2. Generated' /\ Counts' /\ Test' = Test
  BY <1>1, StillGenerated DEF BInv, Counts, options, score, Test, Testing, Calling
<1> QED BY <1>1, <1>2 DEF BInv, Progress, Testing, Calling

LEMMA ScoreCounts ==
  ASSUME BInv, Score
  PROVE  i \in DOMAIN TestSet /\ terrors \in {0, 1} /\ i' = i + 1
<1>1. pc \in {"score", "timeout"} /\ i' = i + 1
  BY Zenon DEF Score
<1> QED BY <1>1 DEF BInv, Counts, Generated, Testing, Calling

LEMMA ScoreKeeps == ASSUME BInv, Score PROVE BInv'
<1>1. pc' = "next" /\ vals' = <<>> /\ terrors' = 0 /\ UNCHANGED options
  BY Zenon DEF Score
<1>2. Counts'
  BY <1>1, ScoreCounts, PuzzleFacts DEF BInv, Counts, options
<1> QED BY <1>1, <1>2 DEF BInv, Progress, Testing, Calling

LEMMA FinishKeeps == ASSUME BInv, Finish PROVE BInv'
<1>1. /\ pc = "next" /\ pc' = "done"
      /\ UNCHANGED <<options, i, vals, at, terrors, score, agreed>>
  BY DEF Finish
<1>2. Counts'
  BY <1>1 DEF BInv, Counts, options, score
<1> QED BY <1>1, <1>2 DEF BInv, Progress, Testing, Calling

LEMMA SecondKeeps == ASSUME BInv, Second PROVE BInv'
<1>1. /\ pc \notin {"done", "undefined"}
      /\ IF left' = 0 THEN Jump ELSE UNCHANGED <<pc, terrors>>
      /\ UNCHANGED <<options, i, vals, at, score, envbuf, agreed>>
  BY DEF Second
<1>2. Test' = Test /\ (Generated => Generated')
  BY <1>1, StillGenerated DEF options, Test
<1>3. CASE UNCHANGED <<pc, terrors>>
  <2>1. Counts'
    BY <1>1, <1>3 DEF BInv, Counts, options, score
  <2> QED BY <1>1, <1>2, <1>3, <2>1 DEF BInv, Progress, Testing, Calling
<1>4. CASE pc \in {"alarm", "call", "hang"} /\ terrors' = 1 /\ pc' = "timeout"
  <2>1. Counts'
    BY <1>1, <1>4 DEF BInv, Counts, options, score
  <2> QED BY <1>1, <1>2, <1>4, <2>1 DEF BInv, Progress, Testing, Calling
<1>5. CASE pc' = "undefined" /\ UNCHANGED terrors
  <2>1. Counts'
    BY <1>1, <1>5 DEF BInv, Counts, options, score
  <2>2. vals' = <<>> \/ Generated'
    BY <1>1, <1>2 DEF BInv, Testing, Calling
  <2> QED BY <1>5, <2>1, <2>2 DEF BInv, Progress, Testing, Calling
<1> QED BY <1>1, <1>3, <1>4, <1>5 DEF Jump

LEMMA NextBInv == BInv /\ [Next]_vars => BInv'
<1> SUFFICES ASSUME BInv, [Next]_vars PROVE BInv'
  OBVIOUS
<1>1. CASE UNCHANGED vars
  <2>1. Generated => Generated'
    BY <1>1, StillGenerated DEF vars
  <2>2. Counts' /\ Progress'
    BY <1>1 DEF BInv, Counts, Progress, vars, options, score, Test
  <2> QED BY <1>1, <2>1, <2>2 DEF BInv, vars
<1>2. CASE Next
  BY <1>2, SkipKeeps, GenerateKeeps, SetjmpKeeps, SetAlarmKeeps, AgreeKeeps, DifferKeeps,
     HangKeeps, ScoreKeeps, FinishKeeps, SecondKeeps DEF Next, Proceeds
<1> QED BY <1>1, <1>2

LEMMA BInvHolds == Spec => []BInv
BY InitBInv, NextBInv, PTL DEF Spec

-----------------------------------------------------------------------------
(* The properties.                                                         *)

\* The arrays are large enough for the values, which try both ends of the range, zero and
\* nothing outside, with no overflow, and for floats the special ones, in every table of
\* puzzles with ranges that gen_vals can do (gen_vals).
THEOREM ValuesFitHolds == Spec => []ValuesFit
<1>1. BInv => ValuesFit
  <2> SUFFICES ASSUME BInv PROVE ValuesFit
    OBVIOUS
  <2>1. CASE vals = <<>>
    BY <2>1 DEF ValuesFit
  <2>2. CASE Generated
    <3>1. \A a \in DOMAIN vals \ DOMAIN fixed : Fits(vals[a], Test.ranges[a][1], Test.ranges[a][2])
      BY <2>2 DEF Generated
    <3>2. ASSUME NEW a \in DOMAIN vals,
                 ~(Test.ranges[a][1] = 1 /\ Test.ranges[a][2] = 1)
          PROVE  Computed(Test.ranges[a][1], Test.ranges[a][2], TestRange(Test.args))
                   \subseteq TMin .. TMax
      <4>1. i \in DOMAIN TestSet /\ a \in 1 .. TestSet[i].args /\ Test = TestSet[i]
        BY <2>2 DEF Generated, Args, Test
      <4> DEFINE r == TestRange(Test.args)
      <4>2. r \in 1 .. TEST_RANGE
        BY <4>1, PuzzleFacts, TestRangeTyped
      <4> HIDE DEF r
      <4>3. Computed(TestSet[i].ranges[a][1], TestSet[i].ranges[a][2], r) \subseteq TMin .. TMax
        BY <3>2, <4>1, <4>2, NoOverflow
      <4> QED BY <4>1, <4>3 DEF r
    <3> QED BY <3>1, <3>2, Zenon DEF ValuesFit, Fits
  <2> QED BY <2>1, <2>2 DEF BInv
<1> QED BY <1>1, BInvHolds, PTL

\* The property's own set of combinations.
LEMMA AllCombinations ==
  ASSUME BInv, pc \in Testing
  PROVE  Combos(vals, Test.args) = AllPlaces
<1> DEFINE n == Test.args
           All == UNION {DOMAIN vals[a] : a \in Args}
<1>1. /\ n \in Nat /\ Args = 1 .. n
      /\ \A a \in 1 .. n : Len(vals[a]) \in Nat \ {0} /\ DOMAIN vals[a] = 1 .. Len(vals[a])
  BY LoopFacts
<1> HIDE DEF n
<1>2. \A x \in All : x \in Nat \ {0}
  BY <1>1
<1>3. \A a \in 1 .. n : 1 .. Len(vals[a]) \subseteq All
  BY <1>1
<1> HIDE DEF All
<1>4. ASSUME NEW c \in [Args -> All], \A a \in Args : c[a] \in DOMAIN vals[a]
      PROVE  c \in Combos(vals, n)
  <2>1. c \in [1 .. n -> Nat \ {0}]
    BY <1>1, <1>2
  <2>2. \A a \in 1 .. n : c[a] <= Len(vals[a])
    BY <1>1, <1>4
  <2> QED BY <2>1, <2>2 DEF Combos
<1>5. ASSUME NEW c \in Combos(vals, n)
      PROVE  c \in [Args -> All] /\ \A a \in Args : c[a] \in DOMAIN vals[a]
  <2>1. c \in [1 .. n -> Nat \ {0}] /\ \A a \in 1 .. n : c[a] <= Len(vals[a])
    BY DEF Combos
  <2>2. ASSUME NEW a \in 1 .. n PROVE c[a] \in All /\ c[a] \in DOMAIN vals[a]
    <3>1. c[a] \in 1 .. Len(vals[a])
      BY <1>1, <2>1
    <3> QED BY <1>1, <1>3, <3>1
  <2> QED BY <1>1, <2>1, <2>2
<1>6. Combos(vals, n) = {c \in [Args -> All] : \A a \in Args : c[a] \in DOMAIN vals[a]}
  BY <1>4, <1>5, Zenon
<1> QED BY <1>6 DEF n, All, AllPlaces

\* A set of numbers that has 0 and with each the next has all of them up to n.
LEMMA FromZero ==
  ASSUME NEW n \in Nat, NEW P \in SUBSET (0 .. n), 0 \in P,
         \A x \in P : x < n => x + 1 \in P
  PROVE  P = 0 .. n
<1> DEFINE Bad == (0 .. n) \ P
<1>1. SUFFICES ASSUME Bad # {} PROVE FALSE
  OBVIOUS
<1>2. PICK m \in Bad : \A y \in Bad : m <= y
  <2>1. Bad \in SUBSET Nat
    OBVIOUS
  <2> HIDE DEF Bad
  <2> QED BY <1>1, <2>1, LeastNat
<1>3. m \in 0 .. n /\ m \notin P /\ m # 0
  BY <1>2
<1>4. m - 1 \in 0 .. n /\ (m - 1) + 1 = m /\ m - 1 < n /\ ~(m <= m - 1)
  BY <1>3
<1>5. m - 1 \in P
  BY <1>2, <1>4
<1> QED BY <1>3, <1>4, <1>5

\* What a puzzle adds to a total.
Share(r, v, kinds, t) == IF v[t] \in kinds THEN r[t] ELSE 0

\* The function that Total is defined with does exist.
LEMMA TotalWalk ==
  ASSUME NEW r, NEW v, NEW kinds
  PROVE  \E g : /\ g[0] = 0
                /\ \A x \in 1 .. Len(TestSet) : g[x] = g[x - 1] + Share(r, v, kinds, x)
                /\ Total(r, v, kinds) = g[Len(TestSet)]
<1> DEFINE Body(h, x) == IF x = 0 THEN 0 ELSE h[x - 1] + (IF v[x] \in kinds THEN r[x] ELSE 0)
           Walk(m) == \E h : h = [x \in 0 .. m |-> Body(h, x)]
<1>1. Walk(0)
  <2> DEFINE h == [x \in 0 .. 0 |-> 0]
  <2>1. \A x \in 0 .. 0 : Body(h, x) = 0
    OBVIOUS
  <2> HIDE DEF Body
  <2>2. h = [x \in 0 .. 0 |-> Body(h, x)]
    BY <2>1
  <2> QED BY <2>2
<1>2. ASSUME NEW m \in Nat, Walk(m) PROVE Walk(m + 1)
  <2>1. PICK h : h = [x \in 0 .. m |-> Body(h, x)]
    BY <1>2
  <2> DEFINE G == [x \in 0 .. m + 1 |-> IF x \in 0 .. m THEN h[x] ELSE Body(h, x)]
  <2>2. ASSUME NEW x \in 0 .. m + 1 PROVE G[x] = Body(G, x)
    <3>1. G[x] = Body(h, x)
      <4>1. x \in 0 .. m => h[x] = Body(h, x)
        BY <2>1, Zenon
      <4> HIDE DEF Body
      <4> QED BY <4>1
    <3>2. CASE x = 0
      BY <3>1, <3>2
    <3>3. CASE x # 0
      <4>1. x - 1 \in 0 .. m /\ x - 1 \in 0 .. m + 1
        BY <3>3
      <4>2. G[x - 1] = h[x - 1]
        BY <4>1
      <4> HIDE DEF G
      <4> QED BY <3>1, <3>3, <4>2
    <3> QED BY <3>2, <3>3
  <2>3. G = [x \in 0 .. m + 1 |-> Body(G, x)]
    <3> HIDE DEF Body
    <3> DEFINE g == G
    <3>1. g = [x \in 0 .. m + 1 |-> g[x]]
      OBVIOUS
    <3>2. \A x \in 0 .. m + 1 : g[x] = Body(g, x)
      BY <2>2
    <3> HIDE DEF g
    <3>3. g = [x \in 0 .. m + 1 |-> Body(g, x)]
      BY <3>1, <3>2, Zenon
    <3> QED BY <3>3 DEF g
  <2> HIDE DEF G, Body
  <2> QED BY <2>3
<1>3. Len(TestSet) \in Nat
  BY PuzzleFacts
<1>4. Walk(Len(TestSet))
  <2> HIDE DEF Walk
  <2> DEFINE n == Len(TestSet)
             P == {m \in 0 .. n : Walk(m)}
  <2>1. P \in SUBSET (0 .. n) /\ 0 \in P /\ n \in Nat /\ n \in 0 .. n
    BY <1>1, <1>3
  <2>2. \A m \in P : m < n => m + 1 \in P
    BY <1>2, <1>3
  <2> HIDE DEF n, P
  <2>3. P = 0 .. n
    BY <2>1, <2>2, FromZero
  <2>4. n \in P
    BY <2>1, <2>3
  <2> QED BY <2>4 DEF P, n
<1> DEFINE sum[n \in 0 .. Len(TestSet)] ==
             IF n = 0 THEN 0 ELSE sum[n - 1] + (IF v[n] \in kinds THEN r[n] ELSE 0)
<1>5. Total(r, v, kinds) = sum[Len(TestSet)]
  BY DEF Total
<1>6. \E h : h = [n \in 0 .. Len(TestSet) |->
                    IF n = 0 THEN 0 ELSE h[n - 1] + (IF v[n] \in kinds THEN r[n] ELSE 0)]
  BY <1>4, Zenon
<1>7. sum = [n \in 0 .. Len(TestSet) |->
               IF n = 0 THEN 0 ELSE sum[n - 1] + (IF v[n] \in kinds THEN r[n] ELSE 0)]
  BY <1>6, Zenon
<1> HIDE DEF sum
<1>8. \A x \in 0 .. Len(TestSet) :
        sum[x] = IF x = 0 THEN 0 ELSE sum[x - 1] + (IF v[x] \in kinds THEN r[x] ELSE 0)
  BY <1>7, Zenon
<1>9. sum[0] = 0
  BY <1>3, <1>8
<1>10. \A x \in 1 .. Len(TestSet) : sum[x] = sum[x - 1] + Share(r, v, kinds, x)
  <2>1. \A x \in 1 .. Len(TestSet) : x \in 0 .. Len(TestSet) /\ x # 0
    BY <1>3
  <2> QED BY <1>8, <2>1, Zenon DEF Share
<1> QED BY <1>5, <1>9, <1>10

\* A total of ratings is a number.
LEMMA TotalTyped ==
  ASSUME NEW r \in [DOMAIN TestSet -> Nat], NEW v, NEW kinds
  PROVE  Total(r, v, kinds) \in Nat
<1> DEFINE n == Len(TestSet)
<1>1. PICK g : /\ g[0] = 0
               /\ \A x \in 1 .. n : g[x] = g[x - 1] + Share(r, v, kinds, x)
               /\ Total(r, v, kinds) = g[n]
  BY TotalWalk
<1>2. n \in Nat /\ \A x \in 1 .. n : Share(r, v, kinds, x) \in Nat
  BY PuzzleFacts DEF Share
<1> DEFINE P == {x \in 0 .. n : g[x] \in Nat}
<1>3. P \in SUBSET (0 .. n) /\ 0 \in P
  BY <1>1, <1>2
<1>4. ASSUME NEW x \in P, x < n PROVE x + 1 \in P
  <2>1. x + 1 \in 1 .. n /\ x + 1 \in 0 .. n /\ (x + 1) - 1 = x /\ g[x] \in Nat
    BY <1>2, <1>4
  <2>2. g[x + 1] = g[x] + Share(r, v, kinds, x + 1) /\ Share(r, v, kinds, x + 1) \in Nat
    BY <1>1, <1>2, <2>1
  <2> QED BY <2>1, <2>2
<1> HIDE DEF P
<1>5. P = 0 .. n
  BY <1>2, <1>3, <1>4, FromZero
<1>6. n \in P
  BY <1>2, <1>5
<1> QED BY <1>1, <1>6 DEF P

\* Of no puzzle the total is 0.
LEMMA TotalNone ==
  ASSUME NEW r, NEW v, NEW kinds, \A t \in DOMAIN TestSet : v[t] \notin kinds
  PROVE  Total(r, v, kinds) = 0
<1> DEFINE n == Len(TestSet)
<1>1. PICK g : /\ g[0] = 0
               /\ \A x \in 1 .. n : g[x] = g[x - 1] + Share(r, v, kinds, x)
               /\ Total(r, v, kinds) = g[n]
  BY TotalWalk
<1>2. n \in Nat /\ \A x \in 1 .. n : Share(r, v, kinds, x) = 0
  BY PuzzleFacts DEF Share
<1> DEFINE P == {x \in 0 .. n : g[x] = 0}
<1>3. P \in SUBSET (0 .. n) /\ 0 \in P
  BY <1>1, <1>2
<1>4. ASSUME NEW x \in P, x < n PROVE x + 1 \in P
  <2>1. x + 1 \in 1 .. n /\ x + 1 \in 0 .. n /\ (x + 1) - 1 = x /\ g[x] = 0
    BY <1>2, <1>4
  <2>2. g[x + 1] = g[x] + Share(r, v, kinds, x + 1) /\ Share(r, v, kinds, x + 1) = 0
    BY <1>1, <1>2, <2>1
  <2> QED BY <2>1, <2>2
<1> HIDE DEF P
<1>5. P = 0 .. n
  BY <1>2, <1>3, <1>4, FromZero
<1>6. n \in P
  BY <1>2, <1>5
<1> QED BY <1>1, <1>6 DEF P

\* A puzzle that did not count and whose verdict alone changes adds its rating if it
\* counts now.
LEMMA TotalStep ==
  ASSUME NEW r \in [DOMAIN TestSet -> Nat], NEW v, NEW w, NEW kinds, NEW j \in DOMAIN TestSet,
         \A t \in DOMAIN TestSet : t # j => w[t] = v[t], v[j] \notin kinds
  PROVE  Total(r, w, kinds) = Total(r, v, kinds) + (IF w[j] \in kinds THEN r[j] ELSE 0)
<1> DEFINE n == Len(TestSet)
           more == Share(r, w, kinds, j)
<1>1. PICK g : /\ g[0] = 0
               /\ \A x \in 1 .. n : g[x] = g[x - 1] + Share(r, v, kinds, x)
               /\ Total(r, v, kinds) = g[n]
  BY TotalWalk
<1>2. PICK h : /\ h[0] = 0
               /\ \A x \in 1 .. n : h[x] = h[x - 1] + Share(r, w, kinds, x)
               /\ Total(r, w, kinds) = h[n]
  BY TotalWalk
<1>3. /\ n \in Nat /\ j \in 1 .. n /\ more \in Nat
      /\ \A x \in 1 .. n : Share(r, v, kinds, x) \in Nat /\ Share(r, w, kinds, x) \in Nat
  BY PuzzleFacts DEF Share
<1>4. Share(r, v, kinds, j) = 0
  BY DEF Share
<1>5. \A x \in 1 .. n : x # j => Share(r, w, kinds, x) = Share(r, v, kinds, x)
  BY PuzzleFacts DEF Share
<1> DEFINE Good(x) == g[x] \in Nat /\ h[x] = g[x] + (IF x >= j THEN more ELSE 0)
           P == {x \in 0 .. n : Good(x)}
<1> HIDE DEF more
<1>6. P \in SUBSET (0 .. n) /\ 0 \in P
  BY <1>1, <1>2, <1>3
<1>7. ASSUME NEW x \in P, x < n PROVE x + 1 \in P
  <2>1. x \in Nat /\ x + 1 \in 1 .. n /\ x + 1 \in 0 .. n /\ (x + 1) - 1 = x /\ Good(x)
    BY <1>3, <1>7
  <2> DEFINE a == Share(r, v, kinds, x + 1)
             b == Share(r, w, kinds, x + 1)
  <2>2. g[x + 1] = g[x] + a /\ h[x + 1] = h[x] + b /\ a \in Nat /\ b \in Nat
    BY <1>1, <1>2, <1>3, <2>1
  <2>3. IF x + 1 = j THEN a = 0 /\ b = more ELSE b = a
    BY <1>4, <1>5, <2>1 DEF more
  <2> DEFINE y == x + 1
             gx == g[x]
             hx == h[x]
  <2>4. /\ y \in Int /\ x = y - 1 /\ j \in Int /\ gx \in Nat
        /\ hx = gx + (IF x >= j THEN more ELSE 0)
        /\ g[y] = gx + a /\ h[y] = hx + b
        /\ IF y = j THEN a = 0 /\ b = more ELSE b = a
    BY <1>3, <2>1, <2>2, <2>3
  <2> HIDE DEF a, b, y, gx, hx
  <2>5. Good(y)
    <3>1. CASE y = j
      <4>1. ~(x >= j) /\ y >= j /\ a = 0 /\ b = more
        BY <2>4, <3>1
      <4> QED BY <1>3, <2>4, <4>1
    <3>2. CASE y # j
      <4>1. (x >= j) <=> (y >= j)
        BY <2>4, <3>2
      <4>2. b = a
        BY <2>4, <3>2
      <4> QED BY <1>3, <2>2, <2>4, <4>1, <4>2
    <3> QED BY <3>1, <3>2
  <2> QED BY <2>1, <2>5 DEF y
<1> HIDE DEF P
<1>8. P = 0 .. n
  BY <1>3, <1>6, <1>7, FromZero
<1>9. n \in P /\ n >= j
  BY <1>3, <1>8
<1>10. h[n] = g[n] + more
  BY <1>9 DEF P
<1> QED BY <1>1, <1>2, <1>10 DEF more, Share

\* The books, with what keeps them: a puzzle has no verdict before its turn.
Accounts ==
  /\ verdicts \in [DOMAIN TestSet -> {"none", "passed", "wrong", "timeout"}]
  /\ \A t \in DOMAIN TestSet : t >= i => verdicts[t] = "none"
  /\ Accounted

LEMMA RatingsTyped == BInv => Ratings \in [DOMAIN TestSet -> Nat]
BY PuzzleFacts DEF BInv, Counts, Ratings, Rating

LEMMA FailedFinite == IsFiniteSet(Failed)
<1>1. Failed \subseteq 1 .. Len(TestSet) /\ Len(TestSet) \in Int /\ 1 \in Int
  BY PuzzleFacts DEF Failed
<1>2. IsFiniteSet(1 .. Len(TestSet))
  BY <1>1, FS_Interval
<1> QED BY <1>1, <1>2, FS_Subset

LEMMA InitAccounts == Init => Accounts
<1> SUFFICES ASSUME Init PROVE Accounts
  OBVIOUS
<1>1. /\ points = 0 /\ max_points = 0 /\ errors = 0
      /\ verdicts = [t \in DOMAIN TestSet |-> "none"]
  BY DEF Init
<1>2. \A t \in DOMAIN TestSet :
        verdicts[t] \notin {"passed"} /\ verdicts[t] \notin {"passed", "wrong", "timeout"}
  BY <1>1
<1>3. /\ Total(Ratings, verdicts, {"passed"}) = 0
      /\ Total(Ratings, verdicts, {"passed", "wrong", "timeout"}) = 0
  BY <1>2, TotalNone, Zenon
<1>4. Cardinality(Failed) = 0
  <2>1. Failed = {}
    BY <1>1 DEF Failed
  <2> QED BY <2>1, FS_EmptySet
<1> QED BY <1>1, <1>3, <1>4 DEF Accounts, Accounted

LEMMA ScoreAccounts == ASSUME BInv, Accounts, Score PROVE Accounts'
<1> DEFINE x == IF terrors = 0 THEN "passed" ELSE IF pc = "timeout" THEN "timeout" ELSE "wrong"
<1>1. /\ points' = points + (IF terrors = 0 THEN Rating(i) ELSE 0)
      /\ max_points' = max_points + Rating(i) /\ errors' = errors + terrors
      /\ verdicts' = [verdicts EXCEPT ![i] = x] /\ i' = i + 1
      /\ global_rating' = global_rating
  BY Zenon DEF Score, options
<1>2. i \in DOMAIN TestSet /\ i \in Nat /\ terrors \in {0, 1}
  BY ScoreCounts, PuzzleFacts
<1>3. /\ x \in {"passed", "wrong", "timeout"} /\ x # "none"
      /\ (terrors = 0) <=> (x = "passed")
      /\ (terrors = 1) <=> (x \in {"wrong", "timeout"})
  BY <1>2
<1> HIDE DEF x
<1>4. /\ verdicts \in [DOMAIN TestSet -> {"none", "passed", "wrong", "timeout"}]
      /\ verdicts[i] = "none" /\ verdicts'[i] = x
      /\ \A t \in DOMAIN TestSet : t # i => verdicts'[t] = verdicts[t]
  BY <1>1, <1>2 DEF Accounts
<1>5. /\ verdicts' \in [DOMAIN TestSet -> {"none", "passed", "wrong", "timeout"}]
      /\ \A t \in DOMAIN TestSet : t >= i' => verdicts'[t] = "none"
  <2>1. verdicts' \in [DOMAIN TestSet -> {"none", "passed", "wrong", "timeout"}]
    BY <1>1, <1>3, <1>4
  <2>2. ASSUME NEW t \in DOMAIN TestSet, t >= i' PROVE verdicts'[t] = "none"
    <3>1. t # i /\ t >= i
      BY <1>1, <1>2, <2>2, PuzzleFacts
    <3> QED BY <1>4, <3>1 DEF Accounts
  <2> QED BY <2>1, <2>2
<1>6. Ratings' = Ratings /\ Ratings \in [DOMAIN TestSet -> Nat] /\ Ratings[i] = Rating(i)
  BY <1>1, <1>2, RatingsTyped DEF Ratings, Rating
<1> DEFINE r == Ratings
           v == verdicts
           w == verdicts'
           kinds == {"passed", "wrong", "timeout"}
<1>7. points' = Total(r, w, {"passed"})
  <2>1. Total(r, w, {"passed"}) = Total(r, v, {"passed"}) + (IF w[i] \in {"passed"} THEN r[i] ELSE 0)
    <3>1. v[i] \notin {"passed"}
      BY <1>4
    <3> HIDE DEF r, v, w
    <3> QED BY <1>2, <1>4, <1>6, <3>1, TotalStep DEF r, v, w
  <2>2. (w[i] \in {"passed"}) <=> (terrors = 0)
    BY <1>3, <1>4
  <2> QED BY <1>1, <1>6, <2>1, <2>2 DEF Accounts, Accounted
<1>8. max_points' = Total(r, w, kinds)
  <2>1. Total(r, w, kinds) = Total(r, v, kinds) + (IF w[i] \in kinds THEN r[i] ELSE 0)
    <3>1. v[i] \notin kinds
      BY <1>4
    <3> HIDE DEF r, v, w, kinds
    <3> QED BY <1>2, <1>4, <1>6, <3>1, TotalStep DEF r, v, w
  <2>2. w[i] \in kinds
    BY <1>3, <1>4
  <2> QED BY <1>1, <1>6, <2>1, <2>2 DEF Accounts, Accounted
<1>9. errors' = Cardinality(Failed')
  <2>1. errors = Cardinality(Failed) /\ i \notin Failed /\ IsFiniteSet(Failed)
    BY <1>4, FailedFinite DEF Accounts, Accounted, Failed
  <2>2. Cardinality(Failed) \in Nat
    BY <2>1, FS_CardinalityType
  <2>3. CASE terrors = 0
    <3>1. Failed' = Failed
      BY <1>3, <1>4, <2>3 DEF Failed
    <3> QED BY <1>1, <2>1, <2>2, <2>3, <3>1
  <2>4. CASE terrors = 1
    <3>1. Failed' = Failed \cup {i}
      BY <1>2, <1>3, <1>4, <2>4 DEF Failed
    <3>2. Cardinality(Failed \cup {i}) = Cardinality(Failed) + 1
      BY <2>1, FS_AddElement
    <3> QED BY <1>1, <2>1, <2>4, <3>1, <3>2
  <2> QED BY <1>2, <2>3, <2>4
<1>10. Accounted'
  BY <1>6, <1>7, <1>8, <1>9 DEF Accounted
<1> QED BY <1>5, <1>10 DEF Accounts

\* What does not score leaves the books alone.
LEMMA NoScore ==
  ASSUME [Next]_vars, ~Score
  PROVE  /\ UNCHANGED <<points, max_points, errors, verdicts, global_rating>>
         /\ i' = i \/ i' = i + 1
<1>1. CASE UNCHANGED vars
  BY <1>1 DEF vars, score, options
<1>2. CASE Next
  <2>1. UNCHANGED <<score, options>>
    BY <1>2, Zenon DEF Next, Proceeds, Skip, Generate, Setjmp, SetAlarm, Agree, Differ, Hang,
                       Finish, Second
  <2>2. i' = i \/ i' = i + 1
    BY <1>2, Zenon DEF Next, Proceeds, Skip, Generate, Setjmp, SetAlarm, Agree, Differ, Hang,
                       Finish, Second
  <2> QED BY <2>1, <2>2 DEF score, options
<1> QED BY <1>1, <1>2

LEMMA NextAccounts == BInv /\ Accounts /\ [Next]_vars => Accounts'
<1> SUFFICES ASSUME BInv, Accounts, [Next]_vars PROVE Accounts'
  OBVIOUS
<1>1. CASE Score
  BY <1>1, ScoreAccounts
<1>2. CASE ~Score
  <2>1. /\ UNCHANGED <<points, max_points, errors, verdicts, global_rating>>
        /\ i' = i \/ i' = i + 1
    BY <1>2, NoScore
  <2>2. \A t \in DOMAIN TestSet : t >= i' => verdicts'[t] = "none"
    <3>1. ASSUME NEW t \in DOMAIN TestSet, t >= i' PROVE t >= i
      BY <2>1, <3>1, PuzzleFacts DEF BInv, Counts
    <3> QED BY <2>1, <3>1 DEF Accounts
  <2>3. Ratings' = Ratings /\ Failed' = Failed
    BY <2>1 DEF Ratings, Rating, Failed
  <2>4. Accounted'
    BY <2>1, <2>3 DEF Accounts, Accounted
  <2> QED BY <2>1, <2>2, <2>4 DEF Accounts
<1> QED BY <1>1, <1>2

LEMMA AccountsHolds == Spec => []Accounts
BY BInvHolds, InitAccounts, NextAccounts, PTL DEF Spec

\* Whenever the alarm goes off, the points are the sum of the ratings of the puzzles
\* passed and the errors are the others, and a puzzle is paid for only when every
\* combination of its values has been tried and the functions agreed on all
\* (test_function, run_tests).
THEOREM PointsEarnedHolds == Spec => PointsEarned
<1>1. BInv /\ Accounts /\ [Next]_vars => [Earns]_vars
  <2> SUFFICES ASSUME BInv, Accounts, Next PROVE Earns
    BY Zenon
  <2>1. CASE Score
    <3>1. /\ pc \in {"score", "timeout"}
          /\ points' = points + (IF terrors = 0 THEN Rating(i) ELSE 0)
          /\ verdicts' = [verdicts EXCEPT ![i] = IF terrors = 0 THEN "passed"
                                                 ELSE IF pc = "timeout" THEN "timeout" ELSE "wrong"]
      BY <2>1, Zenon DEF Score
    <3>2. i \in DOMAIN TestSet /\ i >= i /\ i \in DOMAIN verdicts
      BY <2>1, ScoreCounts, PuzzleFacts DEF Accounts
    <3>3. verdicts[i] = "none"
      BY <3>2 DEF Accounts
    <3>4. ASSUME points' # points PROVE verdicts'[i] = "passed"
      <4>1. points \in Nat
        BY RatingsTyped, TotalTyped DEF Accounts, Accounted
      <4>2. terrors = 0
        BY <3>1, <3>4, <4>1
      <4> QED BY <3>1, <3>2, <4>2
    <3>5. ASSUME NEW t \in DOMAIN TestSet, verdicts'[t] = "passed", verdicts[t] # "passed"
          PROVE  t = i /\ agreed = AllPlaces
      <4>1. t = i /\ terrors = 0
        BY <3>1, <3>5 DEF Accounts
      <4>2. pc = "score" /\ agreed = Combos(vals, Test.args)
        BY <3>1, <4>1 DEF BInv, Progress
      <4>3. pc \in Testing
        BY <4>2 DEF Testing
      <4> QED BY <4>1, <4>2, <4>3, AllCombinations
    <3> QED BY <3>3, <3>4, <3>5 DEF Earns
  <2>2. CASE ~Score
    <3>1. points' = points /\ verdicts' = verdicts
      BY <2>2, NoScore
    <3> QED BY <3>1 DEF Earns
  <2> QED BY <2>1, <2>2
<1>2. Accounts => Accounted
  BY DEF Accounts
<1> QED BY <1>1, <1>2, BInvHolds, AccountsHolds, PTL DEF Spec, PointsEarned

-----------------------------------------------------------------------------
(* The alarm.  A step of the harness either comes nearer to the end of the *)
(* tests or is one of the seconds that the alarm counts: what keeps the    *)
(* harness from going on for ever, but for the fairness.                   *)

\* Where a call of test_function may be jumped back to, and where it runs the functions.
Jumpable == {"alarm", "call", "hang"}
Running == {"call", "hang"}

\* Where no alarm of the puzzle at hand is set.
Preparing == {"next", "setjmp", "alarm"}

\* With a time limit the functions run only under an alarm that is set, of the present call
\* of test_function, and the seconds since it was set are those it has counted; without one
\* no alarm is ever set.
AlarmSet ==
  /\ timeout_limit \in {0, TIMEOUT_LIMIT} /\ left \in Nat
  /\ timeout_limit = 0 => left = 0 /\ pc \notin {"setjmp", "alarm", "timeout", "undefined"}
  /\ timeout_limit > 0 /\ pc \in Jumpable => envbuf = i
  /\ timeout_limit > 0 /\ pc \in Running => left > 0 /\ spent = timeout_limit - left

LEMMA InitAlarm == Init => AlarmSet
BY BtestAssumption DEF Init, AlarmSet, Jumpable, Running

LEMMA NextAlarm == AlarmSet /\ [Next]_vars => AlarmSet'
<1> SUFFICES ASSUME AlarmSet, [Next]_vars PROVE AlarmSet'
  OBVIOUS
<1>1. TIMEOUT_LIMIT \in Nat \ {0} /\ timeout_limit \in {0, TIMEOUT_LIMIT} /\ left \in Nat
  BY BtestAssumption DEF AlarmSet
<1>2. CASE UNCHANGED vars
  BY <1>2 DEF AlarmSet, vars, options, Jumpable, Running
<1>3. CASE Next
  <2>1. timeout_limit' = timeout_limit
    BY <1>3, Zenon DEF Next, Proceeds, Skip, Generate, Setjmp, SetAlarm, Agree, Differ, Hang,
                       Score, Finish, Second, options
  <2>2. CASE SetAlarm
    BY <1>1, <2>2 DEF SetAlarm, AlarmSet, options, Jumpable, Running
  <2>3. CASE Second
    <3>1. /\ pc \notin {"done", "undefined"} /\ left > 0 /\ left' = left - 1 /\ spent' = spent + 1
          /\ i' = i /\ envbuf' = envbuf
          /\ (left' = 0 => Jump) /\ (left' # 0 => pc' = pc)
      BY <2>3 DEF Second
    <3>2. CASE left' = 0
      <4>1. pc' \in {"timeout", "undefined"}
        BY <3>1, <3>2 DEF Jump
      <4> QED BY <1>1, <2>1, <3>1, <3>2, <4>1 DEF AlarmSet, Jumpable, Running
    <3>3. CASE left' # 0
      BY <1>1, <2>1, <3>1, <3>3 DEF AlarmSet, Jumpable, Running
    <3> QED BY <3>2, <3>3
  <2>4. CASE Generate \/ Setjmp
    <3>1. /\ left' = left /\ i' = i
          /\ \/ pc' = (IF timeout_limit > 0 THEN "setjmp" ELSE "call")
             \/ pc = "setjmp" /\ pc' = "alarm" /\ envbuf' = i
      BY <2>4, Zenon DEF Generate, Setjmp
    <3> QED BY <1>1, <2>1, <3>1 DEF AlarmSet, Jumpable, Running
  <2>5. CASE Agree \/ Differ \/ Hang
    <3>1. /\ pc = "call" /\ pc' \in {"call", "hang", "score"}
          /\ UNCHANGED <<i, envbuf, left, spent>>
      BY <2>5 DEF Agree, Differ, Hang
    <3> QED BY <1>1, <2>1, <3>1 DEF AlarmSet, Jumpable, Running
  <2>6. CASE Skip \/ Score \/ Finish
    <3>1. left' = left /\ pc' \in {"next", "done"}
      BY <2>6, Zenon DEF Skip, Score, Finish
    <3> QED BY <1>1, <2>1, <3>1 DEF AlarmSet, Jumpable, Running
  <2> QED BY <1>3, <2>2, <2>3, <2>4, <2>5, <2>6 DEF Next, Proceeds
<1> QED BY <1>2, <1>3

LEMMA AlarmHolds == Spec => []AlarmSet
BY InitAlarm, NextAlarm, PTL DEF Spec

\* An earlier puzzle ended by itself.
Earlier == \E t \in 1 .. i - 1 : verdicts[t] \in {"passed", "wrong"}

\* An alarm that is set before the puzzle at hand sets its own was left by such a puzzle;
\* one that goes off is used up.
Left ==
  /\ pc = "timeout" => left = 0
  /\ left > 0 /\ pc \in Preparing => Earlier

LEMMA InitLeft == Init => Left
BY DEF Init, Left, Preparing

LEMMA NextLeft == BInv /\ Accounts /\ AlarmSet /\ Left /\ [Next]_vars => Left'
<1> SUFFICES ASSUME BInv, Accounts, AlarmSet, Left, [Next]_vars PROVE Left'
  OBVIOUS
<1>1. left \in Nat /\ i \in Nat
  BY PuzzleFacts DEF AlarmSet, BInv, Counts
<1>2. CASE Score
  <2>1. /\ pc \in {"score", "timeout"} /\ pc' = "next" /\ i' = i + 1 /\ left' = left
        /\ verdicts' = [verdicts EXCEPT ![i] = IF terrors = 0 THEN "passed"
                                               ELSE IF pc = "timeout" THEN "timeout" ELSE "wrong"]
    BY <1>2, Zenon DEF Score
  <2>2. i \in DOMAIN verdicts /\ i \in 1 .. i' - 1
    BY <1>1, <1>2, <2>1, ScoreCounts, PuzzleFacts DEF Accounts
  <2>3. left > 0 => verdicts'[i] \in {"passed", "wrong"}
    BY <2>1, <2>2 DEF Left
  <2> QED BY <2>1, <2>2, <2>3 DEF Left, Earlier
<1>3. CASE ~Score
  <2>1. verdicts' = verdicts /\ (i' = i \/ i' = i + 1)
    BY <1>3, NoScore
  <2>2. Earlier => Earlier'
    BY <1>1, <2>1 DEF Earlier
  <2>3. CASE Second
    <3>1. /\ left > 0 /\ left' = left - 1
          /\ (left' = 0 => pc' \in {"timeout", "undefined"}) /\ (left' # 0 => pc' = pc)
      BY <2>3 DEF Second, Jump
    <3> QED BY <1>1, <2>2, <3>1 DEF Left, Preparing
  <2>4. CASE UNCHANGED vars
    BY <2>2, <2>4 DEF Left, vars
  <2>5. CASE Skip \/ Generate \/ Setjmp
    <3>1. left' = left /\ pc \in Preparing /\ pc' # "timeout"
      BY <2>5, Zenon DEF Skip, Generate, Setjmp, Preparing
    <3> QED BY <2>2, <3>1 DEF Left
  <2>6. CASE SetAlarm \/ Agree \/ Differ \/ Hang \/ Finish
    <3>1. pc' \in {"call", "hang", "score", "done"}
      BY <2>6 DEF SetAlarm, Agree, Differ, Hang, Finish
    <3> QED BY <3>1 DEF Left, Preparing
  <2> QED BY <1>3, <2>3, <2>4, <2>5, <2>6 DEF Next, Proceeds
<1> QED BY <1>2, <1>3

LEMMA LeftHolds == Spec => []Left
BY BInvHolds, AccountsHolds, AlarmHolds, InitLeft, NextLeft, PTL DEF Spec

\* An alarm that goes off while the functions run is their own and in time; another is
\* one that was never cancelled, of a puzzle that has ended (test_function,
\* timeout_handler).
THEOREM StrayAlarmsHolds == Spec => StrayAlarms
<1> DEFINE Known ==
      left > 0 /\ left' = 0 =>
        \/ pc \in {"call", "hang"} /\ pc' = "timeout" /\ spent' = timeout_limit
        \/ pc = "score" /\ pc' = "undefined"
        \/ /\ pc \in {"next", "setjmp", "alarm"}
           /\ \E t \in 1 .. i - 1 : verdicts[t] \in {"passed", "wrong"}
<1>1. BInv /\ AlarmSet /\ Left /\ [Next]_vars => [Known]_vars
  <2> SUFFICES ASSUME BInv, AlarmSet, Left, Next, left > 0, left' = 0
               PROVE  \/ pc \in {"call", "hang"} /\ pc' = "timeout" /\ spent' = timeout_limit
                      \/ pc = "score" /\ pc' = "undefined"
                      \/ /\ pc \in {"next", "setjmp", "alarm"}
                         /\ \E t \in 1 .. i - 1 : verdicts[t] \in {"passed", "wrong"}
    BY Zenon
  <2>1. TIMEOUT_LIMIT \in Nat \ {0} /\ timeout_limit \in {0, TIMEOUT_LIMIT} /\ left \in Nat
        /\ timeout_limit > 0
    BY BtestAssumption DEF AlarmSet
  <2>2. Second
    <3>1. CASE SetAlarm
      BY <2>1, <3>1 DEF SetAlarm
    <3>2. CASE ~Second /\ ~SetAlarm
      <4>1. left' = left
        BY <3>2, Zenon DEF Next, Proceeds, Skip, Generate, Setjmp, Agree, Differ, Hang, Score, Finish
      <4> QED BY <4>1
    <3> QED BY <3>1, <3>2
  <2>3. /\ left' = left - 1 /\ spent' = spent + 1 /\ pc \notin {"done", "undefined"} /\ Jump
    BY <2>2 DEF Second
  <2>4. pc \in {"next", "setjmp", "alarm", "call", "hang", "score"}
    BY <2>3 DEF BInv, Left, Testing, Calling
  <2>5. CASE pc \in {"call", "hang"}
    <3>1. envbuf = i /\ spent = timeout_limit - left /\ left = 1
      BY <2>1, <2>3, <2>5 DEF AlarmSet, Jumpable, Running
    <3> QED BY <2>1, <2>3, <2>5, <3>1 DEF Jump
  <2>6. CASE pc = "score"
    BY <2>3, <2>6 DEF Jump
  <2>7. CASE pc \in {"next", "setjmp", "alarm"}
    BY <2>7 DEF Left, Earlier, Preparing
  <2> QED BY <2>4, <2>5, <2>6, <2>7
<1> QED BY <1>1, BInvHolds, AlarmHolds, LeftHolds, PTL DEF Spec, StrayAlarms

\* A function that does not return is left alone but for the seconds, of which there are
\* fewer than the limit to come, and the last of them ends the puzzle and not the harness.
HangsAreEnded ==
  [][timeout_limit > 0 /\ pc = "hang" =>
       /\ left > 0 /\ spent + left = timeout_limit
       /\ left' = left - 1 /\ i' = i
       /\ pc' = (IF left = 1 THEN "timeout" ELSE "hang")]_vars

\* With a time limit, a function that hangs is ended by the alarm in time, and never by a
\* jump into a call that is over (test_function, timeout_handler).
THEOREM HangsAreEndedHolds == Spec => HangsAreEnded
<1> DEFINE Ended == timeout_limit > 0 /\ pc = "hang" =>
                      /\ left > 0 /\ spent + left = timeout_limit
                      /\ left' = left - 1 /\ i' = i
                      /\ pc' = (IF left = 1 THEN "timeout" ELSE "hang")
<1>1. AlarmSet /\ [Next]_vars => [Ended]_vars
  <2> SUFFICES ASSUME AlarmSet, Next, timeout_limit > 0, pc = "hang"
               PROVE  /\ left > 0 /\ spent + left = timeout_limit
                      /\ left' = left - 1 /\ i' = i
                      /\ pc' = (IF left = 1 THEN "timeout" ELSE "hang")
    BY Zenon
  <2>1. Second
    BY Zenon DEF Next, Proceeds, Skip, Generate, Setjmp, SetAlarm, Agree, Differ, Hang, Score,
                 Finish
  <2>2. /\ timeout_limit \in Nat /\ left \in Nat /\ left > 0 /\ envbuf = i
        /\ spent = timeout_limit - left
    BY BtestAssumption DEF AlarmSet, Jumpable, Running
  <2>3. /\ left' = left - 1 /\ i' = i /\ (left' = 0 => Jump) /\ (left' # 0 => pc' = pc)
    BY <2>1 DEF Second
  <2>4. left' = 0 => pc' = "timeout"
    BY <2>2, <2>3 DEF Jump
  <2> QED BY <2>2, <2>3, <2>4
<1> QED BY <1>1, AlarmHolds, PTL DEF Spec, HangsAreEnded

\* How far the harness is with a puzzle.
Stage(p) == CASE p = "next" -> 0 [] p = "setjmp" -> 1 [] p = "alarm" -> 2 [] p = "call" -> 3
              [] p = "hang" -> 4 [] p \in {"score", "timeout"} -> 5
              [] OTHER -> 6

\* Every step goes on to the next puzzle, or to a later stage of this one, or to another of
\* the finitely many combinations, which none has been before; and else it is a second,
\* which brings the alarm nearer and changes nothing.
GetsOn ==
  \/ i' = i + 1 /\ i <= Len(TestSet)
  \/ i' = i /\ Stage(pc') > Stage(pc)
  \/ /\ i' = i /\ pc = "call" /\ pc' = "call" /\ vals' = vals
     /\ agreed' = agreed \cup {at} /\ at \notin agreed
     /\ agreed' \subseteq Combos(vals, Test.args)
  \/ i' = i /\ pc' = pc /\ left > 0 /\ left' = left - 1 /\ UNCHANGED <<vals, agreed>>

HarnessGetsOn == [][GetsOn]_vars

\* No step of the harness is for nothing, and none is taken back (run_tests, test_function,
\* the loops of test_0_arg to test_3_arg).
THEOREM HarnessGetsOnHolds == Spec => HarnessGetsOn
<1>1. BInv /\ AlarmSet /\ [Next]_vars => [GetsOn]_vars
  <2> SUFFICES ASSUME BInv, AlarmSet, Next PROVE GetsOn
    BY Zenon
  <2>1. CASE Skip \/ Score
    <3>1. i' = i + 1
      BY <2>1, Zenon DEF Skip, Score
    <3>2. i <= Len(TestSet)
      <4>1. CASE Skip
        BY <4>1 DEF Skip
      <4>2. CASE Score
        BY <4>2, ScoreCounts, PuzzleFacts
      <4> QED BY <2>1, <4>1, <4>2
    <3> QED BY <3>1, <3>2 DEF GetsOn
  <2>2. CASE Generate \/ Setjmp \/ SetAlarm \/ Differ \/ Hang \/ Finish
    <3>1. /\ i' = i
          /\ \/ pc = "next" /\ pc' \in {"setjmp", "call", "done"}
             \/ pc = "setjmp" /\ pc' = "alarm"
             \/ pc = "alarm" /\ pc' = "call"
             \/ pc = "call" /\ pc' \in {"score", "hang"}
      BY <2>2, Zenon DEF Generate, Setjmp, SetAlarm, Differ, Hang, Finish
    <3> QED BY <3>1 DEF GetsOn, Stage
  <2>3. CASE Agree
    <3>1. /\ pc = "call" /\ agreed' = agreed \cup {at} /\ i' = i /\ vals' = vals
          /\ pc' \in {"score", "call"}
      BY <2>3 DEF Agree
    <3>2. at \in Combos(vals, Test.args) /\ agreed = Tested(vals, at, Test.args)
      BY <3>1 DEF BInv, Progress, Testing, Calling
    <3>3. at \notin agreed
      BY <2>3, <3>1, <3>2, LoopFacts DEF Tested, Precedes, Combos, Testing, Calling
    <3>4. agreed \subseteq Combos(vals, Test.args)
      BY <3>2 DEF Tested
    <3> QED BY <3>1, <3>2, <3>3, <3>4 DEF GetsOn, Stage
  <2>4. CASE Second
    <3>1. /\ pc \notin {"done", "undefined"} /\ left > 0 /\ left' = left - 1
          /\ i' = i /\ UNCHANGED <<vals, agreed>>
          /\ (left' = 0 => Jump) /\ (left' # 0 => pc' = pc)
      BY <2>4 DEF Second
    <3>2. CASE left' = 0
      <4>1. \/ pc \in {"alarm", "call", "hang"} /\ pc' = "timeout"
            \/ pc' = "undefined"
        BY <3>1, <3>2 DEF Jump
      <4>2. pc \in Testing \cup {"next"}
        BY <3>1 DEF BInv
      <4> QED BY <3>1, <4>1, <4>2 DEF GetsOn, Stage, Testing, Calling
    <3>3. CASE left' # 0
      BY <3>1, <3>3 DEF GetsOn
    <3> QED BY <3>2, <3>3
  <2> QED BY <2>1, <2>2, <2>3, <2>4 DEF Next, Proceeds
<1> QED BY <1>1, BInvHolds, AlarmHolds, PTL DEF Spec, HarnessGetsOn
=============================================================================
