-------------------------------- MODULE Btest -------------------------------
(***************************************************************************)
(* The test harness of the data lab (datalab-handout/btest.c on decl.c):   *)
(* run_tests goes through the table of puzzles, test_function generates    *)
(* values for each argument, calls the solution and the reference function *)
(* on every combination until they differ, and an alarm that is set before *)
(* the first call ends a function that does not return, by a jump out of   *)
(* the signal handler.  The alarm is never cancelled: a new one replaces   *)
(* it.                                                                     *)
(*                                                                         *)
(* The functions are external: a call gives the reference's result or      *)
(* another one, or does not return.  A word has W bits, and the            *)
(* floating-point format Mantissa bits.                                    *)
(***************************************************************************)
EXTENDS Integers, Sequences, FiniteSets, SequencesExt

CONSTANTS
  TestSet,          \* test_set: a sequence of [args, ranges, rating]
  W, Mantissa,      \* bits of a word, and of the fraction of a float
  TEST_RANGE,
  MAX_TEST_VALS,
  TIMEOUT_LIMIT,    \* seconds
  Fixed,            \* values that -1, -2, -3 may give an argument
  Weights           \* percentages rand() may give

\* A float has an exponent of two bits at least, and the four special values have room
\* beside twelve for each number of the range.
ASSUME BtestAssumption ==
  /\ W \in Nat /\ Mantissa \in 1 .. W - 3
  /\ TEST_RANGE \in Nat /\ TEST_RANGE >= 4
  /\ MAX_TEST_VALS \in Nat /\ MAX_TEST_VALS >= 13 * TEST_RANGE
  /\ TIMEOUT_LIMIT \in Nat \ {0} /\ Weights \subseteq 0 .. 100

Puzzles == [args : 0 .. 3, rating : Nat \ {0}, ranges : Seq(Int \X Int)]

\* The limits of an int.
TMin == -(2 ^ (W - 1))
TMax == (2 ^ (W - 1)) - 1

\* Ranges that gen_vals can do, as those of decl.c are.  The last value less
\* MAX_TEST_VALS is still an int.  A range that is tried exhaustively ends below TMax,
\* where the loop's i <= max would hold for ever, and is not of exactly MAX_TEST_VALS,
\* for which the arrays are one element short.  <<1, 1>> stands for the floats.
Computable(range) ==
  /\ range[2] - MAX_TEST_VALS >= TMin
  /\ range[2] - range[1] <= MAX_TEST_VALS =>
       range[2] < TMax /\ range[2] - range[1] # MAX_TEST_VALS

\* What every entry of decl.c keeps to.
ASSUME TestSetAssumption ==
  /\ TestSet \in Seq(Puzzles)
  /\ \A t \in DOMAIN TestSet :
       /\ TestSet[t].args <= Len(TestSet[t].ranges)
       /\ \A a \in 1 .. TestSet[t].args :
            LET range == TestSet[t].ranges[a]
            IN  /\ TMin <= range[1] /\ range[1] <= range[2] /\ range[2] <= TMax
                /\ range = <<1, 1>> \/ Computable(range)

VARIABLES
  test_fname, global_rating, timeout_limit, fixed,   \* the options
  pc, i,            \* run_tests: where it is, and the puzzle
  vals,             \* arg_test_vals with test_counts, one sequence per argument
  at,               \* a1, a2, a3: the places in them
  terrors, errors, points, max_points,
  envbuf,           \* the call of test_function that sigsetjmp was called in, 0 before
  left,             \* seconds until the alarm, 0 if none is set
  spent,            \* history: seconds since this puzzle's calls began
  agreed,           \* history: combinations on which the functions agreed
  verdicts          \* history: "passed", "wrong" or "timeout" for each puzzle so far

options == <<test_fname, global_rating, timeout_limit, fixed>>
score == <<errors, points, max_points, verdicts>>
vars == <<options, pc, i, vals, at, terrors, score, envbuf, left, spent, agreed>>

Test == TestSet[i]
Args == 1 .. Test.args

Init ==
  /\ test_fname \in {0} \cup DOMAIN TestSet     \* 0: all of them
  /\ global_rating \in {0, 1}
  /\ timeout_limit \in {0, TIMEOUT_LIMIT}
  /\ fixed \in UNION {[S -> Fixed] : S \in SUBSET (1 .. 3)}
  /\ pc = "next" /\ i = 1 /\ vals = <<>> /\ at = <<>>
  /\ terrors = 0 /\ errors = 0 /\ points = 0 /\ max_points = 0
  /\ envbuf = 0 /\ left = 0 /\ spent = 0 /\ agreed = {}
  /\ verdicts = [t \in DOMAIN TestSet |-> "none"]

-----------------------------------------------------------------------------
(* gen_vals.                                                               *)

\* Floats: the bit patterns around zero, the least normalised one, 1 and the
\* greatest; then the infinities and NaNs.
sign == 2 ^ (W - 1)
smallest_norm == 2 ^ Mantissa
inf == sign - smallest_norm
largest_norm == inf - smallest_norm
one == ((2 ^ (W - 2 - Mantissa)) - 1) * smallest_norm
nan == inf + (2 ^ (Mantissa - 1))

\* The powers of two used, for the proofs.
ASSUME BtestPowers ==
  /\ 2 ^ (Mantissa - 1) \in Nat \ {0} /\ smallest_norm = 2 * (2 ^ (Mantissa - 1))
  /\ 2 ^ (W - 2 - Mantissa) \in Nat /\ 2 ^ (W - 2 - Mantissa) >= 2
  /\ sign = 2 * (2 ^ (W - 2 - Mantissa)) * smallest_norm

FloatVals(range) ==
  FlattenSeq([k \in 1 .. (IF range > smallest_norm THEN smallest_norm ELSE range) |->
    LET n == k - 1
    IN  <<n, sign + n,
          smallest_norm + n, smallest_norm - n,
          sign + smallest_norm + n, sign + smallest_norm - n,
          one + n, one - n, sign + one + n, sign + one - n,
          largest_norm - n, sign + largest_norm - n>>])
    \o <<inf, sign + inf, nan, sign + nan>>

\* random_val: the int nearest to zero between the two weighted bounds.
Truncated(n) == IF n >= 0 THEN n \div 100 ELSE -((-n) \div 100)
random_val(min, max, weight) == Truncated((min * (100 - weight)) + (max * weight))

\* Mutant: the far end of the range is never tried.
Sampled_NoMax(min, max, range, weights) ==
  FlattenSeq([k \in 1 .. range |->
    LET n == k - 1
    IN  <<min + n, max - k>>
        \o (IF min <= n /\ n <= max THEN <<n>> ELSE <<>>)
        \o (IF min <= -n /\ -n <= max THEN <<-n>> ELSE <<>>)
        \o <<random_val(min, max, weights[k])>>])

\* Integers near both ends, around zero, and a random one.
Sampled(min, max, range, weights) ==
  FlattenSeq([k \in 1 .. range |->
    LET n == k - 1
    IN  <<min + n, max - n>>
        \o (IF min <= n /\ n <= max THEN <<n>> ELSE <<>>)
        \o (IF min <= -n /\ -n <= max THEN <<-n>> ELSE <<>>)
        \o <<random_val(min, max, weights[k])>>])

Exhaustive(min, max) == [k \in 1 .. (max - min) + 1 |-> min + k - 1]

\* The ints computed on the way to the values of an integer argument, the loop counter's
\* last one included.
Computed(min, max, range) ==
  {max - MAX_TEST_VALS} \cup
  IF max - MAX_TEST_VALS <= min THEN min .. max + 1
  ELSE UNION {{min + n, max - n, n, -n, n + 1} : n \in 0 .. range - 1}

gen_vals(min, max, range, weights, a) ==
  IF a \in DOMAIN fixed THEN <<fixed[a]>>
  ELSE IF min = 1 /\ max = 1 THEN FloatVals(range)
  ELSE IF max - MAX_TEST_VALS <= min THEN Exhaustive(min, max)
  ELSE Sampled(min, max, range, weights)

\* TEST_RANGE for one argument, its root for two, its cube root for three (0.333 as an
\* exponent gives the same for TEST_RANGE).
Power(r, args) == CASE args = 1 -> r [] args = 2 -> r * r [] OTHER -> r * r * r
TestRange(args) ==
  CHOOSE r \in 1 .. TEST_RANGE : Power(r, args) <= TEST_RANGE /\ Power(r + 1, args) > TEST_RANGE

-----------------------------------------------------------------------------
(* run_tests.                                                              *)

\* A puzzle that -f did not ask for is passed over.
Skip ==
  /\ pc = "next" /\ i <= Len(TestSet) /\ test_fname \notin {0, i}
  /\ i' = i + 1
  /\ UNCHANGED <<options, pc, vals, at, terrors, score, envbuf, left, spent, agreed>>

\* test_function: values for each argument.
Generate ==
  /\ pc = "next" /\ i <= Len(TestSet) /\ test_fname \in {0, i}
  /\ \E weights \in [Args -> [1 .. TestRange(Test.args) -> Weights]] :
       vals' = [a \in Args |-> gen_vals(Test.ranges[a][1], Test.ranges[a][2],
                                        TestRange(Test.args), weights[a], a)]
  /\ at' = [a \in Args |-> 1] /\ terrors' = 0
  /\ pc' = (IF timeout_limit > 0 THEN "setjmp" ELSE "call")
  /\ spent' = 0 /\ agreed' = {}
  /\ UNCHANGED <<options, i, score, envbuf, left>>

Setjmp ==
  /\ pc = "setjmp"
  /\ envbuf' = i /\ pc' = "alarm"
  /\ UNCHANGED <<options, i, vals, at, terrors, score, left, spent, agreed>>

\* Mutant: an alarm that is set already stays.
SetAlarm_KeepsOld ==
  /\ pc = "alarm"
  /\ left' = (IF left = 0 THEN timeout_limit ELSE left) /\ pc' = "call" /\ spent' = 0
  /\ UNCHANGED <<options, i, vals, at, terrors, score, envbuf, agreed>>

SetAlarm ==
  /\ pc = "alarm"
  /\ left' = timeout_limit /\ pc' = "call" /\ spent' = 0
  /\ UNCHANGED <<options, i, vals, at, terrors, score, envbuf, agreed>>

\* The nested loops: the last argument changes fastest.
Combination == [a \in Args |-> vals[a][at[a]]]
Carry == {a \in Args : \A b \in a + 1 .. Test.args : at[b] = Len(vals[b])}
\* Mutant: one loop ends a value early.
Turns_Short == {a \in Carry : at[a] < Len(vals[a]) - 1}

Turns == {a \in Carry : at[a] < Len(vals[a])}


\* test_0_arg to test_3_arg: the results are equal, and the loops go on.
Agree ==
  /\ pc = "call"
  /\ agreed' = agreed \cup {at}
  /\ IF Turns = {} THEN pc' = "score" /\ UNCHANGED at
     ELSE /\ \E a \in Turns : at' = [b \in Args |-> IF b = a THEN at[b] + 1
                                                    ELSE IF b > a THEN 1 ELSE at[b]]
          /\ UNCHANGED pc
  /\ UNCHANGED <<options, i, vals, terrors, score, envbuf, left, spent>>

\* They differ: the first error ends the puzzle.
Differ ==
  /\ pc = "call"
  /\ terrors' = 1 /\ pc' = "score"
  /\ UNCHANGED <<options, i, vals, at, score, envbuf, left, spent, agreed>>

\* The solution never returns.
Hang ==
  /\ pc = "call" /\ pc' = "hang"
  /\ UNCHANGED <<options, i, vals, at, terrors, score, envbuf, left, spent, agreed>>

\* What a puzzle is worth.
Rating(t) == IF global_rating # 0 THEN global_rating ELSE TestSet[t].rating

\* The puzzle's rating for no error, nothing for one.
Score ==
  /\ pc \in {"score", "timeout"}
  /\ points' = points + (IF terrors = 0 THEN Rating(i) ELSE 0)
  /\ max_points' = max_points + Rating(i)
  /\ errors' = errors + terrors
  /\ verdicts' = [verdicts EXCEPT ![i] = IF terrors = 0 THEN "passed"
                                         ELSE IF pc = "timeout" THEN "timeout" ELSE "wrong"]
  /\ pc' = "next" /\ i' = i + 1
  /\ vals' = <<>> /\ at' = <<>> /\ terrors' = 0 /\ agreed' = {}
  /\ UNCHANGED <<options, envbuf, left, spent>>

Finish ==
  /\ pc = "next" /\ i > Len(TestSet) /\ pc' = "done"
  /\ UNCHANGED <<options, i, vals, at, terrors, score, envbuf, left, spent, agreed>>

-----------------------------------------------------------------------------
\* Mutant: after the message the puzzle goes on.
Jump_NoReturn ==
  IF envbuf = i /\ pc \in {"alarm", "call", "hang"}
  THEN terrors' = 1 /\ pc' = "call"
  ELSE pc' = "undefined" /\ UNCHANGED terrors

\* timeout_handler jumps to where sigsetjmp was called last.  If that call of
\* test_function is over the jump is undefined, and may do anything.
Jump ==
  IF envbuf = i /\ pc \in {"alarm", "call", "hang"}
  THEN terrors' = 1 /\ pc' = "timeout"
  ELSE pc' = "undefined" /\ UNCHANGED terrors

\* A second goes by; it may be the last one before the alarm.
Second ==
  /\ pc \notin {"done", "undefined"} /\ left > 0
  /\ left' = left - 1 /\ spent' = spent + 1
  /\ IF left' = 0 THEN Jump ELSE UNCHANGED <<pc, terrors>>
  /\ UNCHANGED <<options, i, vals, at, score, envbuf, agreed>>

Proceeds ==
  \/ Skip \/ Generate \/ Setjmp \/ SetAlarm \/ Agree \/ Differ \/ Hang
  \/ Score \/ Finish

Next == Proceeds \/ Second

Spec == Init /\ [][Next]_vars

\* The program runs and time goes by.
FairSpec == Spec /\ WF_vars(Proceeds) /\ WF_vars(Second)

-----------------------------------------------------------------------------
(* Properties.                                                             *)

\* The arrays hold the values generated, and these try both ends of the range, its
\* zero, and nothing outside (gen_vals), and no int overflows on the way to them; for
\* floats, both zeros, both infinities and NaN.
ValuesFit ==
  \A a \in DOMAIN vals \ DOMAIN fixed :
    LET min == Test.ranges[a][1]
        max == Test.ranges[a][2]
        tried == {vals[a][k] : k \in DOMAIN vals[a]}
    IN  /\ Len(vals[a]) <= MAX_TEST_VALS
        /\ IF min = 1 /\ max = 1
           THEN /\ {0, sign, one, smallest_norm, inf, sign + inf, nan} \subseteq tried
                /\ tried \subseteq 0 .. (2 * sign) - 1
           ELSE /\ {min, max} \cup ({0} \cap min .. max) \subseteq tried
                /\ tried \subseteq min .. max
                /\ Computed(min, max, TestRange(Test.args)) \subseteq TMin .. TMax

\* The ratings r of the puzzles whose verdict v is one of the kinds, added up.
Total(r, v, kinds) ==
  LET sum[n \in 0 .. Len(TestSet)] ==
        IF n = 0 THEN 0 ELSE sum[n - 1] + (IF v[n] \in kinds THEN r[n] ELSE 0)
  IN  sum[Len(TestSet)]

Ratings == [t \in DOMAIN TestSet |-> Rating(t)]
Failed == {t \in DOMAIN TestSet : verdicts[t] \in {"wrong", "timeout"}}
AllPlaces == {c \in [Args -> UNION {DOMAIN vals[a] : a \in Args}] :
                \A a \in Args : c[a] \in DOMAIN vals[a]}

\* The books are right: the points are the ratings of the puzzles passed, out of those
\* of all the puzzles tested, and every other one of these is an error (run_tests).
Accounted ==
  /\ points = Total(Ratings, verdicts, {"passed"})
  /\ max_points = Total(Ratings, verdicts, {"passed", "wrong", "timeout"})
  /\ errors = Cardinality(Failed)

\* Points change only with a puzzle that passes, and a puzzle passes only in its turn
\* and when the functions agreed on every combination of its values (test_function).
Earns ==
  /\ points' # points => verdicts[i] = "none" /\ verdicts'[i] = "passed"
  /\ \A t \in DOMAIN TestSet :
       verdicts'[t] = "passed" /\ verdicts[t] # "passed" => t = i /\ agreed = AllPlaces

\* The total is always the sum of the ratings of the puzzles passed, and it rises only
\* for a puzzle on which the functions agreed throughout, whatever alarm goes off in
\* between (test_function, run_tests).
PointsEarned == []Accounted /\ [][Earns]_vars

\* With a time limit the harness comes to its end, functions that do not return or
\* not: the alarm ends them (test_function, timeout_handler).  The end may be a bad one:
\* the jump into a call that is over ("undefined") counts as an end here; StrayAlarms
\* says when it comes.  Without a limit the harness may wait for ever.
HarnessEnds == timeout_limit > 0 ~> pc \in {"done", "undefined"}

\* An alarm that goes off while the functions run ends their own puzzle, after exactly
\* the limit.  At any other time it is a stray one, which nobody has cancelled: that of
\* this puzzle after its last call, whose jump finds test_function over, or that of an
\* earlier puzzle which passed or failed, before this one's is set (test_function,
\* timeout_handler).
StrayAlarms ==
  [][left > 0 /\ left' = 0 =>
       \/ pc \in {"call", "hang"} /\ pc' = "timeout" /\ spent' = timeout_limit
       \/ pc = "score" /\ pc' = "undefined"
       \/ /\ pc \in {"next", "setjmp", "alarm"}
          /\ \E t \in 1 .. i - 1 : verdicts[t] \in {"passed", "wrong"}]_vars
=============================================================================
