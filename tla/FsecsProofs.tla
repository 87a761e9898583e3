---------------------------- MODULE FsecsProofs ----------------------------
(***************************************************************************)
(* What the timers of Fsecs promise, for every width of a word, every start *)
(* of the counter and the clock, every duration and every setting of fcyc: *)
(* the two-word counter, the times of seconds and microseconds, and the    *)
(* samples that fcyc keeps, and how far it is from its return.             *)
(***************************************************************************)
EXTENDS Fsecs, NatFacts

-----------------------------------------------------------------------------
(* The counter.                                                            *)

\* A sum of two numbers below m is at most once m too large.
LEMMA Wrapped ==
  ASSUME NEW m \in Nat \ {0}, NEW t \in 0 .. m - 1, NEW s \in 0 .. m - 1
  PROVE  (t + s) % m \in {t + s, t + s - m}
<1> DEFINE x == t + s
<1>1. x \in Int /\ -m <= x /\ x < 2 * m /\ x >= 0
  OBVIOUS
<1> HIDE DEF x
<1>2. x % m \in {x, x - m}
  BY <1>1, Remainder
<1> QED BY <1>2 DEF x

\* The words of a reading of the counter.
LEMMA Words ==
  ASSUME NEW t \in 0 .. (B * B) - 1
  PROVE  /\ High(t) \in 0 .. B - 1 /\ Low(t) \in 0 .. B - 1
         /\ t = (B * High(t)) + Low(t)
<1>1. B \in Nat \ {0} /\ B * B \in Nat
  BY FcycAssumption
<1>2. t \in Nat /\ t < B * B
  BY <1>1
<1>3. /\ High(t) \in Int /\ Low(t) \in 0 .. B - 1
      /\ t = (B * High(t)) + Low(t)
  BY <1>1, <1>2, DivMod DEF High, Low
<1>4. High(t) >= 0
  BY <1>1, <1>2, <1>3, Multiple
<1>5. High(t) < B
  <2>1. SUFFICES ASSUME High(t) - B >= 0 PROVE FALSE
    BY <1>1, <1>3
  <2>2. B * (High(t) - B) >= 0
    BY <1>1, <1>3, <2>1
  <2>3. B * (High(t) - B) = (B * High(t)) - (B * B)
    BY <1>1, <1>3
  <2> QED BY <1>1, <1>2, <1>3, <2>2, <2>3
<1> QED BY <1>1, <1>3, <1>4, <1>5

\* get_counter's subtraction gives what the counter advanced by, if that is less
\* than the counter can hold (clock.c, get_counter).
LEMMA ElapsedExact ==
  ASSUME NEW t \in 0 .. (B * B) - 1, NEW s \in 0 .. (B * B) - 1,
         NEW u \in 0 .. (B * B) - 1, u = (t + s) % (B * B),
         cyc_hi = High(t), cyc_lo = Low(t)
  PROVE  Elapsed(High(u), Low(u)) = s
<1> DEFINE M == B * B
           lo == (Low(u) - Low(t)) % B
           borrow == IF lo > Low(u) THEN 1 ELSE 0
           hi == (High(u) - High(t) - borrow) % B
<1>1. B \in Nat \ {0} /\ B > 1 /\ M \in Nat \ {0}
  BY FcycAssumption
<1>2. u = t + s \/ u = t + s - M
  <2>1. M \in Nat \ {0} /\ t \in 0 .. M - 1 /\ s \in 0 .. M - 1 /\ u = (t + s) % M
    BY <1>1
  <2> HIDE DEF M
  <2> QED BY <2>1, Wrapped
<1>3. /\ High(t) \in 0 .. B - 1 /\ Low(t) \in 0 .. B - 1 /\ t = (B * High(t)) + Low(t)
      /\ High(u) \in 0 .. B - 1 /\ Low(u) \in 0 .. B - 1 /\ u = (B * High(u)) + Low(u)
  BY Words
<1>4. Elapsed(High(u), Low(u)) = (hi * B) + lo
  BY DEF Elapsed
<1>5. /\ lo = (Low(u) - Low(t)) + (IF Low(u) < Low(t) THEN B ELSE 0)
      /\ borrow = IF Low(u) < Low(t) THEN 1 ELSE 0
      /\ lo \in 0 .. B - 1
  <2> DEFINE x == Low(u) - Low(t)
  <2>1. x \in Int /\ -B <= x /\ x < B
    BY <1>1, <1>3
  <2>2. x % B = IF x < 0 THEN x + B ELSE x
    <3> HIDE DEF x
    <3>1. x < 2 * B
      BY <1>1, <2>1
    <3> QED BY <1>1, <2>1, <3>1, Remainder
  <2> QED BY <1>1, <1>3, <2>1, <2>2
<1> HIDE DEF lo, borrow
<1>6. /\ hi \in 0 .. B - 1
      /\ \/ hi = High(u) - High(t) - borrow
         \/ hi = (High(u) - High(t) - borrow) + B
  <2> DEFINE x == High(u) - High(t) - borrow
  <2>1. x \in Int /\ -B <= x /\ x < B
    BY <1>1, <1>3, <1>5
  <2>2. x % B = IF x < 0 THEN x + B ELSE x
    <3> HIDE DEF x
    <3>1. x < 2 * B
      BY <1>1, <2>1
    <3> QED BY <1>1, <2>1, <3>1, Remainder
  <2> QED BY <1>1, <1>3, <1>5, <2>1, <2>2
<1> HIDE DEF hi
<1>7. (hi * B) + lo \in {u - t, (u - t) + M}
  <2>1. CASE hi = High(u) - High(t) - borrow
    <3>1. (hi * B) = (B * High(u)) - (B * High(t)) - (B * borrow)
      BY <1>1, <1>3, <1>5, <2>1
    <3>2. (B * borrow) = IF Low(u) < Low(t) THEN B ELSE 0
      BY <1>1, <1>5
    <3>3. hi * B \in Int /\ B * High(u) \in Int /\ B * High(t) \in Int
      BY <1>1, <1>3, <1>6
    <3> HIDE DEF M
    <3> QED BY <1>1, <1>3, <1>5, <3>1, <3>2, <3>3
  <2>2. CASE hi = (High(u) - High(t) - borrow) + B
    <3>1. (hi * B) = ((B * High(u)) - (B * High(t)) - (B * borrow)) + M
      BY <1>1, <1>3, <1>5, <2>2
    <3>2. (B * borrow) = IF Low(u) < Low(t) THEN B ELSE 0
      BY <1>1, <1>5
    <3>3. hi * B \in Int /\ B * High(u) \in Int /\ B * High(t) \in Int
      BY <1>1, <1>3, <1>6
    <3> HIDE DEF M
    <3> QED BY <1>1, <1>3, <1>5, <3>1, <3>2, <3>3
  <2> QED BY <1>6, <2>1, <2>2
<1>8. (hi * B) + lo \in 0 .. M - 1
  <2>1. hi * B \in Int /\ (hi * B) >= 0
    BY <1>1, <1>6
  <2>2. (B - 1 - hi) * B >= 0
    BY <1>1, <1>6
  <2>3. (B - 1 - hi) * B = M - B - (hi * B)
    BY <1>1, <1>6
  <2> HIDE DEF M
  <2> QED BY <1>1, <1>5, <1>6, <2>1, <2>2, <2>3
<1> HIDE DEF M
<1>9. t \in Int /\ u \in Int /\ s \in 0 .. M - 1
  BY <1>1 DEF M
<1> QED BY <1>1, <1>2, <1>4, <1>7, <1>8, <1>9

\* The words that were recorded are those of the counter until the function runs.
CounterInv ==
  /\ tsc \in 0 .. (B * B) - 1
  /\ pc = "call" => cyc_hi = High(tsc) /\ cyc_lo = Low(tsc)
  /\ CounterExact

\* The counter keeps its width, whatever is added (Advance).
LEMMA AdvanceInRange ==
  ASSUME tsc \in 0 .. (B * B) - 1, NEW n \in Int
  PROVE  Advance(n) \in 0 .. (B * B) - 1
<1>1. B * B \in Nat \ {0} /\ tsc + n \in Int
  BY FcycAssumption
<1> QED BY <1>1, DivMod DEF Advance

\* What CounterInv says is kept by every step.
LEMMA CounterStep == CounterInv /\ [Next]_vars => CounterInv'
<1> SUFFICES ASSUME CounterInv, [Next]_vars PROVE CounterInv'
  OBVIOUS
<1> USE DEF machineVars, startVars, calVars, paramVars, sampler, fcycVars, ftimerVars
<1>1. CASE Start
  <2>1. PICK late \in {0, 1} : tsc' = Advance(late * TickCost)
    BY <1>1 DEF Start
  <2>2. late * TickCost \in Int
    BY <2>1, FcycAssumption
  <2>3. tsc' \in 0 .. (B * B) - 1
    BY <2>1, <2>2, AdvanceInRange DEF CounterInv
  <2> QED BY <1>1, <2>3 DEF Start, start_counter, CounterInv, CounterExact
<1>2. CASE FRuns
  <2>1. PICK d \in Durations, tick \in {0, 1} : spent' = d + (tick * TickCost)
    BY <1>2 DEF FRuns
  <2>2. spent' \in 0 .. (B * B) - 1
    BY <2>1, FcycAssumption
  <2>3. tsc' = (tsc + spent') % (B * B) /\ tsc' \in 0 .. (B * B) - 1
    BY <1>2, <2>2, AdvanceInRange DEF FRuns, Advance, CounterInv
  <2>4. cyc_hi = High(tsc) /\ cyc_lo = Low(tsc)
    BY <1>2 DEF FRuns, CounterInv
  <2>5. Elapsed(High(tsc'), Low(tsc')) = spent'
    BY <2>2, <2>3, <2>4, ElapsedExact DEF CounterInv
  <2> QED BY <1>2, <2>3, <2>5 DEF FRuns, CounterInv, CounterExact, get_counter, Elapsed
<1>3. ASSUME tsc' = tsc, pc' \notin {"call", "sample"} PROVE CounterInv'
  BY <1>3 DEF CounterInv, CounterExact
<1>4. ASSUME UNCHANGED <<pc, machineVars, startVars, spent>> PROVE CounterInv'
  BY <1>4 DEF CounterInv, CounterExact, get_counter, Elapsed
<1>5. CASE SetParameter
  BY <1>5, <1>4 DEF SetParameter
<1>6. CASE Fcyc
  BY <1>6, <1>3 DEF Fcyc
<1>7. CASE clear
  BY <1>7, <1>3 DEF clear
<1>8. CASE Callibrate \/ CalDone
  BY <1>8, <1>3 DEF Callibrate, CalDone
<1>9. CASE CalGap
  BY <1>9, <1>4 DEF CalGap
<1>10. CASE Sample
  BY <1>10, <1>3 DEF Sample
<1>11. CASE Again \/ Done \/ Return
  BY <1>11, <1>3 DEF Again, Done, Return
<1>12. CASE Ftimer \/ LoopDone
  BY <1>12, <1>3 DEF Ftimer, LoopDone
<1>13. CASE LoopRuns
  BY <1>13, <1>3 DEF LoopRuns
<1>14. CASE ClockStep
  BY <1>14, <1>4 DEF ClockStep
<1>15. CASE UNCHANGED vars
  BY <1>15, <1>4 DEF vars
<1> QED BY <1>1, <1>2, <1>5, <1>6, <1>7, <1>8, <1>9, <1>10, <1>11, <1>12, <1>13,
          <1>14, <1>15 DEF Next, FcycStep

\* A sample is the number of cycles since start_counter, for every width of a
\* word and every value the counter had (clock.c, get_counter).
THEOREM CounterExactHolds == Spec => []CounterExact
<1>1. Init => CounterInv
  BY DEF Init, FcycInit, CounterInv, CounterExact
<1>2. CounterInv => CounterExact
  BY DEF CounterInv
<1> QED BY <1>1, <1>2, CounterStep, PTL DEF Spec

-----------------------------------------------------------------------------
(* The timers.                                                             *)

\* Seconds and microseconds give back the difference of two times.
LEMMA DiffExact ==
  ASSUME NEW a \in Int, NEW b \in Int
  PROVE  Diff(Timeval(a), Timeval(b)) = a - b
<1> DEFINE p == a \div U
           q == b \div U
           r == a % U
           s == b % U
<1>1. U \in Nat \ {0}
  BY FsecsAssumption
<1>2. p \in Int /\ r \in Int /\ a = (U * p) + r
  BY <1>1, DivMod
<1>3. q \in Int /\ s \in Int /\ b = (U * q) + s
  BY <1>1, DivMod
<1>4. Diff(Timeval(a), Timeval(b)) = (U * (p - q)) + (r - s)
  BY DEF Diff, Timeval
<1> HIDE DEF p, q, r, s
<1>5. U * (p - q) = (U * p) - (U * q) /\ U * p \in Int /\ U * q \in Int
  BY <1>1, <1>2, <1>3
<1> QED BY <1>2, <1>3, <1>4, <1>5

\* The recorded time is that of the first run, moved along with the clock.
TimerInv ==
  /\ package \in {"FCYC", "ITIMER", "GETTOD"}
  /\ elapsed \in Int /\ stepped \in Int /\ clock \in Int
  /\ pc = "loop" /\ package = "ITIMER" => start = Timeval(MAX_ETIME * U)
  /\ pc = "loop" /\ package = "GETTOD" => start = Timeval(clock - elapsed - stepped)
  /\ RunsTimed

\* What TimerInv says is kept by every step.
LEMMA TimerStep == TimerInv /\ [Next]_vars => TimerInv'
<1> SUFFICES ASSUME TimerInv, [Next]_vars PROVE TimerInv'
  OBVIOUS
<1> USE DEF machineVars, startVars, calVars, paramVars, sampler, fcycVars, ftimerVars
<1>1. CASE FcycStep
  BY <1>1 DEF FcycStep, TimerInv, RunsTimed
<1>2. CASE Return
  BY <1>2 DEF Return, TimerInv, RunsTimed
<1>3. CASE Ftimer
  <2>1. clock' \in Int /\ elapsed' = 0 /\ stepped' = 0 /\ package' = package /\ pc' = "loop"
    BY <1>3, FsecsAssumption DEF Ftimer
  <2>2. start' = IF package = "ITIMER" THEN Timeval(MAX_ETIME * U) ELSE Timeval(clock')
    BY <1>3 DEF Ftimer
  <2>3. clock' - elapsed' - stepped' = clock'
    <3>1. \A c \in Int : c - 0 - 0 = c
      OBVIOUS
    <3> QED BY <2>1, <3>1
  <2> QED BY <2>1, <2>2, <2>3 DEF TimerInv, RunsTimed
<1>4. CASE LoopRuns
  <2>1. PICK d \in Durations : elapsed' = elapsed + d /\ clock' = clock + d
    BY <1>4 DEF LoopRuns
  <2>2. d \in Nat
    BY FcycAssumption
  <2>3. /\ pc = "loop" /\ pc' \in {"loop", "killed"}
        /\ start' = start /\ stepped' = stepped /\ package' = package
    BY <1>4 DEF LoopRuns
  <2>4. /\ elapsed' \in Int /\ clock' \in Int
        /\ clock' - elapsed' - stepped' = clock - elapsed - stepped
    BY <2>1, <2>2, <2>3 DEF TimerInv
  <2> QED BY <2>3, <2>4 DEF TimerInv, RunsTimed
<1>5. CASE ClockStep
  <2>1. PICK s \in Steps : clock' = clock + s /\ stepped' = stepped + s
    BY <1>5 DEF ClockStep
  <2>2. s \in Int
    BY FsecsAssumption
  <2>3. pc' = pc /\ start' = start /\ elapsed' = elapsed /\ package' = package /\ pc = "loop"
    BY <1>5 DEF ClockStep
  <2>4. /\ stepped' \in Int /\ clock' \in Int
        /\ clock' - elapsed' - stepped' = clock - elapsed - stepped
    BY <2>1, <2>2, <2>3 DEF TimerInv
  <2>5. package = "GETTOD"
    BY <1>5 DEF ClockStep
  <2> QED BY <2>3, <2>4, <2>5 DEF TimerInv, RunsTimed
<1>6. CASE LoopDone
  <2>1. /\ pc = "loop" /\ pc' = "done" /\ package' = package
        /\ elapsed' = elapsed /\ stepped' = stepped /\ clock' = clock
        /\ result' = IF package = "ITIMER" THEN Diff(start, Reading) ELSE Diff(Reading, start)
    BY <1>6 DEF LoopDone
  <2>2. MAX_ETIME * U \in Int
    BY FsecsAssumption
  <2>3. ASSUME package = "ITIMER" PROVE result' = elapsed
    <3>1. start = Timeval(MAX_ETIME * U) /\ Reading = Timeval((MAX_ETIME * U) - elapsed)
      BY <2>1, <2>3 DEF TimerInv, Reading, Remaining
    <3>2. (MAX_ETIME * U) - elapsed \in Int
      BY <2>2 DEF TimerInv
    <3>3. result' = (MAX_ETIME * U) - ((MAX_ETIME * U) - elapsed)
      BY <2>1, <2>2, <2>3, <3>1, <3>2, DiffExact
    <3> QED BY <2>2, <3>3 DEF TimerInv
  <2>4. ASSUME package = "GETTOD" PROVE result' = elapsed + stepped
    <3>1. start = Timeval(clock - elapsed - stepped) /\ Reading = Timeval(clock)
      BY <2>1, <2>4 DEF TimerInv, Reading
    <3>2. clock - elapsed - stepped \in Int /\ clock \in Int
      BY DEF TimerInv
    <3>3. result' = clock - (clock - elapsed - stepped)
      BY <2>1, <2>4, <3>1, <3>2, DiffExact
    <3> QED BY <3>3 DEF TimerInv
  <2> QED BY <2>1, <2>3, <2>4 DEF TimerInv, RunsTimed
<1>7. CASE UNCHANGED vars
  BY <1>7 DEF vars, TimerInv, RunsTimed
<1> QED BY <1>1, <1>2, <1>3, <1>4, <1>5, <1>6, <1>7 DEF Next

\* The interval timer and the clock of the day give the time of the runs, whatever
\* the runs take and whenever they start; the clock also by how much somebody has
\* set it in between (ftimer.c, ftimer_itimer and ftimer_gettod).
THEOREM RunsTimedHolds == Spec => []RunsTimed
<1>1. Init => TimerInv
  BY FsecsAssumption DEF Init, FcycInit, TimerInv, RunsTimed
<1>2. TimerInv => RunsTimed
  BY DEF TimerInv
<1> QED BY <1>1, <1>2, TimerStep, PTL DEF Spec

-----------------------------------------------------------------------------
(* The sampler.                                                            *)

\* The first n places of vals are in order.
Ordered(vals, n) == \A i, j \in 0 .. n - 1 : i < j => vals[i] <= vals[j]

\* Each of them holds a sample of its own: from tells which.
KeptBy(from, vals, n, sams) ==
  /\ from \in [0 .. n - 1 -> 1 .. Len(sams)]
  /\ \A i \in 0 .. n - 1 : sams[from[i]] = vals[i]
  /\ \A i, j \in 0 .. n - 1 : from[i] = from[j] => i = j

Kept(vals, n, sams) == \E from : KeptBy(from, vals, n, sams)

\* What Sifted does to the place pos, when the places below are in order.
LEMMA SiftedPlace ==
  ASSUME NEW k \in Nat \ {0}, NEW vals \in [0 .. k - 1 -> Int], NEW pos \in 0 .. k - 1
  PROVE  \E to \in 0 .. pos :
           /\ to = 0 \/ vals[to - 1] <= vals[pos]
           /\ \A q \in to .. pos - 1 : vals[q] > vals[pos]
           /\ Sifted(vals, pos) =
                [i \in 0 .. k - 1 |-> IF i = to THEN vals[pos]
                                      ELSE IF i \in to + 1 .. pos THEN vals[i - 1]
                                      ELSE vals[i]]
<1> DEFINE Above(p) == \A q \in p .. pos - 1 : vals[q] > vals[pos]
           S == {p \in 0 .. pos : Above(p)}
           Place(p) == (p = 0 \/ vals[p - 1] <= vals[pos]) /\ Above(p)
           to == CHOOSE p \in 0 .. pos : Place(p)
<1>1. pos \in S /\ S \in SUBSET Nat
  OBVIOUS
<1>2. PICK p \in S : \A y \in S : p <= y
  <2> HIDE DEF S
  <2> QED BY <1>1, LeastNat
<1>3. Place(p)
  <2>1. SUFFICES ASSUME p # 0, vals[p - 1] > vals[pos] PROVE FALSE
    BY <1>2
  <2>2. p - 1 \in 0 .. pos /\ ~(p <= p - 1)
    BY <1>2, <2>1
  <2>3. Above(p - 1)
    <3> SUFFICES ASSUME NEW q \in p - 1 .. pos - 1 PROVE vals[q] > vals[pos]
      OBVIOUS
    <3>1. q = p - 1 \/ q \in p .. pos - 1
      BY <1>2, <2>2
    <3> QED BY <1>2, <2>1, <3>1
  <2> HIDE DEF Above
  <2> QED BY <1>2, <2>2, <2>3
<1>4. p \in 0 .. pos
  BY <1>2
<1>5. to \in 0 .. pos /\ Place(to)
  <2> HIDE DEF Place
  <2> QED BY <1>3, <1>4
<1>6. Sifted(vals, pos) =
        [i \in 0 .. k - 1 |-> IF i = to THEN vals[pos]
                              ELSE IF i \in to + 1 .. pos THEN vals[i - 1]
                              ELSE vals[i]]
  BY Zenon DEF Sifted
<1> HIDE DEF to
<1> QED BY <1>5, <1>6

\* A sample put at pos and sifted down: the places up to pos are in order and hold
\* samples, the first of them the least (add_sample).
LEMMA Insert ==
  ASSUME NEW k \in Nat \ {0}, NEW old \in [0 .. k - 1 -> Int], NEW pos \in 0 .. k - 1,
         NEW sams \in Seq(Int), NEW val \in Int,
         Ordered(old, pos), Kept(old, pos, sams)
  PROVE  LET new == Sifted([old EXCEPT ![pos] = val], pos)
         IN  /\ new \in [0 .. k - 1 -> Int]
             /\ Ordered(new, pos + 1)
             /\ Kept(new, pos + 1, Append(sams, val))
             /\ new[0] <= val
             /\ pos > 0 => new[0] <= old[0]
<1> DEFINE vals == [old EXCEPT ![pos] = val]
           new == Sifted(vals, pos)
<1>1. /\ vals \in [0 .. k - 1 -> Int] /\ vals[pos] = val
      /\ \A i \in 0 .. pos - 1 : vals[i] = old[i]
  OBVIOUS
<1> HIDE DEF vals
<1>2. PICK to \in 0 .. pos :
        /\ to = 0 \/ vals[to - 1] <= vals[pos]
        /\ \A q \in to .. pos - 1 : vals[q] > vals[pos]
        /\ new = [i \in 0 .. k - 1 |-> IF i = to THEN vals[pos]
                                       ELSE IF i \in to + 1 .. pos THEN vals[i - 1]
                                       ELSE vals[i]]
  <2>1. vals \in [0 .. k - 1 -> Int]
    BY <1>1
  <2> QED BY ONLY <2>1, k \in Nat \ {0}, pos \in 0 .. k - 1, SiftedPlace, Zenon
<1> HIDE DEF new
<1>3. \A i \in 0 .. pos : i = to \/ (i < to /\ i \in 0 .. pos - 1)
                          \/ (i \in to + 1 .. pos /\ i - 1 \in to .. pos - 1 /\ i - 1 \in 0 .. pos - 1)
  OBVIOUS
<1>4. /\ new[to] = val
      /\ \A i \in 0 .. pos : i < to => new[i] = old[i]
      /\ \A i \in to + 1 .. pos : new[i] = old[i - 1]
  <2>1. new[to] = val
    BY <1>1, <1>2
  <2>2. ASSUME NEW i \in 0 .. pos, i < to PROVE new[i] = old[i]
    BY <1>1, <1>2, <2>2
  <2>3. ASSUME NEW i \in to + 1 .. pos PROVE new[i] = old[i - 1]
    <3>1. i \in 0 .. k - 1 /\ i # to /\ i - 1 \in 0 .. pos - 1
      BY <2>3
    <3>2. new[i] = vals[i - 1]
      BY <1>2, <2>3, <3>1
    <3> QED BY <1>1, <3>1, <3>2
  <2> QED BY <2>1, <2>2, <2>3
<1>5. new \in [0 .. k - 1 -> Int]
  <2> SUFFICES ASSUME NEW i \in 0 .. k - 1 PROVE new[i] \in Int
    BY <1>2
  <2>1. i \in to + 1 .. pos => i - 1 \in 0 .. k - 1
    OBVIOUS
  <2> QED BY <1>1, <1>2, <2>1
<1>6. /\ to = 0 \/ (to - 1 \in 0 .. pos - 1 /\ old[to - 1] <= val)
      /\ \A q \in to .. pos - 1 : q \in 0 .. pos - 1 /\ old[q] > val
  BY <1>1, <1>2
<1>7. \A i \in 0 .. pos - 1 : old[i] \in Int /\ (i < to => old[i] <= val)
  <2> SUFFICES ASSUME NEW i \in 0 .. pos - 1
               PROVE  old[i] \in Int /\ (i < to => old[i] <= val)
    OBVIOUS
  <2>1. old[i] \in Int
    OBVIOUS
  <2>2. ASSUME i < to PROVE old[i] <= val
    <3>1. to - 1 \in 0 .. pos - 1 /\ old[to - 1] <= val /\ old[to - 1] \in Int
      BY <1>6, <2>2
    <3>2. i = to - 1 \/ i < to - 1
      BY <2>2
    <3>3. old[i] <= old[to - 1]
      BY <2>1, <3>1, <3>2 DEF Ordered
    <3> QED BY <2>1, <3>1, <3>3
  <2> QED BY <2>1, <2>2
<1>8. Ordered(new, pos + 1)
  <2> SUFFICES ASSUME NEW i \in 0 .. pos, NEW j \in 0 .. pos, i < j
               PROVE  new[i] <= new[j]
    BY DEF Ordered
  <2>1. CASE j < to
    <3>1. i < to /\ i \in 0 .. pos - 1 /\ j \in 0 .. pos - 1
      BY <2>1
    <3> QED BY <1>4, <2>1, <3>1 DEF Ordered
  <2>2. CASE j = to
    <3>1. i < to /\ i \in 0 .. pos - 1
      BY <2>2
    <3> QED BY <1>4, <1>7, <2>2, <3>1
  <2>3. CASE j > to
    <3>1. j \in to + 1 .. pos /\ j - 1 \in 0 .. pos - 1 /\ j - 1 \in to .. pos - 1
      BY <2>3
    <3>2. new[j] = old[j - 1] /\ old[j - 1] > val /\ old[j - 1] \in Int
      BY <1>4, <1>6, <1>7, <3>1
    <3>3. CASE i = to
      BY <1>4, <3>2, <3>3
    <3>4. CASE i < to
      <4>1. i \in 0 .. pos - 1
        BY <3>4
      <4> QED BY <1>4, <1>7, <3>2, <3>4, <4>1
    <3>5. CASE i > to
      <4>1. i \in to + 1 .. pos /\ i - 1 \in 0 .. pos - 1 /\ i - 1 < j - 1
        BY <3>5
      <4> QED BY <1>4, <3>1, <3>2, <4>1 DEF Ordered
    <3> QED BY <3>3, <3>4, <3>5
  <2> QED BY <2>1, <2>2, <2>3
<1>9. Kept(new, pos + 1, Append(sams, val))
  <2> DEFINE n == Len(sams)
             more == Append(sams, val)
  <2>1. PICK from : KeptBy(from, old, pos, sams)
    BY DEF Kept
  <2>2. /\ n \in Nat /\ Len(more) = n + 1 /\ more[n + 1] = val
        /\ \A i \in 1 .. n : more[i] = sams[i]
    OBVIOUS
  <2>3. /\ from \in [0 .. pos - 1 -> 1 .. n]
        /\ \A i \in 0 .. pos - 1 : sams[from[i]] = old[i]
        /\ \A i, j \in 0 .. pos - 1 : from[i] = from[j] => i = j
    BY <2>1 DEF KeptBy
  <2> HIDE DEF n, more
  <2> DEFINE F == [i \in 0 .. pos |-> IF i = to THEN n + 1
                                      ELSE IF i < to THEN from[i] ELSE from[i - 1]]
  <2>4. /\ F[to] = n + 1
        /\ \A i \in 0 .. pos : i < to => i \in 0 .. pos - 1 /\ F[i] = from[i]
        /\ \A i \in 0 .. pos : i > to => i - 1 \in 0 .. pos - 1 /\ F[i] = from[i - 1]
    OBVIOUS
  <2>5. \A i \in 0 .. pos - 1 : from[i] \in 1 .. n /\ from[i] # n + 1
    BY <2>2, <2>3
  <2>6. F \in [0 .. pos -> 1 .. n + 1]
    <3> SUFFICES ASSUME NEW i \in 0 .. pos PROVE F[i] \in 1 .. n + 1
      OBVIOUS
    <3> HIDE DEF F
    <3>1. i = to \/ i < to \/ i > to
      OBVIOUS
    <3>2. n + 1 \in 1 .. n + 1 /\ \A e \in 1 .. n : e \in 1 .. n + 1
      BY <2>2
    <3> QED BY <2>4, <2>5, <3>1, <3>2
  <2> HIDE DEF F
  <2>7. ASSUME NEW i \in 0 .. pos PROVE more[F[i]] = new[i]
    <3>1. CASE i = to
      BY <1>4, <2>2, <2>4, <3>1
    <3>2. CASE i < to
      <4>1. i \in 0 .. pos - 1 /\ F[i] = from[i] /\ new[i] = old[i]
        BY <1>4, <2>4, <3>2
      <4>2. from[i] \in 1 .. n /\ sams[from[i]] = old[i]
        BY <2>3, <2>5, <4>1
      <4> QED BY <2>2, <4>1, <4>2
    <3>3. CASE i > to
      <4>1. i \in to + 1 .. pos
        BY <3>3
      <4>2. new[i] = old[i - 1]
        BY <1>4, <4>1
      <4>3. i - 1 \in 0 .. pos - 1 /\ F[i] = from[i - 1]
        BY <2>4, <3>3
      <4>4. from[i - 1] \in 1 .. n /\ sams[from[i - 1]] = old[i - 1]
        BY <2>3, <2>5, <4>3
      <4> QED BY <2>2, <4>2, <4>3, <4>4
    <3> QED BY <3>1, <3>2, <3>3
  <2>8. ASSUME NEW i \in 0 .. pos, NEW j \in 0 .. pos, F[i] = F[j] PROVE i = j
    <3>1. CASE i = to
      BY <2>4, <2>5, <2>8, <3>1
    <3>2. CASE j = to
      BY <2>4, <2>5, <2>8, <3>2
    <3>3. CASE i < to /\ j < to
      BY <2>3, <2>4, <2>8, <3>3
    <3>4. CASE i > to /\ j > to
      BY <2>3, <2>4, <2>8, <3>4
    <3>5. CASE i < to /\ j > to
      <4>1. i # j - 1 /\ i \in 0 .. pos - 1 /\ j - 1 \in 0 .. pos - 1
        BY <2>4, <3>5
      <4> QED BY <2>3, <2>4, <2>8, <3>5, <4>1
    <3>6. CASE i > to /\ j < to
      <4>1. j # i - 1 /\ j \in 0 .. pos - 1 /\ i - 1 \in 0 .. pos - 1
        BY <2>4, <3>6
      <4> QED BY <2>3, <2>4, <2>8, <3>6, <4>1
    <3> QED BY <3>1, <3>2, <3>3, <3>4, <3>5, <3>6
  <2>9. KeptBy(F, new, pos + 1, more)
    <3>1. 0 .. (pos + 1) - 1 = 0 .. pos
      OBVIOUS
    <3> QED BY <2>2, <2>6, <2>7, <2>8, <3>1 DEF KeptBy
  <2> QED BY <2>9 DEF Kept, more
<1>10. new[0] <= val /\ (pos > 0 => new[0] <= old[0])
  <2>1. CASE to = 0
    <3>1. pos > 0 => 0 \in to .. pos - 1
      BY <2>1
    <3> QED BY <1>4, <1>6, <1>7, <2>1, <3>1
  <2>2. CASE to > 0
    <3>1. 0 \in 0 .. pos /\ 0 < to /\ 0 \in 0 .. pos - 1
      BY <2>2
    <3> QED BY <1>4, <1>7, <3>1
  <2> QED BY <2>1, <2>2
<1> QED BY <1>5, <1>8, <1>9, <1>10 DEF new, vals

\* A call of fcyc is in progress.
Measuring == {"clear", "start", "callibrate", "times", "call", "sample", "test"}

\* The places of values that hold a sample.
Held == IF samplecount < kbest THEN samplecount ELSE kbest

SamplerTypes ==
  /\ kbest \in Nat \ {0} /\ maxsamples \in Nat
  /\ tsc \in Int /\ utime \in Int
  /\ cyc_hi \in Int /\ cyc_lo \in Int /\ start_tick \in Int
  /\ cyc_per_tick \in Int /\ cal \in [e : Int, ticks : Int]

\* The places in use are in order, each holds a sample of its own, and none is
\* below the first.
SamplesKept ==
  /\ samples \in Seq(Int) /\ samplecount = Len(samples)
  /\ values \in [0 .. kbest - 1 -> Int]
  /\ Ordered(values, Held) /\ Kept(values, Held, samples)
  /\ \A i \in 1 .. Len(samples) : samples[i] >= values[0]

SamplerInv ==
  /\ SamplerTypes
  /\ pc \in Measuring => SamplesKept
  /\ pc = "test" => samplecount >= 1
  /\ pc = "loop" => package # "FCYC"
  /\ BestReturned

\* Samples that are kept stay kept when another one is taken.
LEMMA KeptLonger ==
  ASSUME NEW vals, NEW n \in Nat, NEW sams \in Seq(Int), NEW val \in Int, Kept(vals, n, sams)
  PROVE  Kept(vals, n, Append(sams, val))
<1>1. PICK from : KeptBy(from, vals, n, sams)
  BY DEF Kept
<1> DEFINE more == Append(sams, val)
<1>2. /\ Len(sams) \in Nat /\ Len(more) = Len(sams) + 1
      /\ \A i \in 1 .. Len(sams) : more[i] = sams[i] /\ i \in 1 .. Len(more)
  OBVIOUS
<1> HIDE DEF more
<1>3. \A i \in 0 .. n - 1 : from[i] \in 1 .. Len(sams)
  BY <1>1 DEF KeptBy
<1>4. KeptBy(from, vals, n, more)
  BY <1>1, <1>2, <1>3 DEF KeptBy
<1> QED BY <1>4 DEF Kept, more

\* So do those of fewer places.
LEMMA KeptFewer ==
  ASSUME NEW vals, NEW n \in Nat, NEW m \in 0 .. n, NEW sams, Kept(vals, n, sams)
  PROVE  Kept(vals, m, sams)
<1>1. PICK from : KeptBy(from, vals, n, sams)
  BY DEF Kept
<1> DEFINE F == [i \in 0 .. m - 1 |-> from[i]]
<1>2. \A i \in 0 .. m - 1 : i \in 0 .. n - 1
  OBVIOUS
<1>3. KeptBy(F, vals, m, sams)
  BY <1>1, <1>2 DEF KeptBy
<1> QED BY <1>3 DEF Kept

\* A sample that is added leaves the best of all samples in order in the places
\* (add_sample).
LEMMA AddKeeps ==
  ASSUME NEW val \in Int, SamplerTypes, SamplesKept, add_sample(val),
         kbest' = kbest
  PROVE  SamplesKept' /\ samplecount' >= 1
<1> DEFINE k == kbest
           n == samplecount
           more == Append(samples, val)
<1>1. /\ k \in Nat \ {0} /\ n \in Nat /\ values \in [0 .. k - 1 -> Int]
      /\ samples \in Seq(Int) /\ n = Len(samples) /\ samples' = more /\ samplecount' = n + 1
      /\ Ordered(values, Held) /\ Kept(values, Held, samples)
      /\ \A i \in 1 .. n : samples[i] >= values[0]
  BY DEF SamplerTypes, SamplesKept, add_sample
<1>2. /\ more \in Seq(Int) /\ Len(more) = n + 1 /\ more[n + 1] = val
      /\ \A i \in 1 .. n : more[i] = samples[i] /\ samples[i] \in Int
  BY <1>1
<1>3. ASSUME values' \in [0 .. k - 1 -> Int], Ordered(values', Held'),
             Kept(values', Held', more),
             values'[0] <= val, n > 0 => values'[0] <= values[0]
      PROVE  SamplesKept' /\ samplecount' >= 1
  <2>1. ASSUME NEW i \in 1 .. Len(more) PROVE more[i] >= values'[0]
    <3>1. CASE i = n + 1
      <4>1. values'[0] \in Int
        BY <1>1, <1>3
      <4> QED BY <1>2, <1>3, <3>1, <4>1
    <3>2. CASE i \in 1 .. n
      <4>1. values'[0] \in Int /\ values[0] \in Int
        BY <1>1, <1>3
      <4>2. samples[i] >= values[0] /\ values'[0] <= values[0] /\ more[i] = samples[i]
        BY <1>1, <1>2, <1>3, <3>2
      <4>3. samples[i] \in Int
        BY <1>2, <3>2
      <4> HIDE DEF more
      <4> QED BY <4>1, <4>2, <4>3
    <3> QED BY <1>1, <1>2, <3>1, <3>2
  <2> HIDE DEF more
  <2>2. samples' \in Seq(Int) /\ samplecount' = Len(samples') /\ samplecount' >= 1
    BY <1>1, <1>2
  <2>3. values' \in [0 .. kbest' - 1 -> Int]
    BY <1>3
  <2>4. Ordered(values', Held') /\ Kept(values', Held', samples')
    BY <1>1, <1>3
  <2>5. \A i \in 1 .. Len(samples') : samples'[i] >= values'[0]
    BY <1>1, <2>1
  <2> QED BY <2>2, <2>3, <2>4, <2>5 DEF SamplesKept
<1> HIDE DEF more
<1>4. CASE n < k
  <2>1. Held = n /\ Held' = n + 1 /\ n \in 0 .. k - 1
    BY <1>1, <1>4 DEF Held
  <2>2. values' = Sifted([values EXCEPT ![n] = val], n)
    BY <1>4 DEF add_sample
  <2>3. /\ values' \in [0 .. k - 1 -> Int] /\ Ordered(values', n + 1)
        /\ Kept(values', n + 1, more)
        /\ values'[0] <= val /\ (n > 0 => values'[0] <= values[0])
    <3>1. Ordered(values, n) /\ Kept(values, n, samples)
      BY <1>1, <2>1
    <3> HIDE DEF k, n
    <3> QED BY <1>1, <2>1, <2>2, <3>1, Insert DEF more
  <2> QED BY <1>3, <2>1, <2>3
<1>5. CASE n >= k /\ val < values[k - 1]
  <2>1. Held = k /\ Held' = k /\ k - 1 \in 0 .. k - 1 /\ k - 1 \in 0 .. k /\ (k - 1) + 1 = k
    BY <1>1, <1>5 DEF Held
  <2>2. values' = Sifted([values EXCEPT ![k - 1] = val], k - 1)
    BY <1>1, <1>5 DEF add_sample
  <2>3. Ordered(values, k - 1) /\ Kept(values, k - 1, samples)
    <3>1. Kept(values, k - 1, samples)
      BY <1>1, <2>1, KeptFewer
    <3>2. Ordered(values, k - 1)
      BY <1>1, <2>1 DEF Ordered
    <3> QED BY <3>1, <3>2
  <2>4. /\ values' \in [0 .. k - 1 -> Int] /\ Ordered(values', k)
        /\ Kept(values', k, more)
        /\ values'[0] <= val /\ (k - 1 > 0 => values'[0] <= values[0])
    <3> HIDE DEF k, n
    <3>1. /\ values' \in [0 .. k - 1 -> Int] /\ Ordered(values', (k - 1) + 1)
          /\ Kept(values', (k - 1) + 1, more)
          /\ values'[0] <= val /\ (k - 1 > 0 => values'[0] <= values[0])
      BY <1>1, <2>1, <2>2, <2>3, Insert DEF more
    <3> QED BY <2>1, <3>1
  <2>5. values'[0] <= values[0]
    <3>1. CASE k = 1
      <4>1. values'[0] \in Int /\ values[0] \in Int
        BY <1>1, <2>4
      <4> QED BY <1>1, <1>5, <2>4, <3>1, <4>1
    <3>2. CASE k # 1
      BY <1>1, <2>4, <3>2
    <3> QED BY <3>1, <3>2
  <2> QED BY <1>3, <2>1, <2>4, <2>5
<1>6. CASE n >= k /\ ~(val < values[k - 1])
  <2>1. Held = k /\ Held' = k
    BY <1>1, <1>6 DEF Held
  <2>2. values' = values
    BY <1>1, <1>6 DEF add_sample
  <2>3. Kept(values, k, more)
    BY <1>1, <2>1, KeptLonger DEF more
  <2>4. values[0] <= val
    <3>1. 0 \in 0 .. k - 1 /\ k - 1 \in 0 .. k - 1
      BY <1>1
    <3>2. values[0] \in Int /\ values[k - 1] \in Int
      BY <1>1, <3>1
    <3>3. values[0] <= values[k - 1]
      <4>1. CASE k = 1
        BY <3>2, <4>1
      <4>2. CASE k # 1
        BY <1>1, <2>1, <3>1, <4>2 DEF Ordered
      <4> QED BY <4>1, <4>2
    <3> QED BY <1>6, <3>2, <3>3
  <2>5. values[0] <= values[0]
    BY <1>1
  <2> QED BY <1>1, <1>3, <2>1, <2>2, <2>3, <2>4, <2>5
<1> QED BY <1>1, <1>4, <1>5, <1>6

\* When the sampler has converged, kbest samples are close to the least one.
LEMMA EnoughClose ==
  ASSUME SamplerTypes, SamplesKept, has_converged
  PROVE  Cardinality({i \in DOMAIN samples :
                       100 * samples[i] <= (100 + EpsilonPercent) * values[0]}) >= kbest
<1> DEFINE k == kbest
           C == {i \in DOMAIN samples :
                  100 * samples[i] <= (100 + EpsilonPercent) * values[0]}
<1>1. /\ k \in Nat \ {0} /\ values \in [0 .. k - 1 -> Int] /\ samples \in Seq(Int)
      /\ Ordered(values, k) /\ Kept(values, k, samples)
      /\ (100 + EpsilonPercent) * values[0] >= 100 * values[k - 1]
  <2>1. Held = k
    BY DEF SamplerTypes, SamplesKept, Held, has_converged
  <2> QED BY <2>1 DEF SamplerTypes, SamplesKept, has_converged
<1>2. PICK from : KeptBy(from, values, k, samples)
  BY <1>1 DEF Kept
<1>3. DOMAIN samples = 1 .. Len(samples) /\ Len(samples) \in Nat
  BY <1>1
<1> HIDE DEF k
<1>4. ASSUME NEW j \in 0 .. k - 1 PROVE from[j] \in C
  <2>1. from[j] \in DOMAIN samples /\ samples[from[j]] = values[j]
    BY <1>2, <1>3 DEF KeptBy
  <2>2. values[j] \in Int /\ values[k - 1] \in Int /\ values[0] \in Int
    BY <1>1
  <2>3. values[j] <= values[k - 1]
    <3>1. j = k - 1 \/ j < k - 1
      BY <1>1
    <3>2. k - 1 \in 0 .. k - 1
      BY <1>1
    <3> QED BY <1>1, <2>2, <3>1, <3>2 DEF Ordered
  <2>4. (100 + EpsilonPercent) * values[0] \in Int
    BY <2>2, FcycAssumption
  <2>5. 100 * values[j] <= (100 + EpsilonPercent) * values[0]
    BY <1>1, <2>2, <2>3, <2>4
  <2> QED BY <2>1, <2>5
<1>5. from \in [0 .. k - 1 -> C]
  <2> HIDE DEF C
  <2> QED BY <1>2, <1>4 DEF KeptBy
<1>6. IsFiniteSet(C) /\ IsFiniteSet(0 .. k - 1) /\ Cardinality(0 .. k - 1) = k
  <2>1. IsFiniteSet(1 .. Len(samples)) /\ C \in SUBSET (1 .. Len(samples))
    BY <1>3, FS_Interval
  <2>2. 0 \in Int /\ k - 1 \in Int /\ ~(0 > k - 1) /\ (k - 1) - 0 + 1 = k
    BY <1>1
  <2>3. IsFiniteSet(0 .. k - 1) /\ Cardinality(0 .. k - 1) = k
    BY <2>2, FS_Interval
  <2> HIDE DEF C
  <2> QED BY <2>1, <2>3, FS_Subset
<1>7. Cardinality(C) \in Nat
  BY <1>6, FS_CardinalityType
<1> HIDE DEF C
<1>8. ~(Cardinality(C) < k)
  <2>1. SUFFICES ASSUME Cardinality(C) < Cardinality(0 .. k - 1) PROVE FALSE
    BY <1>6
  <2>2. \E x, y \in 0 .. k - 1 : x # y /\ from[x] = from[y]
    BY <1>5, <1>6, <2>1, FS_PigeonHole, Zenon
  <2> QED BY <1>2, <2>2 DEF KeptBy
<1>9. Cardinality(C) >= k
  BY <1>1, <1>7, <1>8
<1> QED BY <1>9 DEF C, k

\* What SamplerInv says is kept by every step.
LEMMA SamplerStep == SamplerInv /\ [Next]_vars => SamplerInv'
<1> SUFFICES ASSUME SamplerInv, [Next]_vars PROVE SamplerInv'
  OBVIOUS
<1> USE DEF machineVars, startVars, calVars, paramVars, sampler, fcycVars, ftimerVars
<1>1. ASSUME SamplerTypes', UNCHANGED <<kbest, sampler>>, pc' \in Measuring => pc \in Measuring,
             pc' \notin {"test", "done", "loop"}
      PROVE  SamplerInv'
  BY <1>1 DEF SamplerInv, SamplesKept, Held, BestReturned
<1>2. ASSUME SamplerTypes', UNCHANGED <<pc, package, kbest, maxsamples, sampler>>
      PROVE  SamplerInv'
  BY <1>2 DEF SamplerInv, SamplesKept, Held, BestReturned
<1>3. ASSUME UNCHANGED <<kbest, maxsamples, machineVars, startVars, calVars>> PROVE SamplerTypes'
  BY <1>3 DEF SamplerInv, SamplerTypes
<1>4. CASE SetParameter
  <2>1. kbest' \in Nat \ {0} /\ maxsamples' \in Nat
    BY <1>4, FcycAssumption DEF SetParameter, set_fcyc_k, set_fcyc_maxsamples, set_fcyc_compensate,
       set_fcyc_clear_cache, set_fcyc_cache_size, SamplerInv, SamplerTypes
  <2>2. SamplerTypes' /\ pc = "idle" /\ pc' = "idle"
    BY <1>4, <2>1 DEF SetParameter, SamplerInv, SamplerTypes
  <2> QED BY <2>2 DEF SamplerInv, Measuring, BestReturned
<1>5. CASE Fcyc
  <2>1. SamplerTypes' /\ kbest' = kbest /\ pc' = "clear"
    BY <1>5, <1>3 DEF Fcyc
  <2>2. SamplesKept'
    <3>1. /\ values' = [i \in 0 .. kbest - 1 |-> 0]
          /\ samplecount' = 0 /\ samples' = <<>> /\ kbest \in Nat \ {0}
      BY <1>5 DEF Fcyc, init_sampler, SamplerInv, SamplerTypes
    <3>2. Held' = 0
      BY <2>1, <3>1 DEF Held
    <3>3. KeptBy([i \in 0 .. 0 - 1 |-> 1], values', 0, samples')
      BY <3>1 DEF KeptBy
    <3>4. Kept(values', Held', samples') /\ Ordered(values', Held')
      BY <3>2, <3>3 DEF Kept, Ordered
    <3>5. samples' \in Seq(Int) /\ Len(samples') = 0 /\ 1 .. Len(samples') = {}
      BY <3>1
    <3>6. values' \in [0 .. kbest' - 1 -> Int]
      BY <2>1, <3>1
    <3> QED BY <3>1, <3>4, <3>5, <3>6 DEF SamplesKept
  <2> QED BY <2>1, <2>2 DEF SamplerInv, BestReturned
<1>6. CASE clear
  BY <1>6, <1>1, <1>3 DEF clear, Measuring
<1>7. CASE Start
  <2>1. PICK late \in {0, 1} : /\ tsc' = Advance(late * TickCost) /\ utime' = late
                               /\ start_tick' = (IF compensate THEN 0 ELSE start_tick)
                               /\ cyc_hi' = High(tsc') /\ cyc_lo' = Low(tsc')
    BY <1>7 DEF Start, start_counter
  <2>2. B \in Nat \ {0} /\ B * B \in Nat \ {0} /\ tsc + (late * TickCost) \in Int
    BY <2>1, FcycAssumption DEF SamplerInv, SamplerTypes
  <2>3. tsc' \in Int
    BY <2>1, <2>2, DivMod DEF Advance
  <2>4. cyc_hi' \in Int /\ cyc_lo' \in Int /\ utime' \in Int /\ start_tick' \in Int
    BY <2>1, <2>2, <2>3, DivMod DEF High, Low, SamplerInv, SamplerTypes
  <2>5. SamplerTypes'
    BY <1>7, <2>3, <2>4 DEF Start, SamplerInv, SamplerTypes
  <2> QED BY <1>7, <1>1, <2>5 DEF Start, Measuring
<1>8. CASE Callibrate
  <2>1. SamplerTypes'
    BY <1>8 DEF Callibrate, SamplerInv, SamplerTypes
  <2> QED BY <1>8, <1>1, <2>1 DEF Callibrate, Measuring
<1>9. CASE CalGap
  <2>1. PICK g \in Gaps, hit \in {0, 1}, late \in {0, 1} :
          LET ticks == cal.ticks + hit + late
              cpt == IF ticks = 0 THEN 0 ELSE g \div ticks
              better == cyc_per_tick = 0 \/ cyc_per_tick > cpt
          IN  IF g >= THRESHOLD /\ ticks > 0
              THEN /\ cal' = [e |-> cal.e + 1, ticks |-> 0]
                   /\ cyc_per_tick' = IF better /\ cpt > RECORDTHRESH THEN cpt
                                      ELSE cyc_per_tick
              ELSE cal' = [cal EXCEPT !.ticks = ticks] /\ UNCHANGED cyc_per_tick
    BY <1>9 DEF CalGap
  <2> DEFINE ticks == cal.ticks + hit + late
  <2>2. cal \in [e : Int, ticks : Int] /\ cyc_per_tick \in Int /\ ticks \in Int
    BY DEF SamplerInv, SamplerTypes
  <2>3. g \in Int /\ (ticks > 0 => g \div ticks \in Int)
    <3>1. g \in Int
      BY FcycAssumption
    <3> HIDE DEF ticks
    <3>2. ticks > 0 => ticks \in Nat \ {0}
      BY <2>2
    <3> QED BY <3>1, <3>2, DivMod
  <2>4. ASSUME g >= THRESHOLD /\ ticks > 0
        PROVE  cal' \in [e : Int, ticks : Int] /\ cyc_per_tick' \in Int
    <3>1. cal' = [e |-> cal.e + 1, ticks |-> 0]
      BY <2>1, <2>4
    <3>2. cyc_per_tick' = cyc_per_tick \/ cyc_per_tick' = IF ticks = 0 THEN 0 ELSE g \div ticks
      BY <2>1, <2>4
    <3> HIDE DEF ticks
    <3> QED BY <2>2, <2>3, <2>4, <3>1, <3>2
  <2>5. ASSUME ~(g >= THRESHOLD /\ ticks > 0)
        PROVE  cal' \in [e : Int, ticks : Int] /\ cyc_per_tick' \in Int
    <3>1. cal' = [cal EXCEPT !.ticks = ticks] /\ cyc_per_tick' = cyc_per_tick
      BY <2>1, <2>5
    <3> HIDE DEF ticks
    <3> QED BY <2>2, <3>1
  <2>6. cal' \in [e : Int, ticks : Int] /\ cyc_per_tick' \in Int
    <3> HIDE DEF ticks
    <3> QED BY <2>4, <2>5
  <2>7. SamplerTypes'
    BY <1>9, <2>6 DEF CalGap, SamplerInv, SamplerTypes
  <2> QED BY <1>9, <1>1, <2>7 DEF CalGap, Measuring
<1>10. CASE CalDone
  BY <1>10, <1>1, <1>3 DEF CalDone, Measuring
<1>11. CASE FRuns
  <2>1. PICK d \in Durations, tick \in {0, 1} :
          spent' = d + (tick * TickCost) /\ utime' = utime + tick
    BY <1>11 DEF FRuns
  <2>2. spent' \in Int /\ utime' \in Int
    BY <2>1, FcycAssumption DEF SamplerInv, SamplerTypes
  <2>3. tsc' = (tsc + spent') % (B * B)
    BY <1>11 DEF FRuns, Advance
  <2>4. B * B \in Nat \ {0} /\ tsc + spent' \in Int
    BY <2>2, FcycAssumption DEF SamplerInv, SamplerTypes
  <2>5. tsc' \in Int
    BY <2>3, <2>4, DivMod
  <2>6. SamplerTypes'
    BY <1>11, <2>2, <2>5 DEF FRuns, SamplerInv, SamplerTypes
  <2> QED BY <1>11, <1>1, <2>6 DEF FRuns, Measuring
<1>12. CASE Sample
  <2>1. PICK late \in {0, 1} :
          add_sample(IF compensate THEN get_counter - ((utime + late - start_tick) * cyc_per_tick)
                                   ELSE get_counter)
    BY <1>12 DEF Sample
  <2>2. get_counter \in Int
    <3>1. B \in Nat \ {0}
      BY FcycAssumption
    <3>2. High(tsc) \in Int /\ Low(tsc) \in Int /\ cyc_lo \in Int /\ cyc_hi \in Int
      BY <3>1, DivMod DEF High, Low, SamplerInv, SamplerTypes
    <3> DEFINE lo == (Low(tsc) - cyc_lo) % B
               borrow == IF lo > Low(tsc) THEN 1 ELSE 0
               hi == (High(tsc) - cyc_hi - borrow) % B
    <3>3. lo \in Int
      BY <3>1, <3>2, DivMod
    <3>4. borrow \in Int
      OBVIOUS
    <3> HIDE DEF borrow
    <3>5. hi \in Int
      <4>1. High(tsc) - cyc_hi - borrow \in Int
        BY <3>2, <3>4
      <4> QED BY <3>1, <4>1, DivMod
    <3>6. get_counter = (hi * B) + lo
      BY DEF get_counter, Elapsed, borrow
    <3> HIDE DEF lo, hi
    <3> QED BY <3>1, <3>3, <3>5, <3>6
  <2> DEFINE val == IF compensate
                    THEN get_counter - ((utime + late - start_tick) * cyc_per_tick)
                    ELSE get_counter
  <2>3. val \in Int
    BY <2>2 DEF SamplerInv, SamplerTypes
  <2>4. add_sample(val) /\ kbest' = kbest /\ SamplerTypes /\ SamplesKept
    BY <1>12, <2>1 DEF Sample, SamplerInv, Measuring
  <2> HIDE DEF val
  <2>5. SamplesKept' /\ samplecount' >= 1
    BY <2>3, <2>4, AddKeeps
  <2>6. SamplerTypes' /\ pc' = "test"
    BY <1>12, <2>4 DEF Sample, SamplerTypes
  <2> QED BY <2>5, <2>6 DEF SamplerInv, BestReturned
<1>13. CASE Again
  <2>1. SamplerTypes'
    BY <1>13, <1>3 DEF Again
  <2> QED BY <1>13, <1>1, <2>1 DEF Again, Measuring
<1>14. CASE Done
  <2>1. /\ SamplerTypes /\ SamplesKept /\ samplecount >= 1
        /\ has_converged \/ samplecount >= maxsamples
        /\ result' = values[0] /\ pc' = "done" /\ samples' = samples
        /\ kbest' = kbest /\ maxsamples' = maxsamples
    BY <1>14 DEF Done, SamplerInv, Measuring
  <2>2. SamplerTypes'
    BY <1>14, <1>3 DEF Done
  <2>3. DOMAIN samples = 1 .. Len(samples) /\ samplecount = Len(samples)
    BY <2>1 DEF SamplesKept
  <2>4. \E i \in DOMAIN samples : samples[i] = values[0]
    <3>1. 0 \in 0 .. Held - 1
      BY <2>1 DEF Held, SamplerTypes, SamplesKept
    <3>2. PICK from : KeptBy(from, values, Held, samples)
      BY <2>1 DEF SamplesKept, Kept
    <3>3. from[0] \in 1 .. Len(samples) /\ samples[from[0]] = values[0]
      BY <3>1, <3>2 DEF KeptBy
    <3> QED BY <2>3, <3>3
  <2>5. \A i \in DOMAIN samples : samples[i] >= values[0]
    BY <2>1, <2>3 DEF SamplesKept
  <2>6. \/ Len(samples) >= maxsamples
        \/ Cardinality({i \in DOMAIN samples :
                         100 * samples[i] <= (100 + EpsilonPercent) * values[0]}) >= kbest
    BY <2>1, <2>3, EnoughClose
  <2>7. BestReturned'
    BY <2>1, <2>4, <2>5, <2>6, Zenon DEF BestReturned
  <2> QED BY <2>1, <2>2, <2>7 DEF SamplerInv, Measuring
<1>15. CASE Return
  <2>1. SamplerTypes'
    BY <1>15, <1>3 DEF Return
  <2> QED BY <1>15, <2>1 DEF Return, SamplerInv, Measuring, BestReturned
<1>16. CASE Ftimer
  <2>1. SamplerTypes'
    BY <1>16, <1>3 DEF Ftimer
  <2> QED BY <1>16, <2>1 DEF Ftimer, SamplerInv, Measuring, BestReturned
<1>17. CASE LoopRuns
  <2>1. SamplerTypes' /\ pc = "loop" /\ pc' \in {"loop", "killed"} /\ package' = package
    BY <1>17, <1>3 DEF LoopRuns
  <2> QED BY <2>1 DEF SamplerInv, Measuring, BestReturned
<1>18. CASE ClockStep
  <2>1. SamplerTypes' /\ pc = "loop" /\ pc' = "loop" /\ package' = package
    BY <1>18, <1>3 DEF ClockStep
  <2> QED BY <2>1 DEF SamplerInv, Measuring, BestReturned
<1>19. CASE LoopDone
  <2>1. package' = package /\ package # "FCYC" /\ pc' = "done"
    BY <1>19 DEF LoopDone, SamplerInv
  <2>2. SamplerTypes'
    BY <1>19, <1>3 DEF LoopDone
  <2> QED BY <2>1, <2>2 DEF SamplerInv, Measuring, BestReturned
<1>20. CASE UNCHANGED vars
  BY <1>20, <1>2, <1>3 DEF vars
<1> QED BY <1>4, <1>5, <1>6, <1>7, <1>8, <1>9, <1>10, <1>11, <1>12, <1>13, <1>14,
          <1>15, <1>16, <1>17, <1>18, <1>19, <1>20 DEF Next, FcycStep

\* fcyc returns the least of its samples, and has seen kbest samples close to it
\* or all it may take, for every kbest, maxsamples and run of samples (fcyc.c).
THEOREM BestReturnedHolds == Spec => []BestReturned
<1>1. Init => SamplerInv
  <2> SUFFICES ASSUME Init PROVE SamplerInv
    OBVIOUS
  <2>1. B * B \in Int
    BY FcycAssumption
  <2>2. SamplerTypes
    BY <2>1, FcycAssumption DEF Init, FcycInit, SamplerTypes
  <2> QED BY <2>2 DEF Init, FcycInit, SamplerInv, Measuring, BestReturned
<1>2. SamplerInv => BestReturned
  BY DEF SamplerInv
<1> QED BY <1>1, <1>2, SamplerStep, PTL DEF Spec
-----------------------------------------------------------------------------
(* No step of fcyc is for nothing.  Of "fcyc returns" the fairness is left *)
(* out: that interrupts come while callibrate waits for them.              *)

\* Before it takes a sample fcyc has none, or fewer than it may; callibrate stops at NEVENT.
CallInv ==
  /\ samplecount \in Nat /\ maxsamples \in Nat /\ kbest \in Nat /\ cal \in [e : Nat, ticks : Nat]
  /\ pc \in Measuring => package = "FCYC"
  /\ pc \in Measuring \ {"test"} => samplecount = 0 \/ samplecount < maxsamples
  /\ pc = "test" => samplecount = 1 \/ samplecount <= maxsamples
  /\ pc = "callibrate" => cal.e <= NEVENT

LEMMA InitCall == Init => CallInv
BY FcycAssumption DEF Init, FcycInit, CallInv, Measuring

LEMMA CallStep == CallInv /\ [Next]_vars => CallInv'
<1> SUFFICES ASSUME CallInv, [Next]_vars PROVE CallInv'
  OBVIOUS
<1> USE DEF machineVars, startVars, calVars, paramVars, sampler, fcycVars, ftimerVars
<1>1. package' = package
  BY Zenon DEF Next, FcycStep, Return, Ftimer, LoopRuns, ClockStep, LoopDone, vars
<1>2. NEVENT \in Nat
  BY FcycAssumption
<1>3. ASSUME UNCHANGED <<samplecount, maxsamples, kbest, cal>>,
             pc' \notin Measuring \/ pc' = pc
      PROVE  CallInv'
  BY <1>1, <1>3 DEF CallInv, Measuring
<1>4. ASSUME UNCHANGED <<samplecount, maxsamples, kbest, cal>>, pc \in Measuring \ {"test"},
             pc' \in Measuring \ {"test", "callibrate"}
      PROVE  CallInv'
  BY <1>1, <1>4 DEF CallInv, Measuring
<1>5. CASE FcycStep /\ SetParameter
  <2>1. /\ kbest' \in Nat /\ maxsamples' \in Nat
    BY <1>5, FcycAssumption DEF SetParameter, set_fcyc_k, set_fcyc_maxsamples,
       set_fcyc_compensate, set_fcyc_clear_cache, set_fcyc_cache_size, CallInv
  <2>2. pc = "idle" /\ pc' = "idle" /\ UNCHANGED <<cal, samplecount>>
    BY <1>5 DEF SetParameter
  <2> QED BY <1>1, <2>1, <2>2 DEF CallInv, Measuring
<1>6. CASE FcycStep /\ Fcyc
  <2>1. package = "FCYC"
    BY <1>6 DEF FcycStep
  <2>2. /\ samplecount' = 0 /\ pc' = "clear" /\ UNCHANGED <<maxsamples, kbest, cal>>
    BY <1>6 DEF Fcyc, init_sampler
  <2> QED BY <1>1, <2>1, <2>2 DEF CallInv, Measuring
<1>7. CASE FcycStep /\ (clear \/ Start \/ CalDone \/ FRuns)
  <2>1. /\ UNCHANGED <<samplecount, maxsamples, kbest, cal>> /\ pc \in Measuring \ {"test"}
        /\ pc' \in Measuring \ {"test", "callibrate"} \/ pc' = "exit"
    BY <1>7 DEF clear, Start, CalDone, FRuns, Measuring
  <2> QED BY <1>3, <1>4, <2>1 DEF Measuring
<1>8. CASE FcycStep /\ Callibrate
  <2>1. /\ pc = "start" /\ pc' = "callibrate" /\ cal' = [e |-> 0, ticks |-> 0]
        /\ UNCHANGED <<samplecount, maxsamples, kbest>>
    BY <1>8 DEF Callibrate
  <2> QED BY <1>1, <1>2, <2>1 DEF CallInv, Measuring
<1>9. CASE FcycStep /\ CalGap
  <2>1. /\ pc = "callibrate" /\ cal.e < NEVENT
        /\ UNCHANGED <<pc, samplecount, maxsamples, kbest>>
        /\ \E n \in Nat : \/ cal' = [e |-> cal.e + 1, ticks |-> 0]
                          \/ cal' = [cal EXCEPT !.ticks = n]
    <3>1. PICK g \in Gaps, hit \in {0, 1}, late \in {0, 1} :
            \/ cal' = [e |-> cal.e + 1, ticks |-> 0]
            \/ cal' = [cal EXCEPT !.ticks = cal.ticks + hit + late]
      BY <1>9, ZenonT(40) DEF CalGap
    <3>2. cal.ticks + hit + late \in Nat
      BY DEF CallInv
    <3>3. /\ pc = "callibrate" /\ cal.e < NEVENT
          /\ UNCHANGED <<pc, samplecount, maxsamples, kbest>>
      BY <1>9 DEF CalGap
    <3> QED BY <3>1, <3>2, <3>3
  <2>2. cal' \in [e : Nat, ticks : Nat] /\ cal'.e <= NEVENT
    BY <1>2, <2>1 DEF CallInv
  <2> QED BY <1>1, <2>1, <2>2 DEF CallInv, Measuring
<1>10. CASE FcycStep /\ Sample
  <2>1. /\ pc = "sample" /\ pc' = "test" /\ samplecount' = samplecount + 1
        /\ UNCHANGED <<maxsamples, kbest, cal>>
    BY <1>10, Zenon DEF Sample, add_sample
  <2> QED BY <1>1, <2>1 DEF CallInv, Measuring
<1>11. CASE FcycStep /\ Again
  <2>1. /\ pc = "test" /\ pc' = "clear" /\ samplecount < maxsamples
        /\ UNCHANGED <<samplecount, maxsamples, kbest, cal>>
    BY <1>11 DEF Again
  <2> QED BY <1>1, <2>1 DEF CallInv, Measuring
<1>12. CASE (FcycStep /\ Done) \/ Return \/ LoopDone
  <2>1. pc' \in {"idle", "done"} /\ UNCHANGED <<samplecount, maxsamples, kbest, cal>>
    BY <1>12 DEF Done, Return, LoopDone
  <2> QED BY <1>3, <2>1 DEF Measuring
<1>13. CASE Ftimer \/ LoopRuns \/ ClockStep
  <2>1. /\ UNCHANGED <<samplecount, maxsamples, kbest, cal>>
        /\ pc' \in {"loop", "killed"} \/ pc' = pc
    BY <1>13 DEF Ftimer, LoopRuns, ClockStep
  <2> QED BY <1>3, <2>1 DEF Measuring
<1>14. CASE UNCHANGED vars
  BY <1>3, <1>14 DEF vars
<1> QED BY <1>5, <1>6, <1>7, <1>8, <1>9, <1>10, <1>11, <1>12, <1>13, <1>14, Zenon
        DEF Next, FcycStep

LEMMA CallHolds == Spec => []CallInv
BY InitCall, CallStep, PTL DEF Spec

\* How far fcyc is with the next sample.
Phase(p) ==
  CASE p = "test" -> 0 [] p = "clear" -> 1 [] p = "start" -> 2 [] p = "callibrate" -> 3
    [] p = "times" -> 4 [] p = "call" -> 5 [] p = "sample" -> 6 [] OTHER -> 7

\* A step of a call ends it, or takes a sample of those it may still take, or comes nearer
\* to the next one; callibrate counts the interrupts up to NEVENT, or waits for one.
CallGetsOn ==
  pc \in Measuring =>
    \/ pc' \in {"done", "exit"}
    \/ /\ pc = "sample" /\ samplecount' = samplecount + 1
       /\ samplecount' = 1 \/ samplecount' <= maxsamples
    \/ samplecount' = samplecount /\ Phase(pc') > Phase(pc)
    \/ /\ pc = "callibrate" /\ pc' = "callibrate" /\ samplecount' = samplecount
       /\ cal.e < NEVENT /\ cal'.e \in {cal.e, cal.e + 1}

FcycGetsOn == [][CallGetsOn]_vars

\* fcyc takes at most maxsamples samples, one at least, and between two of them goes
\* through the same few steps, except that callibrate waits for interrupts (fcyc, clear,
\* start_comp_counter, callibrate).
THEOREM FcycGetsOnHolds == Spec => FcycGetsOn
<1>1. CallInv /\ [Next]_vars => [CallGetsOn]_vars
  <2> SUFFICES ASSUME CallInv, Next PROVE CallGetsOn
    BY Zenon
  <2> USE DEF machineVars, startVars, calVars, paramVars, sampler, fcycVars, ftimerVars
  <2>1. CASE FcycStep /\ (clear \/ Start \/ Callibrate \/ CalDone \/ FRuns \/ Again)
    <3>1. /\ samplecount' = samplecount
          /\ \/ pc' = "exit"
             \/ pc = "clear" /\ pc' = "start"
             \/ pc \in {"start", "times"} /\ pc' = "call"
             \/ pc = "start" /\ pc' = "callibrate"
             \/ pc = "callibrate" /\ pc' = "times"
             \/ pc = "call" /\ pc' = "sample"
             \/ pc = "test" /\ pc' = "clear"
      BY <2>1 DEF clear, Start, Callibrate, CalDone, FRuns, Again
    <3> QED BY <3>1 DEF CallGetsOn, Phase, Measuring
  <2>2. CASE FcycStep /\ Sample
    <3>1. pc = "sample" /\ pc' = "test" /\ samplecount' = samplecount + 1
      BY <2>2, Zenon DEF Sample, add_sample
    <3>2. maxsamples' = maxsamples
      BY <2>2 DEF Sample
    <3> QED BY <3>1, <3>2 DEF CallGetsOn, CallInv, Measuring
  <2>3. CASE FcycStep /\ CalGap
    <3>1. PICK n : \/ cal' = [e |-> cal.e + 1, ticks |-> 0]
                   \/ cal' = [cal EXCEPT !.ticks = n]
      BY <2>3, Zenon DEF CalGap
    <3>2. pc = "callibrate" /\ cal.e < NEVENT /\ pc' = pc /\ samplecount' = samplecount
      BY <2>3 DEF CalGap
    <3>3. cal.e \in Nat /\ NEVENT \in Nat /\ (cal'.e = cal.e + 1 \/ cal'.e = cal.e)
      BY <3>1, FcycAssumption DEF CallInv
    <3> QED BY <3>2, <3>3 DEF CallGetsOn
  <2>4. CASE FcycStep /\ Done
    <3>1. pc = "test" /\ pc' = "done"
      BY <2>4 DEF Done
    <3> QED BY <3>1 DEF CallGetsOn
  <2>5. CASE pc \notin Measuring
    BY <2>5 DEF CallGetsOn, Measuring
  <2>6. CASE (FcycStep /\ (SetParameter \/ Fcyc)) \/ Return \/ Ftimer \/ LoopRuns \/ ClockStep
             \/ LoopDone
    <3>1. pc \in {"idle", "loop", "done"}
      BY <2>6 DEF SetParameter, Fcyc, Return, Ftimer, LoopRuns, ClockStep, LoopDone
    <3> QED BY <2>5, <3>1 DEF Measuring
  <2> QED BY <2>1, <2>2, <2>3, <2>4, <2>6, Zenon DEF Next, FcycStep
<1> QED BY <1>1, CallHolds, PTL DEF Spec, FcycGetsOn
=============================================================================
