-------------------------------- MODULE Fcyc --------------------------------
(***************************************************************************)
(* The cycle timer of the allocator lab (malloclab-handout/fcyc.c on       *)
(* clock.c, the x86 version): fcyc times a function again and again, keeps *)
(* the kbest smallest samples in order and stops when they are close to    *)
(* each other or maxsamples have been taken.  A sample is the difference   *)
(* of two readings of a counter kept in two words, less, if compensate is  *)
(* set, what callibrate found a timer interrupt to cost.                   *)
(*                                                                         *)
(* Time is counted in cycles and the counter in words of B values; double  *)
(* is an integer, and epsilon a percentage.                                *)
(***************************************************************************)
EXTENDS Integers, Sequences

CONSTANTS
  B,               \* values of an unsigned word, 2^32 in the code
  Durations,       \* cycles the timed function may need by itself
  TickCost,        \* cycles a timer interrupt takes
  Gaps,            \* cycles between two readings in callibrate
  THRESHOLD, RECORDTHRESH, NEVENT,
  EpsilonPercent,
  Ks, MaxSampleChoices, CacheSizes    \* what the set_fcyc_ calls may ask for

ASSUME FcycAssumption ==
  /\ B \in Nat /\ B > 1
  /\ Durations \subseteq Nat /\ TickCost \in Nat
  /\ \A d \in Durations : d + (2 * TickCost) < B * B
  /\ Gaps \subseteq Nat /\ {THRESHOLD, RECORDTHRESH, EpsilonPercent} \subseteq Nat
  /\ NEVENT \in Nat
  /\ Ks \subseteq Nat \ {0} /\ MaxSampleChoices \subseteq Nat
  /\ CacheSizes \subseteq Nat \ {0}

VARIABLES
  pc,                          \* what fcyc does next
  tsc, utime,                  \* the machine: cycle counter, user time in ticks
  cyc_hi, cyc_lo, start_tick,  \* what the start functions recorded
  cyc_per_tick, cal,           \* callibrate: its result, and e and newc - oldc
  kbest, maxsamples, compensate, clear_cache, cache_bytes,   \* parameters
  cache_buf,                   \* bytes allocated for the buffer, 0 if NULL
  values, samplecount, result,
  spent,                       \* history: cycles since the counter was started
  samples                      \* history: the samples of this call

paramVars == <<kbest, maxsamples, compensate, clear_cache, cache_bytes>>
machineVars == <<tsc, utime>>
startVars == <<cyc_hi, cyc_lo, start_tick>>
calVars == <<cyc_per_tick, cal>>
sampler == <<values, samplecount, result, samples>>
fcycVars == <<pc, machineVars, startVars, calVars, paramVars, cache_buf,
              sampler, spent>>

NULL == <<>>

FcycInit ==
  /\ pc = "idle" /\ tsc \in 0 .. (B * B) - 1 /\ utime = 0
  /\ cyc_hi = 0 /\ cyc_lo = 0 /\ start_tick = 0
  /\ cyc_per_tick = 0 /\ cal = [e |-> 0, ticks |-> 0]
  /\ kbest \in Ks /\ maxsamples \in MaxSampleChoices
  /\ compensate = FALSE /\ clear_cache = FALSE /\ cache_bytes \in CacheSizes
  /\ cache_buf = 0 /\ values = NULL /\ samplecount = 0 /\ result = 0
  /\ spent = 0 /\ samples = <<>>

-----------------------------------------------------------------------------
(* clock.c                                                                 *)

\* rdtsc: the high and the low word of the counter.
High(t) == t \div B
Low(t) == t % B

\* Mutant: the high word does not give back what the low word borrowed.
Elapsed_NoBorrow(nhi, nlo) == (((nhi - cyc_hi) % B) * B) + ((nlo - cyc_lo) % B)

\* The two-word subtraction, each word on its own and modulo B.
Elapsed(nhi, nlo) ==
  LET lo == (nlo - cyc_lo) % B
      borrow == IF lo > nlo THEN 1 ELSE 0
      hi == (nhi - cyc_hi - borrow) % B
  IN  (hi * B) + lo


get_counter == Elapsed(High(tsc), Low(tsc))

\* The machine goes on for n cycles, interrupts included.
Advance(n) == (tsc + n) % (B * B)

start_counter(t) == cyc_hi' = High(t) /\ cyc_lo' = Low(t)

\* start_comp_counter reads the user time first: an interrupt may fall
\* between that and the reading of the counter.
Start ==
  /\ pc = "times" \/ (pc = "start" /\ (compensate => cyc_per_tick # 0))
  /\ \E late \in IF compensate THEN {0, 1} ELSE {0} :
       /\ start_tick' = (IF compensate THEN 0 ELSE start_tick)
       /\ utime' = late
       /\ tsc' = Advance(late * TickCost)
  /\ start_counter(tsc')
  /\ spent' = 0 /\ pc' = "call"
  /\ UNCHANGED <<calVars, paramVars, cache_buf, sampler>>

Callibrate ==
  /\ pc = "start" /\ compensate /\ cyc_per_tick = 0
  /\ cal' = [e |-> 0, ticks |-> 0] /\ pc' = "callibrate"
  /\ UNCHANGED <<machineVars, startVars, cyc_per_tick, paramVars, cache_buf,
                 sampler, spent>>

\* One turn of callibrate's loop: a gap between two readings of the counter,
\* in which an interrupt may fall; another one may fall before times is called.
CalGap ==
  /\ pc = "callibrate" /\ cal.e < NEVENT
  /\ \E g \in Gaps, hit, late \in {0, 1} :
       LET ticks == cal.ticks + hit + late
           cpt == IF ticks = 0 THEN 0 ELSE g \div ticks
           better == cyc_per_tick = 0 \/ cyc_per_tick > cpt
       IN  /\ hit = 1 => g >= TickCost
           /\ g < THRESHOLD => late = 0
           /\ ticks <= 2
           /\ IF g >= THRESHOLD /\ ticks > 0
              THEN /\ cal' = [e |-> cal.e + 1, ticks |-> 0]
                   /\ cyc_per_tick' = IF better /\ cpt > RECORDTHRESH THEN cpt
                                      ELSE cyc_per_tick
              ELSE cal' = [cal EXCEPT !.ticks = ticks] /\ UNCHANGED cyc_per_tick
  /\ UNCHANGED <<pc, machineVars, startVars, paramVars, cache_buf, sampler, spent>>

\* Mutant: without a cyc_per_tick it starts over.
CalDone_Checks ==
  /\ pc = "callibrate" /\ cal.e = NEVENT
  /\ pc' = "start"
  /\ UNCHANGED <<machineVars, startVars, calVars, paramVars, cache_buf, sampler,
                 spent>>

\* Enough events, even if none was large enough to set cyc_per_tick.
CalDone ==
  /\ pc = "callibrate" /\ cal.e = NEVENT
  /\ pc' = "times"
  /\ UNCHANGED <<machineVars, startVars, calVars, paramVars, cache_buf, sampler,
                 spent>>


-----------------------------------------------------------------------------
(* The sampler.                                                            *)

init_sampler ==
  /\ values' = [i \in 0 .. kbest - 1 |-> 0]
  /\ samplecount' = 0 /\ samples' = <<>>

\* The insertion sort: the sample at pos moves down past every larger one.
Sifted(vals, pos) ==
  LET to == CHOOSE p \in 0 .. pos :
              /\ p = 0 \/ vals[p - 1] <= vals[pos]
              /\ \A q \in p .. pos - 1 : vals[q] > vals[pos]
  IN  [i \in DOMAIN vals |-> IF i = to THEN vals[pos]
                             ELSE IF i \in to + 1 .. pos THEN vals[i - 1]
                             ELSE vals[i]]

\* Mutant: a new best sample takes the first place instead of the last one.
add_sample_Overwrites(val) ==
  /\ values' =
       IF samplecount < kbest
       THEN Sifted([values EXCEPT ![samplecount] = val], samplecount)
       ELSE IF val < values[kbest - 1] THEN [values EXCEPT ![0] = val]
       ELSE values
  /\ samplecount' = samplecount + 1
  /\ samples' = Append(samples, val)

add_sample(val) ==
  /\ values' =
       IF samplecount < kbest
       THEN Sifted([values EXCEPT ![samplecount] = val], samplecount)
       ELSE IF val < values[kbest - 1]
       THEN Sifted([values EXCEPT ![kbest - 1] = val], kbest - 1)
       ELSE values
  /\ samplecount' = samplecount + 1
  /\ samples' = Append(samples, val)


has_converged ==
  /\ samplecount >= kbest
  /\ (100 + EpsilonPercent) * values[0] >= 100 * values[kbest - 1]


\* clear reads the buffer from end to end, and allocates it the first time.
clear ==
  /\ pc = "clear"
  /\ \/ clear_cache /\ cache_buf = 0 /\ cache_buf' = cache_bytes /\ pc' = "start"
     \/ clear_cache /\ cache_buf = 0 /\ pc' = "exit" /\ UNCHANGED cache_buf
     \/ (clear_cache => cache_buf # 0) /\ pc' = "start" /\ UNCHANGED cache_buf
  /\ UNCHANGED <<machineVars, startVars, calVars, paramVars, sampler, spent>>

Fcyc ==
  /\ pc = "idle"
  /\ init_sampler /\ pc' = "clear" /\ result' = 0
  /\ UNCHANGED <<machineVars, startVars, calVars, paramVars, cache_buf, spent>>

\* f(argp): by itself some time, and an interrupt more or less.
FRuns ==
  /\ pc = "call"
  /\ \E d \in Durations, tick \in {0, 1} :
       /\ spent' = d + (tick * TickCost)
       /\ utime' = utime + tick
  /\ tsc' = Advance(spent') /\ pc' = "sample"
  /\ UNCHANGED <<startVars, calVars, paramVars, cache_buf, sampler>>

\* get_counter or get_comp_counter, which reads the user time after the
\* counter, then add_sample.
Sample ==
  /\ pc = "sample"
  /\ \E late \in IF compensate THEN {0, 1} ELSE {0} :
       LET ticks == utime + late - start_tick
       IN  add_sample(IF compensate THEN get_counter - (ticks * cyc_per_tick)
                                    ELSE get_counter)
  /\ pc' = "test" /\ utime' = 0 /\ spent' = 0
  /\ UNCHANGED <<tsc, startVars, calVars, paramVars, cache_buf, result>>

Again ==
  /\ pc = "test" /\ ~has_converged /\ samplecount < maxsamples
  /\ pc' = "clear"
  /\ UNCHANGED <<machineVars, startVars, calVars, paramVars, cache_buf, sampler,
                 spent>>

Done ==
  /\ pc = "test" /\ (has_converged \/ samplecount >= maxsamples)
  /\ result' = values[0] /\ values' = NULL /\ pc' = "done"
  /\ UNCHANGED <<machineVars, startVars, calVars, paramVars, cache_buf,
                 samplecount, samples, spent>>

-----------------------------------------------------------------------------
(* The parameters.                                                         *)

set_fcyc_k(k) == kbest' = k /\ UNCHANGED <<maxsamples, compensate, clear_cache, cache_bytes, cache_buf>>
set_fcyc_maxsamples(n) == maxsamples' = n /\ UNCHANGED <<kbest, compensate, clear_cache, cache_bytes, cache_buf>>
set_fcyc_compensate(on) == compensate' = on /\ UNCHANGED <<kbest, maxsamples, clear_cache, cache_bytes, cache_buf>>
set_fcyc_clear_cache(on) == clear_cache' = on /\ UNCHANGED <<kbest, maxsamples, compensate, cache_bytes, cache_buf>>
set_fcyc_cache_size(bytes) ==
  /\ cache_bytes' = bytes
  /\ cache_buf' = IF bytes # cache_bytes THEN 0 ELSE cache_buf
  /\ UNCHANGED <<kbest, maxsamples, compensate, clear_cache>>

\* A caller sets one of them, between two calls of fcyc.
SetParameter ==
  /\ pc = "idle"
  /\ \/ \E k \in Ks : set_fcyc_k(k)
     \/ \E n \in MaxSampleChoices : set_fcyc_maxsamples(n)
     \/ \E on \in BOOLEAN : set_fcyc_compensate(on)
     \/ \E on \in BOOLEAN : set_fcyc_clear_cache(on)
     \/ \E bytes \in CacheSizes : set_fcyc_cache_size(bytes)
  /\ UNCHANGED <<pc, machineVars, startVars, calVars, sampler, spent>>
=============================================================================
