------------------------------- MODULE Fsecs --------------------------------
(***************************************************************************)
(* fsecs of the allocator lab (malloclab-handout/fsecs.c on ftimer.c and   *)
(* Fcyc.tla): the running time of a function by one of three timing        *)
(* packages.  config.h chooses one when the program is built; here the     *)
(* choice is made in the initial state.  The function is external: it      *)
(* takes some time.                                                        *)
(***************************************************************************)
EXTENDS Fcyc, FiniteSets

CONSTANTS
  Packages,     \* the timing packages to look at
  U,            \* usec in a second, 10^6 in the code
  N,            \* runs averaged over, 10 in the code
  MAX_ETIME,    \* seconds the interval timer is set to
  Steps         \* usec by which the clock of the day may be set forth or back

ASSUME FsecsAssumption ==
  /\ Packages \subseteq {"FCYC", "ITIMER", "GETTOD"}
  /\ U \in Nat \ {0} /\ N \in Nat \ {0} /\ MAX_ETIME \in Nat /\ Steps \subseteq Int

VARIABLES
  package,
  runs,         \* ftimer: i of its loop
  start,        \* what the clock or the timer showed before the first run
  clock,        \* the clock of the day, in usec
  elapsed,      \* history: usec since the call
  stepped       \* history: usec by which the clock was set since the call

ftimerVars == <<runs, start, clock, elapsed, stepped>>
vars == <<fcycVars, package, ftimerVars>>

\* A struct timeval.
Timeval(t) == [tv_sec |-> t \div U, tv_usec |-> t % U]
\* Mutant: the seconds are forgotten.
Diff_UsecOnly(a, b) == a.tv_usec - b.tv_usec

Diff(a, b) == (U * (a.tv_sec - b.tv_sec)) + (a.tv_usec - b.tv_usec)


Init ==
  /\ FcycInit /\ package \in Packages
  /\ runs = 0 /\ start = Timeval(0) /\ clock = 0
  /\ elapsed = 0 /\ stepped = 0

\* The interval timer: set to MAX_ETIME, it counts down; at 0 its signal ends
\* the program.
Remaining == Timeval((MAX_ETIME * U) - elapsed)

\* What the package reads before and after the runs; first_p and first_r are
\* set to the same value, so it does not matter that one is used for the other.
Reading == IF package = "ITIMER" THEN Remaining ELSE Timeval(clock)

Ftimer ==
  /\ pc = "idle" /\ package # "FCYC"
  /\ elapsed' = 0 /\ stepped' = 0 /\ runs' = 0 /\ clock' \in 0 .. U - 1
  /\ start' = (IF package = "ITIMER" THEN Timeval(MAX_ETIME * U)
                                     ELSE Timeval(clock'))
  /\ pc' = "loop" /\ result' = 0
  /\ UNCHANGED <<machineVars, startVars, calVars, paramVars, cache_buf, values,
                 samplecount, samples, spent, package>>

LoopRuns ==
  /\ pc = "loop" /\ runs < N
  /\ \E d \in Durations :
       /\ elapsed' = elapsed + d /\ clock' = clock + d /\ runs' = runs + 1
       /\ pc' = IF package = "ITIMER" /\ elapsed' >= MAX_ETIME * U THEN "killed"
                ELSE pc
  /\ UNCHANGED <<machineVars, startVars, calVars, paramVars, cache_buf, sampler,
                 spent, package, start, stepped>>

\* Somebody sets the clock of the day.
ClockStep ==
  /\ pc = "loop" /\ package = "GETTOD" /\ stepped = 0
  /\ \E s \in Steps : clock' = clock + s /\ stepped' = stepped + s
  /\ UNCHANGED <<pc, machineVars, startVars, calVars, paramVars, cache_buf,
                 sampler, spent, package, runs, start, elapsed>>

\* The sum over the runs; the code divides it by N.
LoopDone ==
  /\ pc = "loop" /\ runs = N
  /\ result' = (IF package = "ITIMER" THEN Diff(start, Reading)
                                      ELSE Diff(Reading, start))
  /\ pc' = "done"
  /\ UNCHANGED <<machineVars, startVars, calVars, paramVars, cache_buf, values,
                 samplecount, samples, spent, package, ftimerVars>>

-----------------------------------------------------------------------------
FcycStep ==
  /\ package = "FCYC" /\ UNCHANGED <<package, ftimerVars>>
  /\ \/ SetParameter \/ Fcyc \/ clear \/ Start \/ Callibrate \/ CalGap \/ CalDone
     \/ FRuns \/ Sample \/ Again \/ Done

Return ==
  /\ pc = "done" /\ pc' = "idle" /\ samples' = <<>>
  /\ UNCHANGED <<machineVars, startVars, calVars, paramVars, cache_buf, values,
                 samplecount, result, spent, package, ftimerVars>>

Next ==
  \/ FcycStep \/ Return
  \/ Ftimer \/ LoopRuns \/ ClockStep \/ LoopDone

Spec == Init /\ [][Next]_vars

\* The function returns and the measuring goes on; interrupts keep coming, also
\* while callibrate waits for one.
CalEvent == CalGap /\ cal'.e > cal.e
Measures == clear \/ Start \/ Callibrate \/ CalDone \/ FRuns \/ Sample \/ Again \/ Done
FairSpec ==
  /\ Spec
  /\ WF_vars((Measures \/ CalEvent) /\ UNCHANGED <<package, ftimerVars>>)
  /\ WF_vars(LoopRuns \/ LoopDone)

-----------------------------------------------------------------------------
(* Properties.                                                             *)

\* The two words of the counter give the cycles since start_counter, whatever
\* they borrow from each other (get_counter).
CounterExact == pc = "sample" => get_counter = spent

\* fcyc returns the least of its samples, and it stops because kbest of them lie
\* within epsilon of that one or because it may take no more (fcyc, add_sample,
\* has_converged).
BestReturned ==
  pc = "done" /\ package = "FCYC" =>
    /\ \E i \in DOMAIN samples : samples[i] = result
    /\ \A i \in DOMAIN samples : samples[i] >= result
    /\ \/ Len(samples) >= maxsamples
       \/ Cardinality({i \in DOMAIN samples :
                        100 * samples[i] <= (100 + EpsilonPercent) * result}) >= kbest

\* The interval timer and the clock of the day, each in seconds and microseconds,
\* give the time of the runs; the clock with what somebody set it by
\* (ftimer_itimer, ftimer_gettod).
RunsTimed ==
  pc = "done" /\ package # "FCYC" =>
    result = elapsed + (IF package = "GETTOD" THEN stepped ELSE 0)

\* fcyc returns, even when compensation makes samples negative and they never
\* converge (fcyc; the program exits if clear has no memory).
FcycReturns == pc = "clear" ~> pc \in {"done", "exit"}
=============================================================================
