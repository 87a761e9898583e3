------------------------------ MODULE JobList ------------------------------
(***************************************************************************)
(* The job list of the tiny shell (shlab-handout/tsh.c:43-52 and the       *)
(* helper routines at 467-613): a fixed array of MAXJOBS entries and the   *)
(* counter nextjid from which addjob numbers the jobs.                     *)
(*                                                                         *)
(* The helpers are operators over the array, so that Tsh.tla can call them *)
(* from the shell's main flow and from its handlers; ListSpec is the list  *)
(* on its own, under every sequence of calls, and is also what the table   *)
(* inside the running shell is shown to implement.  The command line kept  *)
(* in an entry is left out: no decision of the shell reads it.             *)
(***************************************************************************)
EXTENDS Integers

CONSTANTS
  MAXJOBS,      \* entries in the array (16 in the code)
  Pids,         \* the process ids that fork may return
  JidBound      \* model bound: no job is added once nextjid has passed it

ASSUME JobListAssumption ==
  /\ MAXJOBS \in Nat \ {0}
  /\ JidBound \in Nat \ {0}
  /\ 0 \notin Pids /\ -1 \notin Pids

VARIABLES
  jobs,         \* the array: one record per slot
  nextjid       \* the number the next job gets

listVars == <<jobs, nextjid>>

Slots == 0 .. MAXJOBS-1
States == {"UNDEF", "FG", "BG", "ST"}
NULL == -1      \* "no such slot"

\* clearjob: what an unused entry holds.
EmptyJob == [pid |-> 0, jid |-> 0, state |-> "UNDEF"]

-----------------------------------------------------------------------------
(* The scans.  Each one walks the array from slot 0 and takes the first    *)
(* entry that matches.                                                     *)

First(S) == CHOOSE i \in S : \A k \in S : i <= k

maxjid(js) ==
  LET jids == {0} \cup {js[i].jid : i \in Slots}
  IN  CHOOSE m \in jids : \A j \in jids : j <= m

\* Mutant: the scan stops one entry short.
fgpid_ShortScan(js) ==
  LET fg == {i \in Slots \ {MAXJOBS-1} : js[i].state = "FG"}
  IN  IF fg = {} THEN 0 ELSE js[First(fg)].pid

\* Mutant: any job that is not stopped counts as the foreground job.
fgpid_AnyRunning(js) ==
  LET fg == {i \in Slots : js[i].state \in {"FG", "BG"}}
  IN  IF fg = {} THEN 0 ELSE js[First(fg)].pid

fgpid(js) ==
  LET fg == {i \in Slots : js[i].state = "FG"}
  IN  IF fg = {} THEN 0 ELSE js[First(fg)].pid

getjobpid(js, p) ==
  LET found == {i \in Slots : js[i].pid = p}
  IN  IF p \notin Pids \/ found = {} THEN NULL ELSE First(found)

getjobjid(js, j) ==
  LET found == {i \in Slots : js[i].jid = j}
  IN  IF j < 1 \/ found = {} THEN NULL ELSE First(found)

FreeSlots(js) == {i \in Slots : js[i].pid = 0}

-----------------------------------------------------------------------------
(* The updates.                                                            *)

ListInit ==
  /\ jobs = [i \in Slots |-> EmptyJob]
  /\ nextjid = 1

\* addjob: a pid below 1 or a full array leaves everything as it is (and
\* returns 0); otherwise the first free slot is filled and nextjid moves on,
\* wrapping to 1 above MAXJOBS.
AddJob(p, s) ==
  IF p \notin Pids \/ FreeSlots(jobs) = {}
  THEN UNCHANGED listVars
  ELSE /\ jobs' = [jobs EXCEPT ![First(FreeSlots(jobs))] =
                     [pid |-> p, jid |-> nextjid, state |-> s]]
       /\ nextjid' = IF nextjid + 1 > MAXJOBS THEN 1 ELSE nextjid + 1

\* Mutant: numbering restarts at the largest number instead of above it.
DeleteJob_NoIncrement(p) ==
  LET i == getjobpid(jobs, p)
  IN  IF i = NULL
      THEN UNCHANGED listVars
      ELSE /\ jobs' = [jobs EXCEPT ![i] = EmptyJob]
           /\ nextjid' = maxjid(jobs')

\* deletejob: the entry is cleared and the numbering restarts above the
\* largest number still in use; an unknown pid changes nothing.
DeleteJob(p) ==
  LET i == getjobpid(jobs, p)
  IN  IF i = NULL
      THEN UNCHANGED listVars
      ELSE /\ jobs' = [jobs EXCEPT ![i] = EmptyJob]
           /\ nextjid' = maxjid(jobs') + 1

\* A write of job->state through a pointer into the array: the SIGCHLD
\* handler (ST) and do_bgfg (FG, BG).  Nothing checks that the entry is in use.
SetState(i, s) ==
  /\ jobs' = [jobs EXCEPT ![i].state = s]
  /\ UNCHANGED nextjid

\* fork never returns the pid of a child that has not been reaped, and the
\* shell deletes the entry of a child it reaps.
ListAdd ==
  \E p \in Pids, s \in {"FG", "BG"} :
    /\ nextjid <= JidBound
    /\ \A i \in Slots : jobs[i].pid # p
    /\ AddJob(p, s)

ListDelete == \E p \in Pids : DeleteJob(p)

ListSetState == \E i \in Slots, s \in {"FG", "BG", "ST"} : SetState(i, s)

ListNext == ListAdd \/ ListDelete \/ ListSetState

ListSpec == ListInit /\ [][ListNext]_listVars

-----------------------------------------------------------------------------
(* Properties.                                                             *)

\* Type of the list: every slot is a job record, job numbers and nextjid stay
\* in the range that addjob and deletejob can produce under the model bound.
ListTypeOK ==
  /\ jobs \in [Slots -> [pid : Pids \cup {0}, jid : 0 .. JidBound, state : States]]
  /\ nextjid \in 1 .. JidBound + 1

\* As long as no job number has reached MAXJOBS, nextjid is above every number
\* in use: the wrap in addjob (tsh.c:507-508) and the recomputation in
\* deletejob (tsh.c:532) together never go back into the used range early.
NextJidAboveAll == maxjid(jobs) < MAXJOBS => nextjid = maxjid(jobs) + 1

\* While no number has reached MAXJOBS a newly added job never gets the number
\* of a job that is still in the list, so "%n" names one job.
JidFresh ==
  [][ \A i \in Slots :
        (jobs[i].pid = 0 /\ jobs'[i].pid # 0 /\ maxjid(jobs) < MAXJOBS)
           => \A k \in Slots : jobs[k].jid # jobs'[i].jid ]_listVars

\* No process has two entries, so a deleted job leaves nothing behind that
\* deletejob and getjobpid (which stop at the first match) would not see.
PidsUnique ==
  \A i, k \in Slots : jobs[i].pid # 0 /\ jobs[i].pid = jobs[k].pid => i = k
=============================================================================
