-------------------------------- MODULE Tsh --------------------------------
(***************************************************************************)
(* The tiny shell (shlab-handout/tsh.c): its main flow, its three signal   *)
(* handlers, the children it forks, and the kernel's signals between them. *)
(*                                                                         *)
(* The shell is one thread.  The main flow runs only while no handler is   *)
(* active; a handler runs until it returns or a signal of another kind     *)
(* interrupts it (Signal installs every handler with an empty sa_mask, so  *)
(* only the signal being handled is blocked).  Each action is one step     *)
(* between two points where a signal can make a difference: a system call, *)
(* or a walk through the job list.                                         *)
(*                                                                         *)
(* A child is a process group of one process, named by its pid.  The       *)
(* programs it runs may exit, be killed, stop or be continued at any time. *)
(***************************************************************************)
EXTENDS JobList, FiniteSets

CONSTANT Keys   \* the signals the user's keyboard sends in this instance

ASSUME TshAssumption == Keys \subseteq {"INT", "TSTP", "QUIT"}

VARIABLES
  proc,      \* kernel: what each pid is doing
  pend,      \* kernel: signals sent to each child and not yet acted on
  sigs,      \* kernel: signals pending for the shell
  masked,    \* SIGCHLD is blocked in the shell
  level,     \* nesting depth of each handler of the shell, 0 when inactive
  hpc, hpid, \* next step and local pid of each handler
  mpc,       \* next step of the main flow
  mpid,      \* main flow: pid in eval or do_bgfg
  mstate,    \* main flow: the state asked for, FG or BG
  mslot,     \* main flow: this_job in do_bgfg, as an index
  status,    \* "running", or how the shell ended
  hist       \* history: the mishaps that have happened (see Mishaps)

kernelVars == <<proc, pend, sigs, masked>>
handlerVars == <<level, hpc, hpid>>
mainVars == <<mpc, mpid, mstate, mslot>>
vars == <<listVars, kernelVars, handlerVars, mainVars, status, hist>>

Handlers == {"CHLD", "INT", "TSTP"}

\* The life of a child: "forked" until setpgid, "grouped" until execve,
\* "running" the program, "stopping" when stopped and not yet reported by
\* waitpid, "stopped" once reported, "zombie" until reaped.
ProcStates == {"none", "forked", "grouped", "running", "stopping", "stopped", "zombie"}
Live == ProcStates \ {"none", "zombie"}

\* staleWrite: do_bgfg wrote a state into an entry the SIGCHLD handler had cleared;
\* lostStop: do_bgfg overwrote the ST of a job that had stopped again;
\* untracked: addjob found the list full and eval went on.
Mishaps == {"staleWrite", "lostStop", "untracked"}

FORK_FAILED == -1

Init ==
  /\ ListInit
  /\ proc = [p \in Pids |-> "none"]
  /\ pend = [p \in Pids |-> {}]
  /\ sigs = {}
  /\ masked = FALSE
  /\ level = [h \in Handlers |-> 0]
  /\ hpc = [h \in Handlers |-> "idle"]
  /\ hpid = [h \in Handlers |-> 0]
  /\ mpc = "prompt" /\ mpid = 0 /\ mstate = "BG" /\ mslot = NULL
  /\ status = "running"
  /\ hist = {}

-----------------------------------------------------------------------------
(* Who runs.                                                               *)

MainRuns == status = "running" /\ \A h \in Handlers : level[h] = 0

HandlerRuns(h) ==
  /\ status = "running"
  /\ level[h] # 0
  /\ \A g \in Handlers : level[g] <= level[h]

Enter(h, pc, p) ==
  /\ level' = [level EXCEPT ![h] = 1 + Cardinality({g \in Handlers : level[g] # 0})]
  /\ hpc' = [hpc EXCEPT ![h] = pc]
  /\ hpid' = [hpid EXCEPT ![h] = p]

Goto(h, pc, p) ==
  /\ hpc' = [hpc EXCEPT ![h] = pc]
  /\ hpid' = [hpid EXCEPT ![h] = p]
  /\ UNCHANGED level

Return(h) ==
  /\ level' = [level EXCEPT ![h] = 0]
  /\ hpc' = [hpc EXCEPT ![h] = "idle"]
  /\ hpid' = [hpid EXCEPT ![h] = 0]

\* Back to the read/eval loop of main, whose locals are dead there.
ToPrompt == mpc' = "prompt" /\ mpid' = 0 /\ mstate' = "BG" /\ mslot' = NULL

MainGoto(pc) == mpc' = pc /\ UNCHANGED <<mpid, mstate, mslot>>

-----------------------------------------------------------------------------
(* The kernel's side of the calls.                                         *)

\* kill(-p, s) for SIGINT and SIGTSTP.  Until the child has called setpgid
\* there is no group p and the call fails with ESRCH, which nobody checks; a
\* zombie takes no notice.
KillGroup(p, s) ==
  pend' = IF p \in Pids /\ proc[p] \in Live \ {"forked"}
          THEN [pend EXCEPT ![p] = @ \cup {s}]
          ELSE pend

\* SIGCONT discards pending stop signals, resumes a stopped process and then
\* tells the parent so with SIGCHLD; waitpid has nothing to report for it.
Continue(p) ==
  /\ pend' = IF proc[p] = "forked" THEN pend ELSE [pend EXCEPT ![p] = @ \ {"TSTP"}]
  /\ IF proc[p] \in {"stopping", "stopped"}
     THEN proc' = [proc EXCEPT ![p] = "running"] /\ sigs' = sigs \cup {"CHLD"}
     ELSE UNCHANGED <<proc, sigs>>

\* A child becomes a zombie or stops: the parent gets SIGCHLD,
\* and only the signals in left stay pending for the child.
ChildChanges(p, to, left) ==
  /\ proc' = [proc EXCEPT ![p] = to]
  /\ pend' = [pend EXCEPT ![p] = left]
  /\ sigs' = sigs \cup {"CHLD"}

-----------------------------------------------------------------------------
(* The main flow: eval, waitfg and do_bgfg.  Lines that do not reach fork  *)
(* or do_bgfg (blank lines, "&", "jobs", bg and fg with a missing or       *)
(* unknown argument) change nothing and are not steps.                     *)

\* Mutant: SIGCHLD is not blocked around fork and addjob.
EvalBlock_NoMask(s) ==
  /\ MainRuns /\ mpc = "prompt"
  /\ nextjid <= JidBound
  /\ mpc' = "fork" /\ mstate' = s
  /\ UNCHANGED <<listVars, kernelVars, handlerVars, mpid, mslot, status, hist>>

\* A command line that is not built in: SIGCHLD is blocked before the fork.
EvalBlock(s) ==
  /\ MainRuns /\ mpc = "prompt"
  /\ nextjid <= JidBound
  /\ masked' = TRUE
  /\ mpc' = "fork" /\ mstate' = s
  /\ UNCHANGED <<listVars, proc, pend, sigs, handlerVars, mpid, mslot, status, hist>>

\* fork gives a pid that no unreaped child has, or fails: its -1 then goes the
\* way of a pid.
EvalFork ==
  /\ MainRuns /\ mpc = "fork"
  /\ mpc' = "addjob"
  /\ \/ \E p \in Pids : /\ proc[p] = "none"
                        /\ proc' = [proc EXCEPT ![p] = "forked"]
                        /\ mpid' = p
     \/ mpid' = FORK_FAILED /\ UNCHANGED proc
  /\ UNCHANGED <<listVars, pend, sigs, masked, handlerVars, mstate, mslot, status, hist>>

\* The parent's addjob, whose result eval does not look at.
EvalAddJob ==
  /\ MainRuns /\ mpc = "addjob"
  /\ AddJob(mpid, mstate)
  /\ hist' = IF mpid \in Pids /\ FreeSlots(jobs) = {}
             THEN hist \cup {"untracked"} ELSE hist
  /\ MainGoto("unblock")
  /\ UNCHANGED <<kernelVars, handlerVars, status>>

EvalUnblock ==
  /\ MainRuns /\ mpc = "unblock"
  /\ masked' = FALSE
  /\ IF mstate = "BG" THEN ToPrompt ELSE MainGoto("waitfg")
  /\ UNCHANGED <<listVars, proc, pend, sigs, handlerVars, status, hist>>

\* waitfg spins, and so takes no step, while pid is the foreground process.
WaitFg ==
  /\ MainRuns /\ mpc = "waitfg"
  /\ mpid # fgpid(jobs)
  /\ ToPrompt
  /\ UNCHANGED <<listVars, kernelVars, handlerVars, status, hist>>

\* bg and fg look the job up by %jid and then by pid, or by pid alone.  Only
\* this flow adds jobs, so the two look-ups agree or the job is gone.
BgFgLookup(s) ==
  /\ MainRuns /\ mpc = "prompt"
  /\ \E p \in Pids :
       /\ \/ getjobpid(jobs, p) # NULL
          \/ \E j \in 1 .. JidBound :
               getjobjid(jobs, j) # NULL /\ p = jobs[getjobjid(jobs, j)].pid
       /\ mpid' = p
       /\ mslot' = getjobpid(jobs, p)
  /\ mpc' = "sigcont" /\ mstate' = s
  /\ UNCHANGED <<listVars, kernelVars, handlerVars, status, hist>>

BgFgCont ==
  /\ MainRuns /\ mpc = "sigcont"
  /\ Continue(mpid)
  /\ MainGoto("setstate")
  /\ UNCHANGED <<listVars, masked, handlerVars, status, hist>>

\* this_job->state = BG or FG, whatever the handlers have done to the entry
\* since the look-up.
BgFgSetState ==
  /\ MainRuns /\ mpc = "setstate"
  /\ SetState(mslot, mstate)
  /\ hist' = hist \cup
       (IF jobs[mslot].pid = 0 THEN {"staleWrite"}
        ELSE IF jobs[mslot].state = "ST" /\ proc[mpid] = "stopped" THEN {"lostStop"}
        ELSE {})
  /\ IF mstate = "BG" THEN ToPrompt ELSE MainGoto("waitfg")
  /\ UNCHANGED <<kernelVars, handlerVars, status>>

Exit ==
  /\ status' = "exited"
  /\ UNCHANGED <<listVars, kernelVars, handlerVars, mainVars, hist>>

\* The quit command; ctrl-d leaves from the same place.
Quit == MainRuns /\ mpc = "prompt" /\ Exit

\* sigquit_handler exits whatever the shell is doing.
Sigquit == status = "running" /\ "QUIT" \in Keys /\ Exit

-----------------------------------------------------------------------------
(* The handlers.                                                           *)

\* A pending signal interrupts the main flow or another handler, unless it is
\* blocked: SIGCHLD by eval's mask, every signal by its own handler.
Deliverable(h) ==
  /\ status = "running"
  /\ h \in sigs /\ level[h] = 0
  /\ h = "CHLD" => ~masked

ChldEnter ==
  /\ Deliverable("CHLD")
  /\ sigs' = sigs \ {"CHLD"}
  /\ Enter("CHLD", "waitpid", 0)
  /\ UNCHANGED <<listVars, proc, pend, masked, mainVars, status, hist>>

\* Mutant: waitpid without WUNTRACED.
ChldWaitpid_ExitsOnly ==
  /\ HandlerRuns("CHLD") /\ hpc["CHLD"] = "waitpid"
  /\ \/ \E p \in Pids : /\ proc[p] = "zombie"
                        /\ proc' = [proc EXCEPT ![p] = "none"]
                        /\ Goto("CHLD", "delete", p)
     \/ /\ \A p \in Pids : proc[p] # "zombie"
        /\ Return("CHLD")
        /\ UNCHANGED proc
  /\ UNCHANGED <<listVars, pend, sigs, masked, mainVars, status, hist>>

\* waitpid(-1, WNOHANG|WUNTRACED) takes one zombie, or one stop not yet
\* reported, in whatever order the kernel finds them; with neither, the loop ends.
ChldWaitpid ==
  /\ HandlerRuns("CHLD") /\ hpc["CHLD"] = "waitpid"
  /\ \/ \E p \in Pids : /\ proc[p] = "zombie"
                        /\ proc' = [proc EXCEPT ![p] = "none"]
                        /\ Goto("CHLD", "delete", p)
     \/ \E p \in Pids : /\ proc[p] = "stopping"
                        /\ proc' = [proc EXCEPT ![p] = "stopped"]
                        /\ Goto("CHLD", "stop", p)
     \/ /\ \A p \in Pids : proc[p] \notin {"zombie", "stopping"}
        /\ Return("CHLD")
        /\ UNCHANGED proc
  /\ UNCHANGED <<listVars, pend, sigs, masked, mainVars, status, hist>>

\* Mutant: the handler reaps one child per signal ("if" for "while").
ChldDelete_Once ==
  /\ HandlerRuns("CHLD") /\ hpc["CHLD"] = "delete"
  /\ DeleteJob(hpid["CHLD"])
  /\ Return("CHLD")
  /\ UNCHANGED <<kernelVars, mainVars, status, hist>>

\* The child exited or was killed by a signal.
ChldDelete ==
  /\ HandlerRuns("CHLD") /\ hpc["CHLD"] = "delete"
  /\ DeleteJob(hpid["CHLD"])
  /\ Goto("CHLD", "waitpid", 0)
  /\ UNCHANGED <<kernelVars, mainVars, status, hist>>

\* Mutant: a stopped child is taken for one that ended.
ChldStop_Deletes ==
  /\ HandlerRuns("CHLD") /\ hpc["CHLD"] = "stop"
  /\ DeleteJob(hpid["CHLD"])
  /\ Goto("CHLD", "waitpid", 0)
  /\ UNCHANGED <<kernelVars, mainVars, status, hist>>

\* Mutant: only the foreground job is marked as stopped.
ChldStop_ForegroundOnly ==
  /\ HandlerRuns("CHLD") /\ hpc["CHLD"] = "stop"
  /\ LET i == getjobpid(jobs, hpid["CHLD"])
     IN  IF i # NULL /\ fgpid(jobs) = hpid["CHLD"] THEN SetState(i, "ST") ELSE UNCHANGED listVars
  /\ Goto("CHLD", "waitpid", 0)
  /\ UNCHANGED <<kernelVars, mainVars, status, hist>>

\* The child stopped; a child that is not in the list is passed over.
ChldStop ==
  /\ HandlerRuns("CHLD") /\ hpc["CHLD"] = "stop"
  /\ LET i == getjobpid(jobs, hpid["CHLD"])
     IN  IF i = NULL THEN UNCHANGED listVars ELSE SetState(i, "ST")
  /\ Goto("CHLD", "waitpid", 0)
  /\ UNCHANGED <<kernelVars, mainVars, status, hist>>

\* sigint_handler and sigtstp_handler start by asking for the foreground job
\* and return when there is none.
EnterWithFgpid(h, pc) ==
  /\ Deliverable(h)
  /\ sigs' = sigs \ {h}
  /\ IF fgpid(jobs) = 0 THEN UNCHANGED handlerVars
                        ELSE Enter(h, pc, fgpid(jobs))
  /\ UNCHANGED <<listVars, proc, pend, masked, mainVars, status, hist>>

IntEnter == EnterWithFgpid("INT", "kill")

TstpEnter == EnterWithFgpid("TSTP", "check")

\* sigtstp_handler looks the job up again and reads job->state without asking
\* whether it is still there; a job already stopped is left alone.
TstpCheck ==
  /\ HandlerRuns("TSTP") /\ hpc["TSTP"] = "check"
  /\ LET i == getjobpid(jobs, hpid["TSTP"])
     IN  \/ i = NULL /\ status' = "segv" /\ UNCHANGED handlerVars
         \/ i # NULL /\ jobs[i].state = "ST" /\ Return("TSTP") /\ UNCHANGED status
         \/ i # NULL /\ jobs[i].state # "ST" /\ Goto("TSTP", "kill", hpid["TSTP"])
            /\ UNCHANGED status
  /\ UNCHANGED <<listVars, kernelVars, mainVars, hist>>

\* Mutant: sigtstp_handler is a copy of sigint_handler and passes SIGINT on.
ForwardKill_Copied(h) ==
  /\ HandlerRuns(h) /\ hpc[h] = "kill"
  /\ KillGroup(hpid[h], "INT")
  /\ Return(h)
  /\ UNCHANGED <<listVars, proc, sigs, masked, mainVars, status, hist>>

ForwardKill(h) ==
  /\ HandlerRuns(h) /\ hpc[h] = "kill"
  /\ KillGroup(hpid[h], h)
  /\ Return(h)
  /\ UNCHANGED <<listVars, proc, sigs, masked, mainVars, status, hist>>

IntKill == ForwardKill("INT")

TstpKill == ForwardKill("TSTP")

-----------------------------------------------------------------------------
(* The world around the shell: the user's keyboard and the children.       *)

\* ctrl-c or ctrl-z.
Keyboard(h) ==
  /\ status = "running" /\ h \in Keys
  /\ sigs' = sigs \cup {h}
  /\ UNCHANGED <<listVars, proc, pend, masked, handlerVars, mainVars, status, hist>>

World(p) ==
  /\ status = "running" /\ p \in Pids
  /\ UNCHANGED <<listVars, masked, handlerVars, mainVars, status, hist>>

ChildSetpgid(p) ==
  /\ World(p) /\ proc[p] = "forked"
  /\ proc' = [proc EXCEPT ![p] = "grouped"]
  /\ UNCHANGED <<pend, sigs>>

ChildExecve(p) ==
  /\ World(p) /\ proc[p] = "grouped"
  /\ proc' = [proc EXCEPT ![p] = "running"]
  /\ UNCHANGED <<pend, sigs>>

\* The child ends: setpgid or execve failed, the program exited or was killed.
ChildExit(p) ==
  /\ World(p) /\ proc[p] \in Live
  /\ ChildChanges(p, "zombie", {})

\* A pending signal meets the default action.
ChildKilled(p) ==
  /\ World(p) /\ proc[p] = "running" /\ "INT" \in pend[p]
  /\ ChildChanges(p, "zombie", {})

ChildStopped(p) ==
  /\ World(p) /\ proc[p] = "running" /\ "TSTP" \in pend[p]
  /\ ChildChanges(p, "stopping", pend[p] \ {"TSTP"})

\* A pending signal meets a handler: the shell's own, inherited until execve,
\* which finds no foreground job in the child's copy of the list (eval forks from
\* the prompt), or the program's.
ChildCatches(p) ==
  /\ World(p) /\ proc[p] \in {"grouped", "running"}
  /\ \E s \in pend[p] : pend' = [pend EXCEPT ![p] = @ \ {s}]
  /\ UNCHANGED <<proc, sigs>>

\* The program stops itself, or another process stops or continues it.
ChildStopsItself(p) ==
  /\ World(p) /\ proc[p] = "running"
  /\ ChildChanges(p, "stopping", pend[p])

ChildContinued(p) ==
  /\ World(p) /\ proc[p] \in {"stopping", "stopped"}
  /\ Continue(p)

-----------------------------------------------------------------------------
Commands == \E s \in {"FG", "BG"} : EvalBlock(s) \/ BgFgLookup(s)

MainStep ==
  EvalFork \/ EvalAddJob \/ EvalUnblock \/ WaitFg \/ BgFgCont \/ BgFgSetState

ChldStep == ChldEnter \/ ChldWaitpid \/ ChldDelete \/ ChldStop

IntStep == IntEnter \/ IntKill

TstpStep == TstpEnter \/ TstpCheck \/ TstpKill

Child(p) ==
  \/ ChildSetpgid(p) \/ ChildExecve(p) \/ ChildExit(p)
  \/ ChildKilled(p) \/ ChildStopped(p) \/ ChildCatches(p)
  \/ ChildStopsItself(p) \/ ChildContinued(p)

Next ==
  \/ Commands \/ MainStep \/ Quit \/ Sigquit
  \/ ChldStep \/ IntStep \/ TstpStep
  \/ Keyboard("INT") \/ Keyboard("TSTP")
  \/ \E p \in Pids : Child(p)

Spec == Init /\ [][Next]_vars

\* A context that is runnable again and again gets to take its next step: the
\* user does not type ctrl-c faster than the shell runs.  Nothing is assumed of
\* the user's commands.
Fairness ==
  /\ SF_vars(MainStep)
  /\ SF_vars(ChldStep)
  /\ SF_vars(IntStep)
  /\ SF_vars(TstpStep)

\* Other processes stop waking the shell's children at some point; otherwise one
\* child stopped and continued for ever keeps the loop of sigchld_handler busy.
QuietWorld == <>[][\A p \in Pids : ~ChildContinued(p)]_vars

FairSpec == Spec /\ Fairness /\ QuietWorld

-----------------------------------------------------------------------------
(* Properties.                                                             *)

\* Type of the whole state.
TypeOK ==
  /\ ListTypeOK
  /\ proc \in [Pids -> ProcStates]
  /\ pend \in [Pids -> SUBSET {"INT", "TSTP"}]
  /\ sigs \in SUBSET Handlers
  /\ masked \in BOOLEAN
  /\ level \in [Handlers -> Nat]
  /\ hpc \in [Handlers -> {"idle", "waitpid", "delete", "stop", "check", "kill"}]
  /\ hpid \in [Handlers -> Pids \cup {0}]
  /\ mpc \in {"prompt", "fork", "addjob", "unblock", "waitfg", "sigcont", "setstate"}
  /\ mpid \in Pids \cup {0, FORK_FAILED}
  /\ mstate \in {"FG", "BG"}
  /\ mslot \in Slots \cup {NULL}
  /\ status \in {"running", "exited", "segv"}
  /\ hist \in SUBSET Mishaps

Entry(i, p) == jobs[i].pid = p

\* An entry names a child that has not been reaped, except while the SIGCHLD
\* handler that has just reaped it is about to delete the entry.  This is what
\* blocking SIGCHLD from before fork until after addjob (tsh.c:182-201) is for.
EntriesLive ==
  \A i \in Slots : jobs[i].pid # 0 =>
    \/ proc[jobs[i].pid] # "none"
    \/ hpc["CHLD"] = "delete" /\ hpid["CHLD"] = jobs[i].pid

\* Every child has an entry from addjob until it is reaped, unless the list was
\* full when one was added.
ChildrenTracked ==
  "untracked" \notin hist =>
    \A p \in Pids : proc[p] # "none" =>
      \/ mpc = "addjob" /\ mpid = p
      \/ \E i \in Slots : Entry(i, p)

\* At most 1 job can be in the FG state (tsh.c:36).
OneForeground ==
  \A i, k \in Slots : jobs[i].state = "FG" /\ jobs[k].state = "FG" => i = k

\* While do_bgfg has not written through a stale pointer, the job in state FG is
\* the one the main flow is waiting for, so no prompt appears beside it and there
\* is only one.
ForegroundAwaited ==
  "staleWrite" \notin hist =>
    /\ OneForeground
    /\ \A i \in Slots : jobs[i].state = "FG" =>
         /\ Entry(i, mpid)
         /\ mpc = "waitfg" \/ (mpc = "unblock" /\ mstate = "FG")

\* A stop that waitpid reported is in the list (state ST) once the handler has
\* gone on, unless do_bgfg wrote FG or BG over it.
StopRecorded ==
  "lostStop" \notin hist =>
    \A p \in Pids, i \in Slots :
      (proc[p] = "stopped" /\ Entry(i, p) /\ ~(hpc["CHLD"] = "stop" /\ hpid["CHLD"] = p))
        => jobs[i].state = "ST"

\* ctrl-c and ctrl-z never reach a job that runs in the background
\* (trace07 and trace08: "only to foreground job").
NoSignalToBackground ==
  [][ \A p \in Pids : ~(pend'[p] \subseteq pend[p]) =>
        ~ \E i \in Slots : Entry(i, p) /\ jobs[i].state = "BG" ]_vars

\* sigint_handler and sigtstp_handler come to their end with their signal left pending
\* at the job they found, unless the child is not yet in its own process group
\* (tsh.c:433), has ended, or is down as stopped in the list, which ctrl-z leaves alone
\* (tsh.c:450); while the child is not reaped that job is the one the main flow waits
\* for; and they end the shell only in sigtstp_handler, for a job that has been reaped.
KeysArrive ==
  [][ /\ \A h \in {"INT", "TSTP"} :
           hpc[h] # "idle" /\ hpc'[h] = "idle" =>
             /\ \/ h \in pend'[hpid[h]]
                \/ proc[hpid[h]] \in {"none", "forked", "zombie"}
                \/ h = "TSTP" /\ \E i \in Slots : Entry(i, hpid[h]) /\ jobs[i].state = "ST"
             /\ proc[hpid[h]] # "none" /\ "staleWrite" \notin hist => mpid = hpid[h]
      /\ status = "running" /\ status' = "segv" =>
           hpc["TSTP"] = "check" /\ proc[hpid["TSTP"]] = "none" ]_vars

\* waitfg gives the prompt back while its job is alive only when the list says
\* that the job has stopped, unless the job is not in the list or another entry
\* stood in its way.
WaitfgReturnsWhenDone ==
  [][ (mpc = "waitfg" /\ mpc' # "waitfg" /\ mpid \in Pids /\ proc[mpid] \in Live
         /\ hist \cap {"untracked", "staleWrite"} = {})
        => \E i \in Slots : Entry(i, mpid) /\ jobs[i].state = "ST" ]_vars

Ended == status # "running"

\* Every zombie is reaped, also when one SIGCHLD stands for several children.
ZombiesReaped == \A p \in Pids : proc[p] = "zombie" ~> (proc[p] # "zombie" \/ Ended)

\* The prompt comes back after the foreground job has ended or stopped, unless
\* somebody continues the job first or do_bgfg wrote FG over its stop.
WaitfgEnds ==
  \A p \in Pids :
    (mpc = "waitfg" /\ mpid = p /\ proc[p] \in {"stopping", "zombie"})
      ~> \/ mpc # "waitfg" \/ Ended
         \/ proc[p] = "running"
         \/ proc[p] = "stopped" /\ "lostStop" \in hist
=============================================================================
