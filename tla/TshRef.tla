------------------------------- MODULE TshRef -------------------------------
(***************************************************************************)
(* The reference shell (shlab-handout/tsh-ref.c).  Its job list, its main  *)
(* flow and the children are those of Tsh.tla: eval blocks SIGCHLD around  *)
(* fork and addjob, do_bgfg looks the job up once more than it needs to,   *)
(* sends SIGCONT, writes the state and waits, and waitfg watches fgpid.    *)
(* The handlers are its own.  sigint_handler does not forward ctrl-c but   *)
(* sends SIGKILL and deletes the job itself; sigtstp_handler writes ST     *)
(* itself; both leave the shell when kill fails; and sigchld_handler       *)
(* leaves it when a child stops that is not listed.                        *)
(*                                                                         *)
(* Handlers that write the list may meet addjob half done, and a look-up   *)
(* in a handler may be stale when its result is used: these are two steps  *)
(* here.  A handler that has looked the job up keeps its slot in hpid.     *)
(***************************************************************************)
EXTENDS Tsh

\* unix_error and app_error print and call exit(1) from inside the handler.
ErrorExit == status' = "error" /\ UNCHANGED handlerVars

\* kill(-p, sig) finds a process group p: the child has called setpgid and has not
\* been reaped.  A zombie still is a group.
GroupExists(p) == proc[p] \notin {"none", "forked"}

\* SIGKILL can be neither caught nor blocked: what it leaves of the child is the
\* exit, and a stop that nobody has waited for is no longer reported.
Doomed(p) == "KILL" \in pend[p]

-----------------------------------------------------------------------------
(* The main flow.                                                          *)

RefCommands == \E s \in {"FG", "BG"} : EvalBlock(s) \/ BgFgLookup(s)

\* addjob, up to the state of the new entry: from there on fgpid finds the job ...
RefAddEntry ==
  /\ MainRuns /\ mpc = "addjob"
  /\ IF mpid \in Pids /\ FreeSlots(jobs) # {}
     THEN /\ mslot' = First(FreeSlots(jobs))
          /\ jobs' = [jobs EXCEPT ![mslot'] = [pid |-> mpid, jid |-> 0, state |-> mstate]]
          /\ mpc' = "addjid"
          /\ UNCHANGED hist
     ELSE /\ hist' = IF mpid \in Pids THEN hist \cup {"untracked"} ELSE hist
          /\ mpc' = "unblock"
          /\ UNCHANGED <<jobs, mslot>>
  /\ UNCHANGED <<nextjid, kernelVars, handlerVars, mpid, mstate, status>>

\* ... and its number, which is written even if ctrl-c has just emptied the entry.
RefAddJid ==
  /\ MainRuns /\ mpc = "addjid"
  /\ jobs' = [jobs EXCEPT ![mslot].jid = nextjid]
  /\ nextjid' = IF nextjid + 1 > MAXJOBS THEN 1 ELSE nextjid + 1
  /\ mpc' = "unblock" /\ mslot' = NULL
  /\ UNCHANGED <<kernelVars, handlerVars, mpid, mstate, status, hist>>

RefEvalStep == EvalFork \/ RefAddEntry \/ RefAddJid \/ EvalUnblock

RefBgFgStep == BgFgCont \/ BgFgSetState

RefMainStep == RefEvalStep \/ RefBgFgStep \/ WaitFg

\* quit and ctrl-d, and the driver's SIGQUIT.
RefLeave == Quit \/ Sigquit

-----------------------------------------------------------------------------
(* The handlers.                                                           *)

\* waitpid(-1, WNOHANG | WUNTRACED): a zombie, or a stop not yet reported.
RefChldWaitpid ==
  /\ HandlerRuns("CHLD") /\ hpc["CHLD"] = "waitpid"
  /\ \/ \E p \in Pids : /\ proc[p] = "zombie"
                        /\ proc' = [proc EXCEPT ![p] = "none"]
                        /\ Goto("CHLD", "delete", p)
     \/ \E p \in Pids : /\ proc[p] = "stopping" /\ ~Doomed(p)
                        /\ proc' = [proc EXCEPT ![p] = "stopped"]
                        /\ Goto("CHLD", "stop", p)
     \/ /\ \A p \in Pids : /\ proc[p] # "zombie"
                           /\ proc[p] = "stopping" => Doomed(p)
        /\ Return("CHLD")
        /\ UNCHANGED proc
  /\ UNCHANGED <<listVars, pend, sigs, masked, mainVars, status, hist>>

\* Mutant: the entry is dropped, as if the child had ended.
RefChldStop_Deletes ==
  /\ HandlerRuns("CHLD") /\ hpc["CHLD"] = "stop"
  /\ DeleteJob(hpid["CHLD"])
  /\ Goto("CHLD", "waitpid", 0)
  /\ UNCHANGED <<kernelVars, mainVars, status, hist>>

\* A child that stopped and is not in the list ends the shell: "pid not exist".
RefChldStop ==
  /\ HandlerRuns("CHLD") /\ hpc["CHLD"] = "stop"
  /\ LET i == getjobpid(jobs, hpid["CHLD"])
     IN  \/ i = NULL /\ ErrorExit
         \/ i # NULL /\ Goto("CHLD", "mark", i) /\ UNCHANGED status
  /\ UNCHANGED <<listVars, kernelVars, mainVars, hist>>

RefChldMark ==
  /\ HandlerRuns("CHLD") /\ hpc["CHLD"] = "mark"
  /\ SetState(hpid["CHLD"], "ST")
  /\ Goto("CHLD", "waitpid", 0)
  /\ UNCHANGED <<kernelVars, mainVars, status, hist>>

\* Mutant: the signal the user typed, which the job may catch, and not SIGKILL.
RefIntKill_Forwards ==
  /\ HandlerRuns("INT") /\ hpc["INT"] = "kill"
  /\ LET p == hpid["INT"]
     IN  \/ ~GroupExists(p) /\ ErrorExit /\ UNCHANGED pend
         \/ /\ GroupExists(p)
            /\ KillGroup(p, "INT")
            /\ Goto("INT", "delete", p)
            /\ UNCHANGED status
  /\ UNCHANGED <<listVars, proc, sigs, masked, mainVars, hist>>

\* sigint_handler: kill(-pid, SIGKILL), whose failure ends the shell.
RefIntKill ==
  /\ HandlerRuns("INT") /\ hpc["INT"] = "kill"
  /\ LET p == hpid["INT"]
     IN  \/ ~GroupExists(p) /\ ErrorExit /\ UNCHANGED pend
         \/ /\ GroupExists(p)
            /\ KillGroup(p, "KILL")
            /\ Goto("INT", "delete", p)
            /\ UNCHANGED status
  /\ UNCHANGED <<listVars, proc, sigs, masked, mainVars, hist>>

\* It does not wait for SIGCHLD to take the job off the list.
RefIntDelete ==
  /\ HandlerRuns("INT") /\ hpc["INT"] = "delete"
  /\ DeleteJob(hpid["INT"])
  /\ Return("INT")
  /\ UNCHANGED <<kernelVars, mainVars, status, hist>>

RefTstpEnter == EnterWithFgpid("TSTP", "kill")

\* sigtstp_handler: kill(-pid, SIGTSTP), whose failure ends the shell.
RefTstpKill ==
  /\ HandlerRuns("TSTP") /\ hpc["TSTP"] = "kill"
  /\ LET p == hpid["TSTP"]
     IN  \/ ~GroupExists(p) /\ ErrorExit /\ UNCHANGED pend
         \/ /\ GroupExists(p)
            /\ KillGroup(p, "TSTP")
            /\ Goto("TSTP", "lookup", p)
            /\ UNCHANGED status
  /\ UNCHANGED <<listVars, proc, sigs, masked, mainVars, hist>>

\* getjobpid, NULL or not, and then this_job->state = ST through its result.
RefTstpLookup ==
  /\ HandlerRuns("TSTP") /\ hpc["TSTP"] = "lookup"
  /\ LET i == getjobpid(jobs, hpid["TSTP"])
     IN  \/ i = NULL /\ status' = "segv" /\ UNCHANGED handlerVars
         \/ i # NULL /\ Goto("TSTP", "mark", i) /\ UNCHANGED status
  /\ UNCHANGED <<listVars, kernelVars, mainVars, hist>>

RefTstpMark ==
  /\ HandlerRuns("TSTP") /\ hpc["TSTP"] = "mark"
  /\ SetState(hpid["TSTP"], "ST")
  /\ Return("TSTP")
  /\ UNCHANGED <<kernelVars, mainVars, status, hist>>

-----------------------------------------------------------------------------
\* The kernel carries SIGKILL out, on a stopped child too.
ChildDies(p) ==
  /\ World(p) /\ proc[p] \in Live /\ Doomed(p)
  /\ ChildChanges(p, "zombie", {})

\* A doomed child runs no further instruction of its own.
RefChild(p) == ~Doomed(p) /\ Child(p)

RefChldStep == ChldEnter \/ RefChldWaitpid \/ ChldDelete \/ RefChldStop \/ RefChldMark

RefIntStep == IntEnter \/ RefIntKill \/ RefIntDelete

RefTstpStep == RefTstpEnter \/ RefTstpKill \/ RefTstpLookup \/ RefTstpMark

RefNext ==
  \/ RefCommands \/ RefMainStep \/ RefLeave
  \/ RefChldStep \/ RefIntStep \/ RefTstpStep
  \/ Keyboard("INT") \/ Keyboard("TSTP")
  \/ \E p \in Pids : RefChild(p) \/ ChildDies(p)

RefSpec == Init /\ [][RefNext]_vars

\* As for Tsh, and the kernel carries a SIGKILL out in the end.
RefFairSpec ==
  /\ RefSpec
  /\ SF_vars(RefMainStep)
  /\ SF_vars(RefChldStep)
  /\ SF_vars(RefIntStep)
  /\ SF_vars(RefTstpStep)
  /\ \A p \in Pids : WF_vars(ChildDies(p))
  /\ QuietWorld

-----------------------------------------------------------------------------
(* Properties.                                                             *)

\* Type of the whole state.  Job numbers have no bound here: sigint_handler may
\* renumber between eval's start and the rest of addjob.
RefTypeOK ==
  /\ jobs \in [Slots -> [pid : Pids \cup {0}, jid : Nat, state : States]]
  /\ nextjid \in Nat
  /\ proc \in [Pids -> ProcStates]
  /\ pend \in [Pids -> SUBSET {"INT", "TSTP", "KILL"}]
  /\ sigs \in SUBSET Handlers
  /\ masked \in BOOLEAN
  /\ level \in [Handlers -> Nat]
  /\ hpc \in [Handlers -> {"idle", "waitpid", "delete", "stop", "kill", "lookup", "mark"}]
  /\ hpid \in [Handlers -> Pids \cup {0} \cup Slots]
  /\ mpc \in {"prompt", "fork", "addjob", "addjid", "unblock", "waitfg", "sigcont", "setstate"}
  /\ mpid \in Pids \cup {0, FORK_FAILED}
  /\ mstate \in {"FG", "BG"}
  /\ mslot \in Slots \cup {NULL}
  /\ status \in {"running", "exited", "segv", "error"}
  /\ hist \in SUBSET Mishaps

\* A child without an entry is one the full list could not take or one that
\* sigint_handler has sent to its death before it deleted the entry: the handler's
\* own deletejob never forgets a job that lives on (tsh-ref.c:468-474).
ForgottenOnlyDoomed ==
  "untracked" \notin hist =>
    \A p \in Pids : proc[p] \in Live =>
      \/ mpc = "addjob" /\ mpid = p
      \/ \E i \in Slots : Entry(i, p)
      \/ Doomed(p)

\* waitfg gives the prompt back while its job is alive only when the list says the
\* job has stopped or SIGKILL is on its way to it, unless the job is not in the list
\* or another entry stood in its way (tsh-ref.c:399).
RefWaitfgReturnsWhenDone ==
  [][ (mpc = "waitfg" /\ mpc' # "waitfg" /\ mpid \in Pids /\ proc[mpid] \in Live
         /\ hist \cap {"untracked", "staleWrite"} = {})
        => \/ Doomed(mpid)
           \/ \E i \in Slots : Entry(i, mpid) /\ jobs[i].state = "ST" ]_vars

\* ctrl-c ends a foreground job that is in its process group, whatever the job
\* does with its signals, and the shell reaps it, unless the shell itself ends.
InterruptEndsJob ==
  \A p \in Pids :
    (hpc["INT"] = "kill" /\ hpid["INT"] = p /\ GroupExists(p))
      ~> (proc[p] = "none" \/ Ended)
=============================================================================
