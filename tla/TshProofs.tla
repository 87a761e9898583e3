----------------------------- MODULE TshProofs -----------------------------
(***************************************************************************)
(* Proofs about the job list, the shell and the reference shell, for every *)
(* MAXJOBS, set of pids and JidBound and for every choice of Keys.         *)
(*                                                                         *)
(* EntriesLive is not inductive: that a reaped child cannot be the one     *)
(* addjob is about to enter rests on the mask being set, and on no SIGCHLD *)
(* handler being halfway, from before fork until after addjob.  IInv adds  *)
(* those facts.  The reference shell's handlers write the list themselves, *)
(* so that its RefInv cannot rest on the mask alone: KilledDoomed says     *)
(* what sigint_handler has in its hand when it deletes a job.              *)
(***************************************************************************)
EXTENDS TshRef, NatFacts

-----------------------------------------------------------------------------
(* The job list.                                                           *)

\* The first of a set of slots is one of them and none is before it.
LEMMA FirstIsLeast ==
  ASSUME NEW S \in SUBSET Slots, S # {}
  PROVE  First(S) \in S /\ \A k \in S : First(S) <= k
<1>1. S \in SUBSET Nat
  BY JobListAssumption DEF Slots
<1>2. \E i \in S : \A k \in S : i <= k
  BY <1>1, LeastNat
<1> QED BY <1>2 DEF First

\* maxjid returns 0 or a number in use, and nothing in use is above it.
LEMMA MaxjidIsGreatest ==
  ASSUME NEW js, \A i \in Slots : js[i].jid \in 0 .. JidBound
  PROVE  /\ maxjid(js) \in 0 .. JidBound
         /\ \A i \in Slots : js[i].jid <= maxjid(js)
         /\ maxjid(js) = 0 \/ \E i \in Slots : js[i].jid = maxjid(js)
<1> DEFINE jids == {0} \cup {js[i].jid : i \in Slots}
<1>1. JidBound \in Nat
  BY JobListAssumption
<1>2. jids \in SUBSET (0 .. JidBound) /\ jids # {}
  BY <1>1
<1>3. \E m \in jids : \A j \in jids : j <= m
  <2> HIDE DEF jids
  <2> QED BY <1>1, <1>2, GreatestNat
<1>4. maxjid(js) \in jids /\ \A j \in jids : j <= maxjid(js)
  BY <1>3 DEF maxjid
<1>5. \A i \in Slots : js[i].jid \in jids
  OBVIOUS
<1> QED BY <1>2, <1>4, <1>5

\* getjobpid returns NULL or a slot that holds the pid, and NULL only when no
\* slot does.
LEMMA GetjobpidFinds ==
  ASSUME NEW js, NEW p
  PROVE  /\ getjobpid(js, p) \in Slots \cup {NULL}
         /\ getjobpid(js, p) # NULL =>
              getjobpid(js, p) \in Slots /\ p \in Pids /\ js[getjobpid(js, p)].pid = p
         /\ (getjobpid(js, p) = NULL /\ p \in Pids) => \A i \in Slots : js[i].pid # p
<1> DEFINE found == {i \in Slots : js[i].pid = p}
<1>1. found # {} => First(found) \in found
  BY FirstIsLeast
<1>2. NULL \notin Slots
  BY JobListAssumption DEF Slots, NULL
<1>3. CASE p \notin Pids \/ found = {}
  BY <1>3 DEF getjobpid
<1>4. CASE p \in Pids /\ found # {}
  BY <1>1, <1>2, <1>4 DEF getjobpid
<1> QED BY <1>3, <1>4

\* fgpid returns 0 or the pid in an entry that is in state FG, and with an entry
\* in state FG it returns the pid of such an entry.
LEMMA FgpidFinds ==
  ASSUME NEW js
  PROVE  /\ fgpid(js) = 0 \/ \E i \in Slots : js[i].state = "FG" /\ js[i].pid = fgpid(js)
         /\ (\E i \in Slots : js[i].state = "FG")
              => \E i \in Slots : js[i].state = "FG" /\ js[i].pid = fgpid(js)
<1> DEFINE fg == {i \in Slots : js[i].state = "FG"}
<1>1. fg # {} => First(fg) \in fg
  BY FirstIsLeast
<1> QED BY <1>1 DEF fgpid

-----------------------------------------------------------------------------
(* One call of a helper keeps the list well typed.                         *)

LEMMA AddJobTyped ==
  ASSUME ListTypeOK, nextjid <= JidBound, NEW p, NEW s \in States, AddJob(p, s)
  PROVE  ListTypeOK'
<1>1. CASE p \notin Pids \/ FreeSlots(jobs) = {}
  BY <1>1 DEF AddJob, ListTypeOK, listVars
<1>2. CASE p \in Pids /\ FreeSlots(jobs) # {}
  <2> DEFINE i == First(FreeSlots(jobs))
             job == [pid |-> p, jid |-> nextjid, state |-> s]
  <2>1. i \in Slots
    BY <1>2, FirstIsLeast DEF FreeSlots
  <2>2. jobs' = [jobs EXCEPT ![i] = job]
    BY <1>2 DEF AddJob
  <2>3. nextjid' = IF nextjid + 1 > MAXJOBS THEN 1 ELSE nextjid + 1
    BY <1>2 DEF AddJob
  <2>4. job \in [pid : Pids \cup {0}, jid : 0 .. JidBound, state : States]
    BY <1>2, JobListAssumption DEF ListTypeOK
  <2>5. nextjid' \in 1 .. JidBound + 1
    BY <2>3, JobListAssumption DEF ListTypeOK
  <2> HIDE DEF i, job
  <2>6. jobs' \in [Slots -> [pid : Pids \cup {0}, jid : 0 .. JidBound, state : States]]
    BY <2>2, <2>4 DEF ListTypeOK
  <2> QED BY <2>5, <2>6 DEF ListTypeOK
<1> QED BY <1>1, <1>2

LEMMA DeleteJobTyped ==
  ASSUME ListTypeOK, NEW p, DeleteJob(p)
  PROVE  ListTypeOK'
<1> DEFINE i == getjobpid(jobs, p)
<1>1. CASE i = NULL
  BY <1>1 DEF DeleteJob, ListTypeOK, listVars
<1>2. CASE i # NULL
  <2>1. jobs' = [jobs EXCEPT ![i] = EmptyJob] /\ nextjid' = maxjid(jobs') + 1
    BY <1>2 DEF DeleteJob
  <2>2. EmptyJob \in [pid : Pids \cup {0}, jid : 0 .. JidBound, state : States]
    BY JobListAssumption DEF EmptyJob, States
  <2> HIDE DEF i
  <2>3. jobs' \in [Slots -> [pid : Pids \cup {0}, jid : 0 .. JidBound, state : States]]
    BY <2>1, <2>2 DEF ListTypeOK
  <2>4. \A k \in Slots : jobs'[k].jid \in 0 .. JidBound
    BY <2>3
  <2>5. maxjid(jobs') \in 0 .. JidBound
    BY <2>4, MaxjidIsGreatest
  <2>6. nextjid' \in 1 .. JidBound + 1
    BY <2>1, <2>5, JobListAssumption
  <2> QED BY <2>3, <2>6 DEF ListTypeOK
<1> QED BY <1>1, <1>2

LEMMA SetStateTyped ==
  ASSUME ListTypeOK, NEW i, NEW s \in States, SetState(i, s)
  PROVE  ListTypeOK'
BY DEF SetState, ListTypeOK

\* The list of every behaviour is well typed.
THEOREM ListTypeCorrect == ListSpec => []ListTypeOK
<1>1. ListInit => ListTypeOK
  BY JobListAssumption DEF ListInit, ListTypeOK, EmptyJob, States
<1>2. ListTypeOK /\ [ListNext]_listVars => ListTypeOK'
  <2> SUFFICES ASSUME ListTypeOK, [ListNext]_listVars PROVE ListTypeOK'
    OBVIOUS
  <2>1. CASE ListAdd
    BY <2>1, AddJobTyped DEF ListAdd, States
  <2>2. CASE ListDelete
    BY <2>2, DeleteJobTyped DEF ListDelete
  <2>3. CASE ListSetState
    BY <2>3, SetStateTyped DEF ListSetState, States
  <2>4. CASE UNCHANGED listVars
    BY <2>4 DEF listVars, ListTypeOK
  <2> QED BY <2>1, <2>2, <2>3, <2>4 DEF ListNext
<1> QED BY <1>1, <1>2, PTL DEF ListSpec

-----------------------------------------------------------------------------
(* Job numbers.                                                            *)

\* A free slot has no job number (clearjob resets both), so filling it loses no
\* number that maxjid would have seen.
FreeUnnumbered == \A i \in Slots : jobs[i].pid = 0 => jobs[i].jid = 0

ListInv == ListTypeOK /\ FreeUnnumbered /\ PidsUnique /\ NextJidAboveAll

\* The array after addjob filled a slot: which slot, and with which number.
LEMMA AddJobFills ==
  ASSUME ListTypeOK, FreeUnnumbered, NEW p \in Pids, NEW s \in States, AddJob(p, s),
         FreeSlots(jobs) # {}
  PROVE  \E f \in Slots :
           /\ jobs[f].pid = 0 /\ jobs[f].jid = 0
           /\ jobs'[f].pid = p /\ jobs'[f].jid = nextjid /\ jobs'[f].state = s
           /\ \A k \in Slots \ {f} : jobs'[k] = jobs[k]
           /\ nextjid' = IF nextjid + 1 > MAXJOBS THEN 1 ELSE nextjid + 1
<1> DEFINE f == First(FreeSlots(jobs))
<1>1. f \in Slots /\ jobs[f].pid = 0
  BY FirstIsLeast DEF FreeSlots
<1>2. jobs' = [jobs EXCEPT ![f] = [pid |-> p, jid |-> nextjid, state |-> s]]
  BY DEF AddJob
<1>3. nextjid' = IF nextjid + 1 > MAXJOBS THEN 1 ELSE nextjid + 1
  BY DEF AddJob
<1> HIDE DEF f
<1> QED BY <1>1, <1>2, <1>3 DEF ListTypeOK, FreeUnnumbered

\* deletejob leaves the list alone or clears one entry that held the pid.
LEMMA DeleteJobClears ==
  ASSUME ListTypeOK, NEW p, DeleteJob(p)
  PROVE  \/ /\ UNCHANGED listVars
            /\ p \in Pids => \A i \in Slots : jobs[i].pid # p
         \/ \E d \in Slots : /\ p \in Pids /\ jobs[d].pid = p
                             /\ jobs' = [jobs EXCEPT ![d] = EmptyJob]
                             /\ nextjid' = maxjid(jobs') + 1
<1> DEFINE d == getjobpid(jobs, p)
<1>1. CASE d = NULL
  BY <1>1, GetjobpidFinds DEF DeleteJob
<1>2. CASE d # NULL
  <2>1. d \in Slots /\ p \in Pids /\ jobs[d].pid = p
    BY <1>2, GetjobpidFinds
  <2> QED BY <1>2, <2>1 DEF DeleteJob
<1> QED BY <1>1, <1>2

\* Two arrays with the same numbers have the same greatest number.
LEMMA SameJidsSameMaxjid ==
  ASSUME NEW js, NEW ks,
         \A i \in Slots : js[i].jid \in 0 .. JidBound /\ ks[i].jid = js[i].jid
  PROVE  maxjid(ks) = maxjid(js)
<1>1. {ks[i].jid : i \in Slots} = {js[i].jid : i \in Slots}
  BY Zenon
<1> QED BY <1>1 DEF maxjid

LEMMA ListInvAdd ==
  ASSUME ListInv, ListAdd
  PROVE  ListInv'
<1>1. PICK p \in Pids, s \in {"FG", "BG"} :
        nextjid <= JidBound /\ (\A i \in Slots : jobs[i].pid # p) /\ AddJob(p, s)
  BY DEF ListAdd
<1>2. ListTypeOK'
  BY <1>1, AddJobTyped DEF ListInv, States
<1>3. CASE FreeSlots(jobs) = {}
  <2>1. UNCHANGED listVars
    BY <1>1, <1>3 DEF AddJob
  <2>2. maxjid(jobs') = maxjid(jobs)
    BY <2>1 DEF listVars
  <2> QED BY <1>2, <2>1, <2>2 DEF ListInv, listVars, FreeUnnumbered, PidsUnique, NextJidAboveAll
<1>4. CASE FreeSlots(jobs) # {}
  <2>1. PICK f \in Slots :
           /\ jobs[f].pid = 0 /\ jobs[f].jid = 0
           /\ jobs'[f].pid = p /\ jobs'[f].jid = nextjid
           /\ \A k \in Slots \ {f} : jobs'[k] = jobs[k]
           /\ nextjid' = IF nextjid + 1 > MAXJOBS THEN 1 ELSE nextjid + 1
    BY <1>1, <1>4, AddJobFills DEF ListInv, States
  <2>2. FreeUnnumbered'
    BY <2>1, JobListAssumption DEF ListInv, FreeUnnumbered
  <2>3. PidsUnique'
    BY <1>1, <2>1 DEF ListInv, PidsUnique
  <2>4. /\ maxjid(jobs) \in 0 .. JidBound
        /\ \A i \in Slots : jobs[i].jid <= maxjid(jobs)
        /\ maxjid(jobs) = 0 \/ \E i \in Slots : jobs[i].jid = maxjid(jobs)
    BY MaxjidIsGreatest DEF ListInv, ListTypeOK
  <2>5. /\ maxjid(jobs') \in 0 .. JidBound
        /\ \A i \in Slots : jobs'[i].jid <= maxjid(jobs')
        /\ maxjid(jobs') = 0 \/ \E i \in Slots : jobs'[i].jid = maxjid(jobs')
    BY <1>2, MaxjidIsGreatest DEF ListTypeOK
  <2>6. nextjid \in Nat /\ MAXJOBS \in Nat
    BY JobListAssumption DEF ListInv, ListTypeOK
  <2>7. maxjid(jobs) <= maxjid(jobs') /\ nextjid <= maxjid(jobs')
    BY <2>1, <2>4, <2>5
  <2>8. maxjid(jobs') \in {maxjid(jobs), nextjid}
    BY <2>1, <2>4, <2>5, <2>7
  <2>9. NextJidAboveAll'
    BY <2>1, <2>4, <2>5, <2>6, <2>7, <2>8 DEF ListInv, NextJidAboveAll
  <2> QED BY <1>2, <2>2, <2>3, <2>9 DEF ListInv
<1> QED BY <1>3, <1>4

LEMMA ListInvDelete ==
  ASSUME ListInv, ListDelete
  PROVE  ListInv'
<1>1. PICK p \in Pids : DeleteJob(p)
  BY DEF ListDelete
<1>2. ListTypeOK'
  BY <1>1, DeleteJobTyped DEF ListInv
<1>3. CASE UNCHANGED listVars
  <2>1. maxjid(jobs') = maxjid(jobs)
    BY <1>3 DEF listVars
  <2> QED BY <1>2, <1>3, <2>1 DEF ListInv, listVars, FreeUnnumbered, PidsUnique, NextJidAboveAll
<1>4. ASSUME NEW d \in Slots, jobs' = [jobs EXCEPT ![d] = EmptyJob],
             nextjid' = maxjid(jobs') + 1
      PROVE  ListInv'
  <2>1. jobs'[d] = EmptyJob /\ \A k \in Slots \ {d} : jobs'[k] = jobs[k]
    BY <1>4 DEF ListInv, ListTypeOK
  <2>2. FreeUnnumbered'
    BY <2>1 DEF ListInv, FreeUnnumbered, EmptyJob
  <2>3. PidsUnique'
    BY <2>1 DEF ListInv, PidsUnique, EmptyJob
  <2>4. NextJidAboveAll'
    BY <1>4 DEF NextJidAboveAll
  <2> QED BY <1>2, <2>2, <2>3, <2>4 DEF ListInv
<1> QED BY <1>1, <1>3, <1>4, DeleteJobClears DEF ListInv

LEMMA ListInvSetState ==
  ASSUME ListInv, ListSetState
  PROVE  ListInv'
<1>1. PICK i \in Slots, s \in {"FG", "BG", "ST"} : SetState(i, s)
  BY DEF ListSetState
<1>2. ListTypeOK'
  BY <1>1, SetStateTyped DEF ListInv, States
<1>3. /\ \A k \in Slots : jobs'[k].pid = jobs[k].pid /\ jobs'[k].jid = jobs[k].jid
      /\ nextjid' = nextjid
  BY <1>1 DEF SetState, ListInv, ListTypeOK
<1>4. maxjid(jobs') = maxjid(jobs)
  BY <1>3, SameJidsSameMaxjid DEF ListInv, ListTypeOK
<1> QED BY <1>2, <1>3, <1>4 DEF ListInv, FreeUnnumbered, PidsUnique, NextJidAboveAll

LEMMA ListInvHolds == ListSpec => []ListInv
<1>1. ListInit => ListInv
  <2> SUFFICES ASSUME ListInit PROVE ListInv
    OBVIOUS
  <2>1. ListTypeOK
    BY JobListAssumption DEF ListInit, ListTypeOK, EmptyJob, States
  <2>2. \A i \in Slots : jobs[i].jid = 0 /\ jobs[i].pid = 0
    BY DEF ListInit, EmptyJob
  <2>3. maxjid(jobs) = 0
    BY <2>2, JobListAssumption, MaxjidIsGreatest
  <2>4. FreeUnnumbered /\ PidsUnique /\ NextJidAboveAll
    BY <2>2, <2>3 DEF ListInit, FreeUnnumbered, PidsUnique, NextJidAboveAll
  <2> QED BY <2>1, <2>4 DEF ListInv
<1>2. ListInv /\ [ListNext]_listVars => ListInv'
  <2> SUFFICES ASSUME ListInv, [ListNext]_listVars PROVE ListInv'
    OBVIOUS
  <2>1. CASE UNCHANGED listVars
    <3>1. maxjid(jobs') = maxjid(jobs)
      BY <2>1 DEF listVars
    <3> QED BY <2>1, <3>1
        DEF ListInv, ListTypeOK, listVars, FreeUnnumbered, PidsUnique, NextJidAboveAll
  <2> QED BY <2>1, ListInvAdd, ListInvDelete, ListInvSetState DEF ListNext
<1> QED BY <1>1, <1>2, PTL DEF ListSpec

\* nextjid stays above every number in use until a number reaches MAXJOBS.
THEOREM NextJidAboveAllHolds == ListSpec => []NextJidAboveAll
<1>1. ListInv => NextJidAboveAll
  BY DEF ListInv
<1> QED BY <1>1, ListInvHolds, PTL

\* No process has two entries.
THEOREM PidsUniqueHolds == ListSpec => []PidsUnique
<1>1. ListInv => PidsUnique
  BY DEF ListInv
<1> QED BY <1>1, ListInvHolds, PTL

\* A job added before any number has reached MAXJOBS gets a number of its own.
THEOREM JidFreshHolds == ListSpec => JidFresh
<1> DEFINE Fresh == \A i \in Slots :
        (jobs[i].pid = 0 /\ jobs'[i].pid # 0 /\ maxjid(jobs) < MAXJOBS)
           => \A k \in Slots : jobs[k].jid # jobs'[i].jid
<1>1. ListInv /\ [ListNext]_listVars => [Fresh]_listVars
  <2> SUFFICES ASSUME ListInv, ListNext, NEW i \in Slots,
                      jobs[i].pid = 0, jobs'[i].pid # 0, maxjid(jobs) < MAXJOBS,
                      NEW k \in Slots
               PROVE  jobs[k].jid # jobs'[i].jid
    OBVIOUS
  <2>1. CASE ListAdd
    <3>1. PICK p \in Pids, s \in {"FG", "BG"} : AddJob(p, s)
      BY <2>1 DEF ListAdd
    <3>2. FreeSlots(jobs) # {}
      BY DEF FreeSlots
    <3>3. PICK f \in Slots : /\ jobs'[f].jid = nextjid
                             /\ \A j \in Slots \ {f} : jobs'[j] = jobs[j]
      BY <3>1, <3>2, AddJobFills DEF ListInv, States
    <3>4. jobs[k].jid <= maxjid(jobs) /\ maxjid(jobs) \in Nat
      BY MaxjidIsGreatest, JobListAssumption DEF ListInv, ListTypeOK
    <3>5. nextjid = maxjid(jobs) + 1 /\ jobs[k].jid \in Nat
      BY DEF ListInv, ListTypeOK, NextJidAboveAll
    <3>6. jobs'[i].jid = nextjid
      BY <3>3
    <3> QED BY <3>4, <3>5, <3>6
  <2>2. CASE ListDelete
    BY <2>2, DeleteJobClears, JobListAssumption DEF ListDelete, ListInv, ListTypeOK, listVars, EmptyJob
  <2>3. CASE ListSetState
    BY <2>3 DEF ListSetState, SetState, ListInv, ListTypeOK
  <2> QED BY <2>1, <2>2, <2>3 DEF ListNext
<1>2. ListSpec => [][Fresh]_listVars
  BY <1>1, ListInvHolds, PTL DEF ListSpec
<1> QED BY <1>2 DEF JidFresh

-----------------------------------------------------------------------------
(* The shell.                                                              *)

\* A handler that is not active is not in the middle of anything.
HandlersIdle == \A h \in Handlers : level[h] = 0 <=> hpc[h] = "idle"

\* Between the two sigprocmask calls SIGCHLD is blocked and its handler is not
\* active, so the numbering cannot change between the command and addjob.
MaskHeld ==
  /\ mpc \in {"fork", "addjob", "unblock"} => masked /\ level["CHLD"] = 0
  /\ mpc \in {"fork", "addjob"} => nextjid <= JidBound

\* The pid that eval is about to enter is that of a child not yet reaped and is
\* not in the list.
ChildIsNew ==
  mpc = "addjob" /\ mpid \in Pids =>
    proc[mpid] # "none" /\ \A i \in Slots : jobs[i].pid # mpid

\* The pid the handler is about to delete has been reaped.
DeletedIsReaped ==
  hpc["CHLD"] = "delete" => hpid["CHLD"] \in Pids /\ proc[hpid["CHLD"]] = "none"

IInv ==
  /\ TypeOK /\ HandlersIdle /\ MaskHeld /\ ChildIsNew /\ DeletedIsReaped
  /\ EntriesLive /\ PidsUnique

-----------------------------------------------------------------------------
(* What a step of the handlers' bookkeeping does.                          *)

LEMMA EnterLevels ==
  ASSUME level \in [Handlers -> Nat], NEW h \in Handlers, NEW pc, NEW p, Enter(h, pc, p)
  PROVE  level' \in [Handlers -> Nat] /\ level'[h] # 0
<1> DEFINE active == {g \in Handlers : level[g] # 0}
<1>1. IsFiniteSet(Handlers)
  <2>1. IsFiniteSet({})
    BY FS_EmptySet
  <2>2. IsFiniteSet({} \cup {"CHLD"})
    BY <2>1, FS_AddElement
  <2>3. IsFiniteSet(({} \cup {"CHLD"}) \cup {"INT"})
    BY <2>2, FS_AddElement
  <2>4. IsFiniteSet((({} \cup {"CHLD"}) \cup {"INT"}) \cup {"TSTP"})
    BY <2>3, FS_AddElement
  <2>5. (({} \cup {"CHLD"}) \cup {"INT"}) \cup {"TSTP"} = Handlers
    BY DEF Handlers
  <2> QED BY <2>4, <2>5
<1>2. IsFiniteSet(active)
  BY <1>1, FS_Subset
<1>3. Cardinality(active) \in Nat
  BY <1>2, FS_CardinalityType
<1> HIDE DEF active
<1>4. level' = [level EXCEPT ![h] = 1 + Cardinality(active)]
  BY DEF Enter, active
<1> QED BY <1>3, <1>4

\* While the main flow runs no handler is active.
LEMMA MainRunsAlone ==
  ASSUME IInv, MainRuns
  PROVE  level["CHLD"] = 0 /\ hpc["CHLD"] = "idle"
BY DEF IInv, MainRuns, HandlersIdle, Handlers

-----------------------------------------------------------------------------
(* IInv holds at the start and is preserved by every step.                 *)

LEMMA InitEstablishesIInv == Init => IInv
<1> SUFFICES ASSUME Init PROVE IInv
  OBVIOUS
<1>1. \A i \in Slots : jobs[i].pid = 0
  BY DEF Init, ListInit, EmptyJob
<1>2. ListTypeOK
  BY JobListAssumption DEF Init, ListInit, ListTypeOK, EmptyJob, States
<1>3. TypeOK
  BY <1>2, JobListAssumption DEF Init, TypeOK, ProcStates, Handlers, NULL, FORK_FAILED, Mishaps
<1> QED BY <1>1, <1>3 DEF Init, IInv, HandlersIdle, MaskHeld, ChildIsNew, DeletedIsReaped,
     EntriesLive, PidsUnique, Handlers

LEMMA EvalBlockStep ==
  ASSUME IInv, NEW s \in {"FG", "BG"}, EvalBlock(s)
  PROVE  IInv'
<1>1. TypeOK'
  BY DEF IInv, TypeOK, ListTypeOK, EvalBlock, listVars, handlerVars
<1>2. level["CHLD"] = 0
  BY MainRunsAlone DEF EvalBlock
<1> QED BY <1>1, <1>2 DEF IInv, EvalBlock, listVars, handlerVars, HandlersIdle, MaskHeld,
     ChildIsNew, DeletedIsReaped, EntriesLive, PidsUnique

LEMMA EvalForkStep ==
  ASSUME IInv, EvalFork
  PROVE  IInv'
<1>1. level["CHLD"] = 0 /\ hpc["CHLD"] = "idle"
  BY MainRunsAlone DEF EvalFork
<1>2. TypeOK'
  BY DEF IInv, TypeOK, ListTypeOK, EvalFork, listVars, handlerVars, ProcStates
<1>3. HandlersIdle' /\ MaskHeld' /\ DeletedIsReaped' /\ PidsUnique'
  BY <1>1 DEF IInv, EvalFork, listVars, handlerVars, HandlersIdle, MaskHeld, DeletedIsReaped,
     PidsUnique
<1>4. EntriesLive'
  BY <1>1 DEF IInv, TypeOK, ListTypeOK, EvalFork, listVars, handlerVars, EntriesLive
<1>5. ChildIsNew'
  BY <1>1, JobListAssumption
     DEF IInv, TypeOK, ListTypeOK, EvalFork, listVars, handlerVars, EntriesLive, ChildIsNew, FORK_FAILED
<1> QED BY <1>2, <1>3, <1>4, <1>5 DEF IInv

LEMMA EvalAddJobStep ==
  ASSUME IInv, EvalAddJob
  PROVE  IInv'
<1>1. level["CHLD"] = 0 /\ hpc["CHLD"] = "idle" /\ masked /\ nextjid <= JidBound
  BY MainRunsAlone DEF EvalAddJob, IInv, MaskHeld
<1>2. ListTypeOK'
  BY <1>1, AddJobTyped DEF EvalAddJob, IInv, TypeOK, States
<1>3. TypeOK'
  BY <1>2 DEF IInv, TypeOK, EvalAddJob, kernelVars, handlerVars, MainGoto, Mishaps
<1>4. HandlersIdle' /\ MaskHeld' /\ ChildIsNew' /\ DeletedIsReaped'
  BY <1>1 DEF IInv, EvalAddJob, kernelVars, handlerVars, MainGoto, HandlersIdle, MaskHeld,
     ChildIsNew, DeletedIsReaped
<1>5. CASE mpid \notin Pids \/ FreeSlots(jobs) = {}
  BY <1>3, <1>4, <1>5 DEF IInv, EvalAddJob, AddJob, listVars, kernelVars, handlerVars, EntriesLive, PidsUnique
<1>6. CASE mpid \in Pids /\ FreeSlots(jobs) # {}
  <2> DEFINE f == First(FreeSlots(jobs))
  <2>1. f \in Slots
    BY <1>6, FirstIsLeast DEF FreeSlots
  <2>2. jobs' = [jobs EXCEPT ![f] = [pid |-> mpid, jid |-> nextjid, state |-> mstate]]
    BY <1>6 DEF EvalAddJob, AddJob
  <2>3. proc[mpid] # "none" /\ \A i \in Slots : jobs[i].pid # mpid
    BY <1>6 DEF IInv, ChildIsNew, EvalAddJob
  <2> HIDE DEF f
  <2>4. jobs'[f].pid = mpid /\ \A i \in Slots \ {f} : jobs'[i] = jobs[i]
    BY <2>1, <2>2 DEF IInv, TypeOK, ListTypeOK
  <2>5. EntriesLive' /\ PidsUnique'
    BY <2>3, <2>4 DEF IInv, EvalAddJob, kernelVars, handlerVars, EntriesLive, PidsUnique
  <2> QED BY <1>3, <1>4, <2>5 DEF IInv
<1> QED BY <1>5, <1>6

LEMMA EvalUnblockStep ==
  ASSUME IInv, EvalUnblock
  PROVE  IInv'
<1>1. TypeOK'
  BY DEF IInv, TypeOK, ListTypeOK, EvalUnblock, listVars, handlerVars, ToPrompt, MainGoto
<1> QED BY <1>1 DEF IInv, EvalUnblock, listVars, handlerVars, ToPrompt, MainGoto, HandlersIdle,
     MaskHeld, ChildIsNew, DeletedIsReaped, EntriesLive, PidsUnique

LEMMA WaitFgStep ==
  ASSUME IInv, WaitFg
  PROVE  IInv'
<1>1. TypeOK'
  BY DEF IInv, TypeOK, ListTypeOK, WaitFg, listVars, kernelVars, handlerVars, ToPrompt
<1> QED BY <1>1 DEF IInv, WaitFg, listVars, kernelVars, handlerVars, ToPrompt, HandlersIdle,
     MaskHeld, ChildIsNew, DeletedIsReaped, EntriesLive, PidsUnique

LEMMA BgFgLookupStep ==
  ASSUME IInv, NEW s \in {"FG", "BG"}, BgFgLookup(s)
  PROVE  IInv'
<1>1. \A p : getjobpid(jobs, p) \in Slots \cup {NULL}
  BY GetjobpidFinds
<1>2. TypeOK'
  BY <1>1 DEF IInv, TypeOK, ListTypeOK, BgFgLookup, listVars, kernelVars, handlerVars
<1> QED BY <1>2 DEF IInv, BgFgLookup, listVars, kernelVars, handlerVars, HandlersIdle,
     MaskHeld, ChildIsNew, DeletedIsReaped, EntriesLive, PidsUnique

\* SIGCONT and the steps of a child never free its pid.
LEMMA ContinueKeeps ==
  ASSUME TypeOK, NEW p \in Pids \cup {0, FORK_FAILED}, Continue(p)
  PROVE  /\ proc' \in [Pids -> ProcStates] /\ pend' \in [Pids -> SUBSET {"INT", "TSTP"}]
         /\ sigs' \in SUBSET Handlers
         /\ \A q \in Pids : proc'[q] = "none" <=> proc[q] = "none"
<1>1. pend' \in [Pids -> SUBSET {"INT", "TSTP"}]
  BY DEF TypeOK, Continue
<1>2. sigs' \in SUBSET Handlers
  BY DEF TypeOK, Continue, Handlers
<1>3. proc' \in [Pids -> ProcStates]
  BY DEF TypeOK, Continue, ProcStates
<1>4. \A q \in Pids : proc'[q] = "none" <=> proc[q] = "none"
  BY DEF TypeOK, Continue
<1> QED BY <1>1, <1>2, <1>3, <1>4

LEMMA BgFgContStep ==
  ASSUME IInv, BgFgCont
  PROVE  IInv'
<1>1. /\ proc' \in [Pids -> ProcStates] /\ pend' \in [Pids -> SUBSET {"INT", "TSTP"}]
      /\ sigs' \in SUBSET Handlers
      /\ \A q \in Pids : proc'[q] = "none" <=> proc[q] = "none"
  BY ContinueKeeps DEF IInv, TypeOK, BgFgCont
<1>2. TypeOK'
  BY <1>1 DEF IInv, TypeOK, ListTypeOK, BgFgCont, listVars, handlerVars, MainGoto
<1>3. EntriesLive' /\ DeletedIsReaped'
  BY <1>1 DEF IInv, TypeOK, ListTypeOK, BgFgCont, listVars, handlerVars, MainGoto, EntriesLive, DeletedIsReaped
<1> QED BY <1>2, <1>3 DEF IInv, BgFgCont, listVars, handlerVars, MainGoto, HandlersIdle,
     MaskHeld, ChildIsNew, PidsUnique

\* A write of a state leaves the pids of the list as they are.
LEMMA SetStateKeepsPids ==
  ASSUME ListTypeOK, NEW i, NEW s, SetState(i, s)
  PROVE  /\ nextjid' = nextjid
         /\ \A k \in Slots : jobs'[k].pid = jobs[k].pid /\ jobs'[k].jid = jobs[k].jid
BY DEF ListTypeOK, SetState

LEMMA BgFgSetStateStep ==
  ASSUME IInv, BgFgSetState
  PROVE  IInv'
<1>1. ListTypeOK'
  BY SetStateTyped DEF IInv, TypeOK, BgFgSetState, States
<1>2. hist' \in SUBSET Mishaps
  BY DEF IInv, TypeOK, BgFgSetState, Mishaps
<1>3. TypeOK'
  BY <1>1, <1>2 DEF IInv, TypeOK, BgFgSetState, kernelVars, handlerVars, ToPrompt, MainGoto
<1>4. \A k \in Slots : jobs'[k].pid = jobs[k].pid
  BY SetStateKeepsPids DEF IInv, TypeOK, BgFgSetState
<1> QED BY <1>3, <1>4 DEF IInv, BgFgSetState, kernelVars, handlerVars, ToPrompt, MainGoto,
     HandlersIdle, MaskHeld, ChildIsNew, DeletedIsReaped, EntriesLive, PidsUnique

LEMMA QuitStep ==
  ASSUME IInv, Quit \/ Sigquit
  PROVE  IInv'
<1>1. TypeOK'
  BY DEF IInv, TypeOK, ListTypeOK, Quit, Sigquit, Exit, listVars, kernelVars, handlerVars, mainVars
<1> QED BY <1>1 DEF IInv, Quit, Sigquit, Exit, listVars, kernelVars, handlerVars, mainVars, HandlersIdle,
     MaskHeld, ChildIsNew, DeletedIsReaped, EntriesLive, PidsUnique

LEMMA ChldEnterStep ==
  ASSUME IInv, ChldEnter
  PROVE  IInv'
<1>1. level' \in [Handlers -> Nat] /\ level'["CHLD"] # 0
  BY EnterLevels DEF IInv, TypeOK, ChldEnter, Handlers
<1>2. TypeOK'
  BY <1>1 DEF IInv, TypeOK, ListTypeOK, ChldEnter, Enter, listVars, mainVars
<1>3. ~masked
  BY DEF ChldEnter, Deliverable
<1>4. HandlersIdle'
  BY <1>1 DEF IInv, TypeOK, ChldEnter, Enter, HandlersIdle, Handlers
<1>5. hpc["CHLD"] = "idle" /\ hpc'["CHLD"] = "waitpid"
  BY DEF IInv, TypeOK, HandlersIdle, ChldEnter, Deliverable, Enter, Handlers
<1>6. MaskHeld'
  BY <1>3 DEF IInv, MaskHeld, ChldEnter, mainVars, listVars
<1> QED BY <1>2, <1>4, <1>5, <1>6 DEF IInv, ChldEnter, listVars, mainVars, ChildIsNew,
     DeletedIsReaped, EntriesLive, PidsUnique

LEMMA ChldWaitpidStep ==
  ASSUME IInv, ChldWaitpid
  PROVE  IInv'
<1>1. level["CHLD"] # 0 /\ hpc["CHLD"] = "waitpid"
  BY DEF ChldWaitpid, HandlerRuns
<1>2. /\ UNCHANGED <<listVars, pend, sigs, masked, mainVars, status, hist>>
  BY DEF ChldWaitpid
<1>3. mpc \notin {"fork", "addjob", "unblock"}
  BY <1>1 DEF IInv, MaskHeld
<1>4. ASSUME NEW p \in Pids, proc[p] = "zombie", proc' = [proc EXCEPT ![p] = "none"],
             Goto("CHLD", "delete", p)
      PROVE  IInv'
  <2>1. TypeOK'
    BY <1>2, <1>4 DEF IInv, TypeOK, ListTypeOK, listVars, mainVars, Goto, ProcStates, Handlers
  <2>2. hpc'["CHLD"] = "delete" /\ hpid'["CHLD"] = p
    BY <1>4 DEF IInv, TypeOK, Goto, Handlers
  <2>3. EntriesLive' /\ DeletedIsReaped'
    BY <1>1, <1>2, <1>4, <2>2 DEF IInv, TypeOK, ListTypeOK, listVars, EntriesLive, DeletedIsReaped
  <2>4. HandlersIdle'
    BY <1>1, <1>4 DEF IInv, TypeOK, Goto, HandlersIdle, Handlers
  <2> QED BY <1>2, <1>3, <2>1, <2>3, <2>4 DEF IInv, listVars, mainVars, MaskHeld, ChildIsNew, PidsUnique
<1>5. ASSUME NEW p \in Pids, proc[p] = "stopping", proc' = [proc EXCEPT ![p] = "stopped"],
             Goto("CHLD", "stop", p)
      PROVE  IInv'
  <2>1. TypeOK'
    BY <1>2, <1>5 DEF IInv, TypeOK, ListTypeOK, listVars, mainVars, Goto, ProcStates, Handlers
  <2>2. hpc'["CHLD"] = "stop"
    BY <1>5 DEF IInv, TypeOK, Goto, Handlers
  <2>3. EntriesLive' /\ DeletedIsReaped'
    BY <1>1, <1>2, <1>5, <2>2 DEF IInv, TypeOK, ListTypeOK, listVars, EntriesLive, DeletedIsReaped
  <2>4. HandlersIdle'
    BY <1>1, <1>5 DEF IInv, TypeOK, Goto, HandlersIdle, Handlers
  <2> QED BY <1>2, <1>3, <2>1, <2>3, <2>4 DEF IInv, listVars, mainVars, MaskHeld, ChildIsNew, PidsUnique
<1>6. ASSUME Return("CHLD"), UNCHANGED proc
      PROVE  IInv'
  <2>1. TypeOK'
    BY <1>2, <1>6 DEF IInv, TypeOK, ListTypeOK, listVars, mainVars, Return, Handlers
  <2>2. hpc'["CHLD"] = "idle"
    BY <1>6 DEF IInv, TypeOK, Return, Handlers
  <2>3. EntriesLive' /\ DeletedIsReaped'
    BY <1>1, <1>2, <1>6, <2>2 DEF IInv, listVars, EntriesLive, DeletedIsReaped
  <2>4. HandlersIdle'
    BY <1>1, <1>6 DEF IInv, TypeOK, Return, HandlersIdle, Handlers
  <2> QED BY <1>2, <1>3, <1>6, <2>1, <2>3, <2>4 DEF IInv, listVars, mainVars, MaskHeld, ChildIsNew, PidsUnique
<1> QED BY <1>4, <1>5, <1>6 DEF ChldWaitpid

LEMMA ChldDeleteStep ==
  ASSUME IInv, ChldDelete
  PROVE  IInv'
<1> DEFINE p == hpid["CHLD"]
<1>1. level["CHLD"] # 0 /\ hpc["CHLD"] = "delete" /\ DeleteJob(p)
  BY DEF ChldDelete, HandlerRuns
<1>2. p \in Pids /\ proc[p] = "none"
  BY <1>1 DEF IInv, DeletedIsReaped
<1>3. ListTypeOK'
  BY <1>1, DeleteJobTyped DEF IInv, TypeOK
<1>4. UNCHANGED <<kernelVars, mainVars, status, hist>> /\ Goto("CHLD", "waitpid", 0)
  BY DEF ChldDelete
<1>5. TypeOK'
  BY <1>3, <1>4 DEF IInv, TypeOK, kernelVars, mainVars, Goto, Handlers
<1>6. hpc'["CHLD"] = "waitpid" /\ HandlersIdle'
  BY <1>1, <1>4 DEF IInv, TypeOK, Goto, HandlersIdle, Handlers
<1>7. mpc \notin {"fork", "addjob", "unblock"}
  BY <1>1 DEF IInv, MaskHeld
<1>8. MaskHeld' /\ ChildIsNew' /\ DeletedIsReaped'
  BY <1>4, <1>6, <1>7 DEF mainVars, MaskHeld, ChildIsNew, DeletedIsReaped
<1>9. EntriesLive' /\ PidsUnique'
  <2>1. CASE UNCHANGED listVars /\ \A i \in Slots : jobs[i].pid # p
    BY <1>4, <2>1 DEF IInv, listVars, kernelVars, EntriesLive, PidsUnique
  <2>2. ASSUME NEW d \in Slots, jobs[d].pid = p, jobs' = [jobs EXCEPT ![d] = EmptyJob]
        PROVE  EntriesLive' /\ PidsUnique'
    <3>1. jobs'[d].pid = 0 /\ \A i \in Slots \ {d} : jobs'[i] = jobs[i]
      BY <2>2 DEF IInv, TypeOK, ListTypeOK, EmptyJob
    <3>2. \A i \in Slots \ {d} : jobs[i].pid # p
      BY <1>2, <2>2, JobListAssumption DEF IInv, PidsUnique
    <3>3. EntriesLive'
      BY <1>4, <3>1, <3>2 DEF IInv, kernelVars, EntriesLive
    <3>4. PidsUnique'
      BY <3>1 DEF IInv, PidsUnique
    <3> QED BY <3>3, <3>4
  <2> QED BY <1>1, <1>2, <2>1, <2>2, DeleteJobClears DEF IInv, TypeOK
<1> QED BY <1>5, <1>6, <1>8, <1>9 DEF IInv

LEMMA ChldStopStep ==
  ASSUME IInv, ChldStop
  PROVE  IInv'
<1>1. level["CHLD"] # 0 /\ hpc["CHLD"] = "stop"
  BY DEF ChldStop, HandlerRuns
<1>2. UNCHANGED listVars \/ \E i \in Slots \cup {NULL} : SetState(i, "ST")
  BY GetjobpidFinds DEF ChldStop
<1>3. ListTypeOK' /\ \A k \in Slots : jobs'[k].pid = jobs[k].pid
  BY <1>2, SetStateTyped, SetStateKeepsPids DEF IInv, TypeOK, ListTypeOK, listVars, States
<1>4. UNCHANGED <<kernelVars, mainVars, status, hist>> /\ Goto("CHLD", "waitpid", 0)
  BY DEF ChldStop
<1>5. TypeOK'
  BY <1>3, <1>4 DEF IInv, TypeOK, kernelVars, mainVars, Goto, Handlers
<1>6. hpc'["CHLD"] = "waitpid" /\ HandlersIdle'
  BY <1>1, <1>4 DEF IInv, TypeOK, Goto, HandlersIdle, Handlers
<1>7. mpc \notin {"fork", "addjob", "unblock"}
  BY <1>1 DEF IInv, MaskHeld
<1>8. MaskHeld' /\ ChildIsNew' /\ DeletedIsReaped'
  BY <1>4, <1>6, <1>7 DEF mainVars, MaskHeld, ChildIsNew, DeletedIsReaped
<1>9. EntriesLive' /\ PidsUnique'
  BY <1>1, <1>3, <1>4 DEF IInv, kernelVars, EntriesLive, PidsUnique
<1> QED BY <1>5, <1>6, <1>8, <1>9 DEF IInv

\* A step that leaves the list, the main flow and the SIGCHLD handler alone and
\* frees no pid keeps everything but the types to check.
LEMMA ElsewhereStep ==
  ASSUME IInv, TypeOK', HandlersIdle',
         UNCHANGED <<listVars, masked, mainVars>>,
         level'["CHLD"] = level["CHLD"], hpc'["CHLD"] = hpc["CHLD"],
         hpid'["CHLD"] = hpid["CHLD"],
         \A q \in Pids : proc'[q] = "none" <=> proc[q] = "none"
  PROVE  IInv'
<1>1. MaskHeld' /\ PidsUnique'
  BY DEF IInv, listVars, mainVars, MaskHeld, PidsUnique
<1>2. ChildIsNew' /\ DeletedIsReaped'
  BY DEF IInv, listVars, mainVars, ChildIsNew, DeletedIsReaped
<1>3. EntriesLive'
  BY DEF IInv, TypeOK, ListTypeOK, listVars, EntriesLive
<1> QED BY <1>1, <1>2, <1>3 DEF IInv

LEMMA FgpidTyped ==
  ASSUME ListTypeOK
  PROVE  fgpid(jobs) \in Pids \cup {0}
BY FgpidFinds DEF ListTypeOK

LEMMA EnterWithFgpidStep ==
  ASSUME IInv, NEW h \in {"INT", "TSTP"}, NEW pc \in {"check", "kill"}, EnterWithFgpid(h, pc)
  PROVE  IInv'
<1>1. UNCHANGED <<listVars, proc, pend, masked, mainVars, status, hist>>
  BY DEF EnterWithFgpid
<1>2. sigs' \in SUBSET Handlers
  BY DEF IInv, TypeOK, EnterWithFgpid
<1>3. CASE UNCHANGED handlerVars
  <2>1. TypeOK'
    BY <1>1, <1>2, <1>3 DEF IInv, TypeOK, ListTypeOK, listVars, mainVars, handlerVars
  <2>2. HandlersIdle'
    BY <1>3 DEF IInv, HandlersIdle, handlerVars
  <2> QED BY <1>1, <1>3, <2>1, <2>2, ElsewhereStep DEF handlerVars
<1>4. CASE Enter(h, pc, fgpid(jobs))
  <2>1. level' \in [Handlers -> Nat] /\ level'[h] # 0
    BY <1>4, EnterLevels DEF IInv, TypeOK, Handlers
  <2>2. fgpid(jobs) \in Pids \cup {0}
    BY FgpidTyped DEF IInv, TypeOK
  <2>3. hpc' = [hpc EXCEPT ![h] = pc] /\ hpid' = [hpid EXCEPT ![h] = fgpid(jobs)]
    BY <1>4 DEF Enter
  <2>4. TypeOK'
    <3>1. /\ hpc' \in [Handlers -> {"idle", "waitpid", "delete", "stop", "check", "kill"}]
          /\ hpid' \in [Handlers -> Pids \cup {0}]
      BY <2>2, <2>3 DEF IInv, TypeOK
    <3> QED BY <1>1, <1>2, <2>1, <3>1 DEF IInv, TypeOK, ListTypeOK, listVars, mainVars
  <2>5. \A g \in Handlers \ {h} : level'[g] = level[g] /\ hpc'[g] = hpc[g] /\ hpid'[g] = hpid[g]
    BY <1>4 DEF IInv, TypeOK, Enter
  <2>6. hpc'[h] = pc
    BY <1>4 DEF IInv, TypeOK, Enter, Handlers
  <2>7. HandlersIdle'
    BY <2>1, <2>5, <2>6 DEF IInv, HandlersIdle
  <2> QED BY <1>1, <2>4, <2>5, <2>7, ElsewhereStep DEF Handlers
<1> QED BY <1>3, <1>4 DEF EnterWithFgpid

LEMMA TstpCheckStep ==
  ASSUME IInv, TstpCheck
  PROVE  IInv'
<1>1. UNCHANGED <<listVars, kernelVars, mainVars, hist>> /\ level["TSTP"] # 0 /\ hpc["TSTP"] = "check"
  BY DEF TstpCheck, HandlerRuns
<1>2. \/ status' = "segv" /\ UNCHANGED handlerVars
      \/ Return("TSTP") /\ UNCHANGED status
      \/ Goto("TSTP", "kill", hpid["TSTP"]) /\ UNCHANGED status
  BY DEF TstpCheck
<1>3. TypeOK'
  BY <1>1, <1>2 DEF IInv, TypeOK, ListTypeOK, listVars, kernelVars, mainVars, handlerVars, Return,
     Goto, Handlers
<1>4. HandlersIdle'
  BY <1>1, <1>2 DEF IInv, TypeOK, HandlersIdle, handlerVars, Return, Goto, Handlers
<1>5. level'["CHLD"] = level["CHLD"] /\ hpc'["CHLD"] = hpc["CHLD"] /\ hpid'["CHLD"] = hpid["CHLD"]
  BY <1>2 DEF IInv, TypeOK, handlerVars, Return, Goto, Handlers
<1> QED BY <1>1, <1>3, <1>4, <1>5, ElsewhereStep DEF kernelVars

LEMMA ForwardKillStep ==
  ASSUME IInv, NEW h \in {"INT", "TSTP"}, ForwardKill(h)
  PROVE  IInv'
<1>1. /\ UNCHANGED <<listVars, proc, sigs, masked, mainVars, status, hist>>
      /\ Return(h) /\ KillGroup(hpid[h], h)
  BY DEF ForwardKill
<1>2. pend' \in [Pids -> SUBSET {"INT", "TSTP"}]
  BY <1>1 DEF IInv, TypeOK, KillGroup
<1>3. TypeOK'
  BY <1>1, <1>2 DEF IInv, TypeOK, ListTypeOK, listVars, mainVars, Return, Handlers
<1>4. HandlersIdle'
  BY <1>1 DEF IInv, TypeOK, HandlersIdle, Return, Handlers
<1>5. level'["CHLD"] = level["CHLD"] /\ hpc'["CHLD"] = hpc["CHLD"] /\ hpid'["CHLD"] = hpid["CHLD"]
  BY <1>1 DEF IInv, TypeOK, Return, Handlers
<1> QED BY <1>1, <1>3, <1>4, <1>5, ElsewhereStep

LEMMA KeyboardStep ==
  ASSUME IInv, NEW h \in {"INT", "TSTP"}, Keyboard(h)
  PROVE  IInv'
<1>1. TypeOK'
  BY DEF IInv, TypeOK, ListTypeOK, Keyboard, listVars, handlerVars, mainVars, Handlers
<1>2. HandlersIdle'
  BY DEF IInv, HandlersIdle, Keyboard, handlerVars
<1> QED BY <1>1, <1>2, ElsewhereStep DEF Keyboard, handlerVars

\* What all the steps of a child have in common.
LEMMA ChildKeeps ==
  ASSUME TypeOK, NEW p \in Pids, Child(p)
  PROVE  /\ UNCHANGED <<listVars, masked, handlerVars, mainVars, status, hist>>
         /\ proc' \in [Pids -> ProcStates] /\ pend' \in [Pids -> SUBSET {"INT", "TSTP"}]
         /\ sigs' \in SUBSET Handlers
         /\ \A q \in Pids : proc'[q] = "none" <=> proc[q] = "none"
<1>1. World(p)
  BY DEF Child, ChildSetpgid, ChildExecve, ChildExit, ChildKilled, ChildStopped, ChildCatches,
     ChildStopsItself, ChildContinued
<1>2. CASE ChildSetpgid(p) \/ ChildExecve(p)
  BY <1>1, <1>2 DEF World, ChildSetpgid, ChildExecve, TypeOK, ProcStates
<1>3. CASE ChildExit(p) \/ ChildKilled(p)
  BY <1>1, <1>3 DEF World, ChildExit, ChildKilled, ChildChanges, TypeOK, ProcStates, Live, Handlers
<1>4. CASE ChildStopped(p) \/ ChildStopsItself(p)
  <2>1. /\ proc[p] = "running" /\ proc' = [proc EXCEPT ![p] = "stopping"]
        /\ sigs' = sigs \cup {"CHLD"}
    BY <1>4 DEF ChildStopped, ChildStopsItself, ChildChanges
  <2>2. pend' \in [Pids -> SUBSET {"INT", "TSTP"}]
    BY <1>4 DEF ChildStopped, ChildStopsItself, ChildChanges, TypeOK
  <2> QED BY <1>1, <2>1, <2>2 DEF World, TypeOK, ProcStates, Handlers
<1>5. CASE ChildCatches(p)
  BY <1>1, <1>5 DEF World, ChildCatches, TypeOK
<1>6. CASE ChildContinued(p)
  BY <1>1, <1>6, ContinueKeeps DEF World, ChildContinued
<1> QED BY <1>2, <1>3, <1>4, <1>5, <1>6 DEF Child

LEMMA ChildStep ==
  ASSUME IInv, NEW p \in Pids, Child(p)
  PROVE  IInv'
<1>1. /\ UNCHANGED <<listVars, masked, handlerVars, mainVars, status, hist>>
      /\ proc' \in [Pids -> ProcStates] /\ pend' \in [Pids -> SUBSET {"INT", "TSTP"}]
      /\ sigs' \in SUBSET Handlers
      /\ \A q \in Pids : proc'[q] = "none" <=> proc[q] = "none"
  BY ChildKeeps DEF IInv
<1>2. TypeOK'
  BY <1>1 DEF IInv, TypeOK, ListTypeOK, listVars, handlerVars, mainVars
<1>3. HandlersIdle'
  BY <1>1 DEF IInv, HandlersIdle, handlerVars
<1> QED BY <1>1, <1>2, <1>3, ElsewhereStep DEF handlerVars

LEMMA NextPreservesIInv == IInv /\ [Next]_vars => IInv'
<1> SUFFICES ASSUME IInv, [Next]_vars PROVE IInv'
  OBVIOUS
<1>1. CASE Commands
  BY <1>1, EvalBlockStep, BgFgLookupStep DEF Commands
<1>2. CASE MainStep
  BY <1>2, EvalForkStep, EvalAddJobStep, EvalUnblockStep, WaitFgStep, BgFgContStep, BgFgSetStateStep
     DEF MainStep
<1>3. CASE (Quit \/ Sigquit)
  BY <1>3, QuitStep
<1>4. CASE ChldStep
  BY <1>4, ChldEnterStep, ChldWaitpidStep, ChldDeleteStep, ChldStopStep DEF ChldStep
<1>5. CASE IntStep
  BY <1>5, EnterWithFgpidStep, ForwardKillStep DEF IntStep, IntEnter, IntKill
<1>6. CASE TstpStep
  BY <1>6, EnterWithFgpidStep, TstpCheckStep, ForwardKillStep DEF TstpStep, TstpEnter, TstpKill
<1>7. CASE Keyboard("INT") \/ Keyboard("TSTP")
  BY <1>7, KeyboardStep
<1>8. CASE \E p \in Pids : Child(p)
  BY <1>8, ChildStep
<1>9. CASE UNCHANGED vars
  <2>1. TypeOK'
    BY <1>9 DEF IInv, TypeOK, ListTypeOK, vars, listVars, kernelVars, handlerVars, mainVars
  <2>2. HandlersIdle'
    BY <1>9 DEF IInv, HandlersIdle, vars, handlerVars
  <2> QED BY <1>9, <2>1, <2>2, ElsewhereStep DEF vars, kernelVars, handlerVars
<1> QED BY <1>1, <1>2, <1>3, <1>4, <1>5, <1>6, <1>7, <1>8, <1>9 DEF Next

LEMMA IInvHolds == Spec => []IInv
BY InitEstablishesIInv, NextPreservesIInv, PTL DEF Spec

\* Every reachable state of the shell is well typed.
THEOREM TypeCorrect == Spec => []TypeOK
<1>1. IInv => TypeOK
  BY DEF IInv
<1> QED BY <1>1, IInvHolds, PTL

\* The list never keeps the pid of a child that has been reaped, beyond the step
\* in which the handler that reaped it deletes the entry.
THEOREM EntriesLiveHolds == Spec => []EntriesLive
<1>1. IInv => EntriesLive
  BY DEF IInv
<1> QED BY <1>1, IInvHolds, PTL

-----------------------------------------------------------------------------
(* The list inside the running shell is the list of JobList.tla.           *)

LEMMA InitListInit == Init => ListInit
BY DEF Init

LEMMA NextListNext == IInv /\ [Next]_vars => [ListNext]_listVars
<1> SUFFICES ASSUME IInv, [Next]_vars PROVE ListNext \/ UNCHANGED listVars
  OBVIOUS
<1>1. CASE Commands
  BY <1>1 DEF Commands, EvalBlock, BgFgLookup
<1>2. CASE EvalAddJob
  <2>1. CASE mpid \in Pids
    <3>1. nextjid <= JidBound /\ (\A i \in Slots : jobs[i].pid # mpid) /\ mstate \in {"FG", "BG"}
      BY <1>2, <2>1 DEF EvalAddJob, IInv, TypeOK, MaskHeld, ChildIsNew
    <3> QED BY <1>2, <2>1, <3>1 DEF EvalAddJob, ListNext, ListAdd
  <2>2. CASE mpid \notin Pids
    BY <1>2, <2>2 DEF EvalAddJob, AddJob
  <2> QED BY <2>1, <2>2
<1>3. CASE BgFgSetState
  <2>1. SetState(mslot, mstate) /\ mstate \in {"FG", "BG", "ST"}
    BY <1>3 DEF BgFgSetState, IInv, TypeOK
  <2>2. CASE mslot \in Slots
    BY <2>1, <2>2 DEF ListNext, ListSetState
  <2>3. CASE mslot \notin Slots
    BY <2>1, <2>3 DEF IInv, TypeOK, ListTypeOK, SetState, listVars
  <2> QED BY <2>2, <2>3
<1>4. CASE EvalFork \/ EvalUnblock \/ WaitFg \/ BgFgCont
  BY <1>4 DEF EvalFork, EvalUnblock, WaitFg, BgFgCont
<1>5. CASE (Quit \/ Sigquit)
  BY <1>5 DEF Quit, Sigquit, Exit
<1>6. CASE ChldDelete
  <2>1. hpid["CHLD"] \in Pids /\ DeleteJob(hpid["CHLD"])
    BY <1>6 DEF ChldDelete, IInv, DeletedIsReaped
  <2> QED BY <2>1 DEF ListNext, ListDelete
<1>7. CASE ChldStop
  BY <1>7, GetjobpidFinds DEF ChldStop, ListNext, ListSetState
<1>8. CASE ChldEnter \/ ChldWaitpid
  BY <1>8 DEF ChldEnter, ChldWaitpid
<1>9. CASE IntStep \/ TstpStep
  BY <1>9 DEF IntStep, TstpStep, IntEnter, IntKill, TstpEnter, TstpCheck, TstpKill,
     EnterWithFgpid, ForwardKill
<1>10. CASE Keyboard("INT") \/ Keyboard("TSTP")
  BY <1>10 DEF Keyboard
<1>11. CASE \E p \in Pids : Child(p)
  BY <1>11, ChildKeeps DEF IInv
<1>12. CASE UNCHANGED vars
  BY <1>12 DEF vars
<1> QED BY <1>1, <1>2, <1>3, <1>4, <1>5, <1>6, <1>7, <1>8, <1>9, <1>10, <1>11, <1>12
     DEF Next, MainStep, ChldStep

\* The shell implements the job list: whatever the interleaving of the main flow
\* and the handlers, the list changes only by the calls of ListSpec, and addjob is
\* never called for a pid that still has an entry.
THEOREM ShellImplementsList == Spec => ListSpec
BY InitListInit, NextListNext, IInvHolds, PTL DEF Spec, ListSpec

\* So no process has two entries in the running shell either.
THEOREM ShellPidsUnique == Spec => []PidsUnique
BY ShellImplementsList, PidsUniqueHolds, PTL

-----------------------------------------------------------------------------
(* One foreground job, the one that is waited for.                         *)

\* this_job in do_bgfg is the entry that was looked up, or an entry that the
\* SIGCHLD handler has cleared since.
SlotKept ==
  mpc \in {"sigcont", "setstate"} =>
    mslot \in Slots /\ mpid \in Pids /\ jobs[mslot].pid \in {mpid, 0}

\* With no stale write, a job in state FG is the one the main flow waits for.
AwaitedFG ==
  /\ mpc \in {"addjob", "unblock", "waitfg", "sigcont", "setstate"} => mpid # 0
  /\ "staleWrite" \notin hist =>
       \A i \in Slots : jobs[i].state = "FG" =>
         /\ jobs[i].pid = mpid
         /\ mpc = "waitfg" \/ (mpc = "unblock" /\ mstate = "FG")

FgInv == SlotKept /\ AwaitedFG

LEMMA FgInvMain ==
  ASSUME IInv, FgInv, Commands \/ MainStep
  PROVE  FgInv'
<1>1. CASE \E s \in {"FG", "BG"} : EvalBlock(s)
  BY <1>1 DEF EvalBlock, FgInv, SlotKept, AwaitedFG, listVars
<1>2. CASE \E s \in {"FG", "BG"} : BgFgLookup(s)
  <2>1. UNCHANGED <<listVars, hist>> /\ mpc = "prompt" /\ mpc' = "sigcont"
    BY <1>2 DEF BgFgLookup
  <2>2. PICK p \in Pids :
          /\ \/ getjobpid(jobs, p) # NULL
             \/ \E j \in 1 .. JidBound :
                  getjobjid(jobs, j) # NULL /\ p = jobs[getjobjid(jobs, j)].pid
          /\ mpid' = p /\ mslot' = getjobpid(jobs, p)
    BY <1>2 DEF BgFgLookup
  <2>3. getjobpid(jobs, p) # NULL
    <3>1. ASSUME NEW j \in 1 .. JidBound, getjobjid(jobs, j) # NULL,
                 p = jobs[getjobjid(jobs, j)].pid
          PROVE  getjobpid(jobs, p) # NULL
      <4>1. getjobjid(jobs, j) \in Slots
        BY <3>1, FirstIsLeast DEF getjobjid
      <4> QED BY <3>1, <4>1, GetjobpidFinds
    <3> QED BY <2>2, <3>1
  <2>4. mslot' \in Slots /\ jobs[mslot'].pid = p
    BY <2>2, <2>3, GetjobpidFinds
  <2> QED BY <2>1, <2>2, <2>4, JobListAssumption DEF FgInv, SlotKept, AwaitedFG, listVars
<1>3. CASE EvalFork
  BY <1>3, JobListAssumption DEF EvalFork, FgInv, SlotKept, AwaitedFG, listVars, FORK_FAILED
<1>4. CASE EvalAddJob
  <2>1. /\ mpc = "addjob" /\ mpc' = "unblock" /\ UNCHANGED <<mpid, mstate, mslot>>
        /\ AddJob(mpid, mstate) /\ hist \subseteq hist'
    BY <1>4 DEF EvalAddJob, MainGoto
  <2>2. CASE UNCHANGED listVars
    BY <2>1, <2>2 DEF FgInv, SlotKept, AwaitedFG, listVars
  <2>3. CASE mpid \in Pids /\ FreeSlots(jobs) # {}
    <3> DEFINE f == First(FreeSlots(jobs))
    <3>1. f \in Slots
      BY <2>3, FirstIsLeast DEF FreeSlots
    <3>2. jobs' = [jobs EXCEPT ![f] = [pid |-> mpid, jid |-> nextjid, state |-> mstate]]
      BY <2>1, <2>3 DEF AddJob
    <3> HIDE DEF f
    <3>3. /\ jobs'[f].pid = mpid /\ jobs'[f].state = mstate
          /\ \A i \in Slots \ {f} : jobs'[i] = jobs[i]
      BY <3>1, <3>2 DEF IInv, TypeOK, ListTypeOK
    <3> QED BY <2>1, <3>3 DEF FgInv, SlotKept, AwaitedFG
  <2> QED BY <2>1, <2>2, <2>3 DEF AddJob
<1>5. CASE EvalUnblock
  BY <1>5 DEF EvalUnblock, ToPrompt, MainGoto, FgInv, SlotKept, AwaitedFG, listVars, IInv, TypeOK
<1>6. CASE WaitFg
  <2>1. /\ mpc = "waitfg" /\ mpid # fgpid(jobs) /\ mpc' = "prompt" /\ mpid' = 0
        /\ UNCHANGED <<listVars, hist>>
    BY <1>6 DEF WaitFg, ToPrompt
  <2>2. "staleWrite" \notin hist => \A i \in Slots : jobs[i].state # "FG"
    BY <2>1, FgpidFinds DEF FgInv, AwaitedFG
  <2> QED BY <2>1, <2>2 DEF FgInv, SlotKept, AwaitedFG, listVars
<1>7. CASE BgFgCont
  BY <1>7 DEF BgFgCont, MainGoto, FgInv, SlotKept, AwaitedFG, listVars
<1>8. CASE BgFgSetState
  <2>1. /\ mpc = "setstate" /\ SetState(mslot, mstate) /\ hist \subseteq hist'
        /\ jobs[mslot].pid = 0 => "staleWrite" \in hist'
    BY <1>8 DEF BgFgSetState
  <2>2. \/ mstate = "BG" /\ mpc' = "prompt"
        \/ mstate = "FG" /\ mpc' = "waitfg" /\ mpid' = mpid
    BY <1>8 DEF BgFgSetState, ToPrompt, MainGoto, IInv, TypeOK
  <2>3. mslot \in Slots /\ jobs[mslot].pid \in {mpid, 0} /\ mpid # 0
    BY <2>1 DEF FgInv, SlotKept, AwaitedFG
  <2>4. /\ jobs'[mslot].pid = jobs[mslot].pid /\ jobs'[mslot].state = mstate
        /\ \A i \in Slots \ {mslot} : jobs'[i] = jobs[i]
    BY <2>1, <2>3 DEF SetState, IInv, TypeOK, ListTypeOK
  <2> QED BY <2>1, <2>2, <2>3, <2>4 DEF FgInv, SlotKept, AwaitedFG
<1> QED BY <1>1, <1>2, <1>3, <1>4, <1>5, <1>6, <1>7, <1>8 DEF Commands, MainStep

LEMMA FgInvHandler ==
  ASSUME IInv, FgInv, ChldDelete \/ ChldStop
  PROVE  FgInv'
<1>1. UNCHANGED <<mainVars, hist>>
  BY DEF ChldDelete, ChldStop
<1>2. \A i \in Slots : \/ jobs'[i] = jobs[i]
                       \/ jobs'[i].pid = 0 /\ jobs'[i].state # "FG"
                       \/ jobs'[i].pid = jobs[i].pid /\ jobs'[i].state # "FG"
  <2>1. CASE ChldDelete
    BY <2>1, DeleteJobClears DEF ChldDelete, IInv, TypeOK, ListTypeOK, listVars, EmptyJob
  <2>2. CASE ChldStop
    BY <2>2 DEF ChldStop, SetState, IInv, TypeOK, ListTypeOK, listVars
  <2> QED BY <2>1, <2>2
<1> QED BY <1>1, <1>2 DEF mainVars, FgInv, SlotKept, AwaitedFG

LEMMA FgInvHolds == Spec => []FgInv
<1>1. Init => FgInv
  BY DEF Init, ListInit, EmptyJob, FgInv, SlotKept, AwaitedFG
<1>2. IInv /\ FgInv /\ [Next]_vars => FgInv'
  <2> SUFFICES ASSUME IInv, FgInv, [Next]_vars PROVE FgInv'
    OBVIOUS
  <2>1. ASSUME UNCHANGED <<listVars, mainVars, hist>> PROVE FgInv'
    BY <2>1 DEF listVars, mainVars, FgInv, SlotKept, AwaitedFG
  <2>2. CASE Commands \/ MainStep
    BY <2>2, FgInvMain
  <2>3. CASE ChldDelete \/ ChldStop
    BY <2>3, FgInvHandler
  <2>4. CASE Quit \/ Sigquit \/ ChldEnter \/ ChldWaitpid \/ IntStep \/ TstpStep \/ Keyboard("INT") \/ Keyboard("TSTP")
    BY <2>1, <2>4 DEF Quit, Sigquit, Exit, ChldEnter, ChldWaitpid, IntStep, TstpStep, IntEnter, IntKill, TstpEnter,
       TstpCheck, TstpKill, EnterWithFgpid, ForwardKill, Keyboard
  <2>5. CASE \E p \in Pids : Child(p)
    BY <2>1, <2>5, ChildKeeps DEF IInv
  <2>6. CASE UNCHANGED vars
    BY <2>1, <2>6 DEF vars
  <2> QED BY <2>2, <2>3, <2>4, <2>5, <2>6 DEF Next, ChldStep
<1> QED BY <1>1, <1>2, IInvHolds, PTL DEF Spec

\* While do_bgfg has not written through a stale pointer there is at most one
\* job in state FG, and the main flow is waiting for it.
THEOREM ForegroundAwaitedHolds == Spec => []ForegroundAwaited
<1>1. IInv /\ FgInv => ForegroundAwaited
  <2> SUFFICES ASSUME IInv, FgInv, "staleWrite" \notin hist
               PROVE  /\ OneForeground
                      /\ \A i \in Slots : jobs[i].state = "FG" =>
                           /\ Entry(i, mpid)
                           /\ mpc = "waitfg" \/ (mpc = "unblock" /\ mstate = "FG")
    BY DEF ForegroundAwaited
  <2>1. \A i \in Slots : jobs[i].state = "FG" =>
           /\ Entry(i, mpid) /\ mpid # 0
           /\ mpc = "waitfg" \/ (mpc = "unblock" /\ mstate = "FG")
    BY DEF FgInv, AwaitedFG, Entry
  <2>2. OneForeground
    BY <2>1 DEF IInv, PidsUnique, OneForeground, Entry
  <2> QED BY <2>1, <2>2
<1> QED BY <1>1, IInvHolds, FgInvHolds, PTL
-----------------------------------------------------------------------------
(* The list and the children agree.                                        *)

\* The entries that a step may empty, or give a child that was not in the list.
LEMMA AddedEntry ==
  ASSUME IInv, EvalAddJob, mpid \in Pids, FreeSlots(jobs) # {}
  PROVE  \E f \in Slots :
           /\ jobs[f].pid = 0 /\ jobs'[f].pid = mpid /\ jobs'[f].state = mstate
           /\ \A i \in Slots \ {f} : jobs'[i] = jobs[i]
<1> DEFINE f == First(FreeSlots(jobs))
<1>1. f \in Slots /\ jobs[f].pid = 0
  BY FirstIsLeast DEF FreeSlots
<1>2. jobs' = [jobs EXCEPT ![f] = [pid |-> mpid, jid |-> nextjid, state |-> mstate]]
  BY DEF EvalAddJob, AddJob
<1> HIDE DEF f
<1>3. /\ jobs'[f].pid = mpid /\ jobs'[f].state = mstate
      /\ \A i \in Slots \ {f} : jobs'[i] = jobs[i]
  BY <1>1, <1>2 DEF IInv, TypeOK, ListTypeOK
<1> QED BY <1>1, <1>3

\* sigchld_handler empties the entry of the child it has reaped, and no other.
LEMMA DeletedEntry ==
  ASSUME IInv, ChldDelete
  PROVE  /\ hpid["CHLD"] \in Pids /\ proc[hpid["CHLD"]] = "none"
         /\ \A i \in Slots : \/ jobs'[i] = jobs[i]
                             \/ jobs[i].pid = hpid["CHLD"] /\ jobs'[i].pid = 0
<1>1. hpid["CHLD"] \in Pids /\ proc[hpid["CHLD"]] = "none"
  BY DEF ChldDelete, IInv, DeletedIsReaped
<1>2. \A i \in Slots : \/ jobs'[i] = jobs[i]
                       \/ jobs[i].pid = hpid["CHLD"] /\ jobs'[i].pid = 0
  BY <1>1, DeleteJobClears DEF ChldDelete, IInv, TypeOK, ListTypeOK, listVars, EmptyJob
<1> QED BY <1>1, <1>2

\* It writes ST into the entry of the child that stopped, and nothing else.
LEMMA StoppedEntry ==
  ASSUME IInv, ChldStop
  PROVE  \A i \in Slots :
           /\ jobs'[i].pid = jobs[i].pid
           /\ jobs'[i].state \in {jobs[i].state, "ST"}
           /\ jobs[i].pid = hpid["CHLD"] /\ hpid["CHLD"] \in Pids => jobs'[i].state = "ST"
<1> DEFINE s == getjobpid(jobs, hpid["CHLD"])
<1>1. CASE s = NULL
  <2>1. UNCHANGED listVars
    BY <1>1 DEF ChldStop
  <2>2. \A i \in Slots : ~(jobs[i].pid = hpid["CHLD"] /\ hpid["CHLD"] \in Pids)
    BY <1>1, GetjobpidFinds
  <2> QED BY <2>1, <2>2 DEF listVars
<1>2. CASE s # NULL
  <2>1. s \in Slots /\ jobs[s].pid = hpid["CHLD"] /\ SetState(s, "ST")
    BY <1>2, GetjobpidFinds DEF ChldStop
  <2> HIDE DEF s
  <2>2. /\ jobs'[s].pid = jobs[s].pid /\ jobs'[s].state = "ST"
        /\ \A i \in Slots \ {s} : jobs'[i] = jobs[i]
    BY <2>1 DEF SetState, IInv, TypeOK, ListTypeOK
  <2>3. \A i \in Slots : jobs[i].pid = hpid["CHLD"] /\ hpid["CHLD"] \in Pids => i = s
    BY <2>1, JobListAssumption DEF IInv, PidsUnique
  <2> QED BY <2>1, <2>2, <2>3
<1> QED BY <1>1, <1>2

\* do_bgfg writes into the entry it has looked up, cleared since or not.
LEMMA WrittenEntry ==
  ASSUME IInv, FgInv, BgFgSetState
  PROVE  /\ mslot \in Slots /\ mpid \in Pids /\ jobs[mslot].pid \in {mpid, 0}
         /\ jobs'[mslot].state = mstate
         /\ \A i \in Slots : jobs'[i].pid = jobs[i].pid
         /\ \A i \in Slots \ {mslot} : jobs'[i] = jobs[i]
<1>1. mslot \in Slots /\ mpid \in Pids /\ jobs[mslot].pid \in {mpid, 0} /\ SetState(mslot, mstate)
  BY DEF BgFgSetState, FgInv, SlotKept
<1> QED BY <1>1 DEF SetState, IInv, TypeOK, ListTypeOK

\* Only fork gives a pid to a child and only waitpid reports a stop.
LEMMA ChildrenBySteps ==
  ASSUME IInv, [Next]_vars, ~EvalFork, ~ChldWaitpid
  PROVE  \A q \in Pids : /\ proc'[q] = "none" <=> proc[q] = "none"
                         /\ proc'[q] = "stopped" => proc[q] = "stopped"
<1>1. CASE UNCHANGED proc
  BY <1>1
<1>2. CASE BgFgCont
  BY <1>2 DEF BgFgCont, Continue, IInv, TypeOK
<1>3. ASSUME NEW p \in Pids, Child(p)
      PROVE  \A q \in Pids : /\ proc'[q] = "none" <=> proc[q] = "none"
                             /\ proc'[q] = "stopped" => proc[q] = "stopped"
  BY <1>3 DEF Child, World, ChildSetpgid, ChildExecve, ChildExit, ChildKilled, ChildStopped, ChildCatches,
     ChildStopsItself, ChildContinued, ChildChanges, Continue, Live, IInv, TypeOK
<1>4. UNCHANGED proc \/ BgFgCont \/ \E p \in Pids : Child(p)
  BY DEF Next, Commands, MainStep, ChldStep, IntStep, TstpStep, EvalBlock, BgFgLookup, EvalAddJob,
     EvalUnblock, WaitFg, BgFgSetState, Quit, Sigquit, Exit, ChldEnter, ChldDelete, ChldStop, IntEnter,
     IntKill, TstpEnter, TstpCheck, TstpKill, EnterWithFgpid, ForwardKill, Keyboard, kernelVars, vars
<1> QED BY <1>1, <1>2, <1>3, <1>4

\* The list changes in four actions only.
LEMMA ListBySteps ==
  ASSUME IInv, [Next]_vars, ~EvalAddJob, ~BgFgSetState, ~ChldDelete, ~ChldStop
  PROVE  UNCHANGED <<listVars, hist>>
<1>1. CASE \E p \in Pids : Child(p)
  BY <1>1, ChildKeeps DEF IInv
<1>2. CASE Commands \/ MainStep
  BY <1>2 DEF Commands, MainStep, EvalBlock, BgFgLookup, EvalFork, EvalUnblock, WaitFg, BgFgCont
<1>3. CASE Quit \/ Sigquit \/ ChldStep
  BY <1>3 DEF Quit, Sigquit, Exit, ChldStep, ChldEnter, ChldWaitpid
<1>4. CASE IntStep \/ TstpStep \/ Keyboard("INT") \/ Keyboard("TSTP")
  BY <1>4 DEF IntStep, TstpStep, IntEnter, IntKill, TstpEnter, TstpCheck, TstpKill, EnterWithFgpid,
     ForwardKill, Keyboard
<1>5. CASE UNCHANGED vars
  BY <1>5 DEF vars
<1> QED BY <1>1, <1>2, <1>3, <1>4, <1>5 DEF Next

\* The main flow's locals change in its own steps, which run with no handler active.
LEMMA MainBySteps ==
  ASSUME IInv, [Next]_vars, ~Commands, ~MainStep
  PROVE  UNCHANGED mainVars
<1>1. CASE \E p \in Pids : Child(p)
  BY <1>1, ChildKeeps DEF IInv
<1>2. CASE Quit \/ Sigquit \/ ChldStep
  BY <1>2 DEF Quit, Sigquit, Exit, ChldStep, ChldEnter, ChldWaitpid, ChldDelete, ChldStop
<1>3. CASE IntStep \/ TstpStep \/ Keyboard("INT") \/ Keyboard("TSTP")
  BY <1>3 DEF IntStep, TstpStep, IntEnter, IntKill, TstpEnter, TstpCheck, TstpKill, EnterWithFgpid,
     ForwardKill, Keyboard
<1>4. CASE UNCHANGED vars
  BY <1>4 DEF vars
<1> QED BY <1>1, <1>2, <1>3, <1>4 DEF Next

LEMMA ChildrenTrackedStep ==
  ASSUME IInv, IInv', FgInv, ChildrenTracked, [Next]_vars
  PROVE  ChildrenTracked'
<1> SUFFICES ASSUME "untracked" \notin hist', NEW p \in Pids, proc'[p] # "none"
             PROVE  \/ mpc' = "addjob" /\ mpid' = p
                    \/ \E i \in Slots : jobs'[i].pid = p
  BY DEF ChildrenTracked, Entry
<1>1. CASE EvalFork
  BY <1>1 DEF EvalFork, ChildrenTracked, Entry, listVars, IInv, TypeOK
<1>2. CASE ChldWaitpid
  BY <1>2 DEF ChldWaitpid, ChildrenTracked, Entry, listVars, mainVars, IInv, TypeOK
<1>3. CASE ~EvalFork /\ ~ChldWaitpid
  <2>1. proc[p] # "none"
    BY <1>3, ChildrenBySteps
  <2>2. CASE EvalAddJob
    <3>1. "untracked" \notin hist /\ UNCHANGED mpid
      BY <2>2 DEF EvalAddJob, MainGoto
    <3>2. CASE mpid \in Pids
      <4>1. FreeSlots(jobs) # {}
        BY <2>2, <3>2 DEF EvalAddJob
      <4> QED BY <2>1, <2>2, <3>1, <3>2, <4>1, AddedEntry, JobListAssumption DEF ChildrenTracked, Entry
    <3>3. CASE mpid \notin Pids
      BY <2>1, <2>2, <3>1, <3>3 DEF EvalAddJob, AddJob, listVars, ChildrenTracked, Entry
    <3> QED BY <3>2, <3>3
  <2>3. CASE BgFgSetState
    <3>1. mpc = "setstate" /\ "untracked" \notin hist
      BY <2>3 DEF BgFgSetState
    <3> QED BY <2>1, <2>3, <3>1, WrittenEntry DEF ChildrenTracked, Entry
  <2>4. CASE ChldDelete
    <3>1. UNCHANGED <<mainVars, hist>>
      BY <2>4 DEF ChldDelete
    <3> QED BY <2>1, <2>4, <3>1, DeletedEntry DEF ChildrenTracked, Entry, mainVars
  <2>5. CASE ChldStop
    <3>1. UNCHANGED <<mainVars, hist>>
      BY <2>5 DEF ChldStop
    <3> QED BY <2>1, <2>5, <3>1, StoppedEntry DEF ChildrenTracked, Entry, mainVars
  <2>6. CASE ~EvalAddJob /\ ~BgFgSetState /\ ~ChldDelete /\ ~ChldStop
    <3>1. UNCHANGED <<listVars, hist>>
      BY <2>6, ListBySteps
    <3>2. mpc = "addjob" => UNCHANGED mainVars
      BY <1>3, <2>6, MainBySteps
         DEF Commands, MainStep, EvalBlock, BgFgLookup, EvalUnblock, WaitFg, BgFgCont
    <3> QED BY <2>1, <3>1, <3>2 DEF ChildrenTracked, Entry, listVars, mainVars
  <2> QED BY <2>2, <2>3, <2>4, <2>5, <2>6
<1> QED BY <1>1, <1>2, <1>3

\* Every child has an entry from addjob until it is reaped, as long as the list
\* was never full when one was added (tsh.c:200, tsh.c:403-409).
THEOREM ChildrenTrackedHolds == Spec => []ChildrenTracked
<1>1. Init => ChildrenTracked
  BY DEF Init, ChildrenTracked
<1> QED BY <1>1, ChildrenTrackedStep, IInvHolds, FgInvHolds, PTL DEF Spec

\* A child that addjob is about to enter cannot have had a stop reported: that
\* takes the SIGCHLD handler.
FreshNotStopped == mpc = "addjob" /\ mpid \in Pids => proc[mpid] # "stopped"

StopInv == FreshNotStopped /\ StopRecorded

LEMMA FreshNotStoppedStep ==
  ASSUME IInv, FreshNotStopped, [Next]_vars
  PROVE  FreshNotStopped'
<1> SUFFICES ASSUME mpc' = "addjob", mpid' \in Pids PROVE proc'[mpid'] # "stopped"
  BY DEF FreshNotStopped
<1>1. CASE EvalFork
  BY <1>1, JobListAssumption DEF EvalFork, FORK_FAILED, IInv, TypeOK
<1>2. CASE ~EvalFork
  <2>1. mpc = "addjob" /\ mpid' = mpid
    <3>1. CASE Commands \/ MainStep
      BY <1>2, <3>1 DEF Commands, MainStep, EvalBlock, BgFgLookup, EvalAddJob, EvalUnblock, WaitFg,
         BgFgCont, BgFgSetState, ToPrompt, MainGoto
    <3> QED BY <3>1, MainBySteps DEF mainVars
  <2>2. ~ChldWaitpid
    BY <2>1 DEF ChldWaitpid, HandlerRuns, IInv, MaskHeld
  <2> QED BY <1>2, <2>1, <2>2, ChildrenBySteps DEF FreshNotStopped
<1> QED BY <1>1, <1>2

\* The handler stays at "stop" until it writes ST, and comes there through waitpid.
LEMMA ChldHandlerBySteps ==
  ASSUME IInv, [Next]_vars, ~ChldStep
  PROVE  hpc'["CHLD"] = hpc["CHLD"] /\ hpid'["CHLD"] = hpid["CHLD"]
<1>1. CASE UNCHANGED handlerVars
  BY <1>1 DEF handlerVars
<1>2. CASE \E p \in Pids : Child(p)
  BY <1>1, <1>2, ChildKeeps DEF IInv
<1>3. CASE IntStep \/ TstpStep
  BY <1>1, <1>3 DEF IntStep, TstpStep, IntEnter, IntKill, TstpEnter, TstpCheck, TstpKill, EnterWithFgpid,
     ForwardKill, Enter, Return, Goto, IInv, TypeOK, Handlers
<1>4. CASE Commands \/ MainStep \/ Quit \/ Sigquit \/ Keyboard("INT") \/ Keyboard("TSTP") \/ UNCHANGED vars
  BY <1>1, <1>4 DEF Commands, MainStep, EvalBlock, BgFgLookup, EvalFork, EvalAddJob, EvalUnblock, WaitFg,
     BgFgCont, BgFgSetState, Quit, Sigquit, Exit, Keyboard, vars
<1> QED BY <1>2, <1>3, <1>4 DEF Next

LEMMA StopRecordedStep ==
  ASSUME IInv, FgInv, StopInv, [Next]_vars
  PROVE  StopRecorded'
<1> SUFFICES ASSUME "lostStop" \notin hist', NEW p \in Pids, NEW i \in Slots,
                    proc'[p] = "stopped", jobs'[i].pid = p,
                    ~(hpc'["CHLD"] = "stop" /\ hpid'["CHLD"] = p)
             PROVE  jobs'[i].state = "ST"
  BY DEF StopRecorded, Entry
<1>0. p # 0
  BY JobListAssumption
<1>1. CASE ChldWaitpid
  <2>1. UNCHANGED <<listVars, hist>> /\ hpc["CHLD"] = "waitpid"
    BY <1>1 DEF ChldWaitpid
  <2>2. proc[p] = "stopped"
    BY <1>1 DEF ChldWaitpid, Goto, IInv, TypeOK, Handlers
  <2> QED BY <2>1, <2>2 DEF StopInv, StopRecorded, Entry, listVars
<1>2. CASE EvalFork
  BY <1>2 DEF EvalFork, listVars, handlerVars, IInv, TypeOK, StopInv, StopRecorded, Entry
<1>3. CASE ~EvalFork /\ ~ChldWaitpid
  <2>1. proc[p] = "stopped"
    BY <1>3, ChildrenBySteps
  <2>2. CASE EvalAddJob
    <3>1. UNCHANGED <<handlerVars, mpid>> /\ mpc = "addjob" /\ "lostStop" \notin hist
      BY <2>2 DEF EvalAddJob, MainGoto
    <3>2. CASE UNCHANGED listVars
      BY <2>1, <3>1, <3>2 DEF StopInv, StopRecorded, Entry, listVars, handlerVars
    <3>3. CASE mpid \in Pids /\ FreeSlots(jobs) # {}
      <4>1. p # mpid
        BY <2>1, <3>1, <3>3 DEF StopInv, FreshNotStopped
      <4>2. jobs'[i] = jobs[i]
        BY <2>2, <3>3, <4>1, AddedEntry
      <4> QED BY <2>1, <3>1, <4>2 DEF StopInv, StopRecorded, Entry, handlerVars
    <3> QED BY <2>2, <3>2, <3>3 DEF EvalAddJob, AddJob
  <2>3. CASE BgFgSetState
    <3>1. UNCHANGED handlerVars /\ "lostStop" \notin hist
      BY <2>3 DEF BgFgSetState
    <3>2. hpc["CHLD"] = "idle"
      BY <2>3, MainRunsAlone DEF BgFgSetState
    <3>3. jobs[i].pid = p
      BY <2>3, WrittenEntry
    <3>4. jobs[i].state = "ST"
      BY <2>1, <3>1, <3>2, <3>3 DEF StopInv, StopRecorded, Entry
    <3>5. i # mslot
      BY <1>0, <2>1, <2>3, <3>3, <3>4, WrittenEntry DEF BgFgSetState
    <3> QED BY <2>3, <3>4, <3>5, WrittenEntry
  <2>4. CASE ChldDelete
    <3>1. hpc["CHLD"] = "delete" /\ UNCHANGED hist
      BY <2>4 DEF ChldDelete
    <3>2. jobs'[i] = jobs[i]
      BY <1>0, <2>4, DeletedEntry
    <3> QED BY <2>1, <3>1, <3>2 DEF StopInv, StopRecorded, Entry
  <2>5. CASE ChldStop
    <3>1. hpc["CHLD"] = "stop" /\ UNCHANGED hist
      BY <2>5 DEF ChldStop
    <3>2. /\ jobs'[i].pid = jobs[i].pid /\ jobs'[i].state \in {jobs[i].state, "ST"}
          /\ jobs[i].pid = hpid["CHLD"] /\ hpid["CHLD"] \in Pids => jobs'[i].state = "ST"
      BY <2>5, StoppedEntry
    <3> QED BY <2>1, <3>1, <3>2 DEF StopInv, StopRecorded, Entry
  <2>6. CASE ~EvalAddJob /\ ~BgFgSetState /\ ~ChldDelete /\ ~ChldStop
    <3>1. UNCHANGED <<listVars, hist>>
      BY <2>6, ListBySteps
    <3>2. CASE ChldEnter
      <4>1. hpc["CHLD"] = "idle"
        BY <3>2 DEF ChldEnter, Deliverable, IInv, HandlersIdle, Handlers
      <4> QED BY <2>1, <3>1, <4>1 DEF StopInv, StopRecorded, Entry, listVars
    <3>3. CASE ~ChldEnter
      <4>1. ~ChldStep
        BY <1>3, <2>6, <3>3 DEF ChldStep
      <4> QED BY <2>1, <3>1, <4>1, ChldHandlerBySteps DEF StopInv, StopRecorded, Entry, listVars
    <3> QED BY <3>2, <3>3
  <2> QED BY <2>2, <2>3, <2>4, <2>5, <2>6
<1> QED BY <1>1, <1>2, <1>3

\* A stop that waitpid has reported is in the list once the handler has gone on,
\* unless do_bgfg wrote over it (tsh.c:410-415).
THEOREM StopRecordedHolds == Spec => []StopRecorded
<1>1. Init => StopInv
  BY DEF Init, StopInv, FreshNotStopped, StopRecorded
<1>2. IInv /\ FgInv /\ StopInv /\ [Next]_vars => StopInv'
  BY FreshNotStoppedStep, StopRecordedStep DEF StopInv
<1>3. StopInv => StopRecorded
  BY DEF StopInv
<1> QED BY <1>1, <1>2, <1>3, IInvHolds, FgInvHolds, PTL DEF Spec

-----------------------------------------------------------------------------
(* waitfg and the job it waits for.                                        *)

\* The job that is waited for is in state FG, or has been marked as stopped.
AwaitedState ==
  "staleWrite" \notin hist /\ (mpc = "waitfg" \/ (mpc = "unblock" /\ mstate = "FG")) =>
      \A i \in Slots : jobs[i].pid = mpid => jobs[i].state \in {"FG", "ST"}

LEMMA AwaitedStateStep ==
  ASSUME IInv, FgInv, AwaitedState, [Next]_vars
  PROVE  AwaitedState'
<1> SUFFICES ASSUME "staleWrite" \notin hist',
                    mpc' = "waitfg" \/ (mpc' = "unblock" /\ mstate' = "FG"),
                    NEW i \in Slots, jobs'[i].pid = mpid'
             PROVE  jobs'[i].state \in {"FG", "ST"}
  BY DEF AwaitedState
<1>1. CASE EvalAddJob
  <2>1. /\ mpc = "addjob" /\ UNCHANGED <<mpid, mstate>> /\ mpc' = "unblock"
        /\ mpid # 0
    BY <1>1 DEF EvalAddJob, MainGoto, FgInv, AwaitedFG
  <2>2. CASE mpid \in Pids /\ FreeSlots(jobs) # {}
    <3>1. \A k \in Slots : jobs[k].pid # mpid
      BY <2>1, <2>2 DEF IInv, ChildIsNew
    <3>2. PICK f \in Slots : /\ jobs'[f].state = mstate
                             /\ \A k \in Slots \ {f} : jobs'[k] = jobs[k]
      BY <1>1, <2>2, AddedEntry
    <3> QED BY <2>1, <3>1, <3>2
  <2>3. CASE mpid \notin Pids
    <3>1. UNCHANGED listVars
      BY <1>1, <2>3 DEF EvalAddJob, AddJob
    <3> QED BY <2>1, <2>3, <3>1 DEF listVars, IInv, TypeOK, ListTypeOK
  <2>4. CASE mpid \in Pids /\ FreeSlots(jobs) = {}
    <3>1. UNCHANGED listVars
      BY <1>1, <2>4 DEF EvalAddJob, AddJob
    <3> QED BY <2>1, <2>4, <3>1 DEF listVars, IInv, ChildIsNew
  <2> QED BY <2>2, <2>3, <2>4
<1>2. CASE EvalUnblock
  BY <1>2 DEF EvalUnblock, ToPrompt, MainGoto, listVars, AwaitedState, IInv, TypeOK
<1>3. CASE BgFgSetState
  <2>1. /\ mpid' = mpid /\ mstate = "FG" /\ jobs[mslot].pid # 0
    BY <1>3 DEF BgFgSetState, ToPrompt, MainGoto, IInv, TypeOK
  <2>2. i = mslot
    BY <1>3, <2>1, WrittenEntry DEF IInv, PidsUnique
  <2> QED BY <1>3, <2>1, <2>2, WrittenEntry
<1>4. CASE ChldDelete
  <2>1. UNCHANGED <<mainVars, hist>>
    BY <1>4 DEF ChldDelete
  <2>2. mpid # 0
    BY <2>1 DEF mainVars, FgInv, AwaitedFG
  <2> QED BY <1>4, <2>1, <2>2, DeletedEntry DEF mainVars, AwaitedState
<1>5. CASE ChldStop
  <2>1. UNCHANGED <<mainVars, hist>>
    BY <1>5 DEF ChldStop
  <2> QED BY <1>5, <2>1, StoppedEntry DEF mainVars, AwaitedState
<1>6. CASE ~EvalAddJob /\ ~EvalUnblock /\ ~BgFgSetState /\ ~ChldDelete /\ ~ChldStop
  <2>1. UNCHANGED <<listVars, hist>>
    BY <1>6, ListBySteps
  <2>2. UNCHANGED mainVars
    BY <1>6, MainBySteps
       DEF Commands, MainStep, EvalBlock, BgFgLookup, EvalFork, WaitFg, BgFgCont, ToPrompt, MainGoto
  <2> QED BY <2>1, <2>2 DEF listVars, mainVars, AwaitedState
<1> QED BY <1>1, <1>2, <1>3, <1>4, <1>5, <1>6

LEMMA AwaitedStateHolds == Spec => []AwaitedState
<1>1. Init => AwaitedState
  BY DEF Init, AwaitedState
<1> QED BY <1>1, AwaitedStateStep, IInvHolds, FgInvHolds, PTL DEF Spec

\* waitfg gives the prompt back while its job is alive only when the list has the
\* job as stopped (tsh.c:380).
THEOREM WaitfgReturnsWhenDoneHolds == Spec => WaitfgReturnsWhenDone
<1>1. ASSUME IInv, FgInv, ChildrenTracked, AwaitedState, [Next]_vars,
             mpc = "waitfg", mpc' # "waitfg", mpid \in Pids, proc[mpid] \in Live,
             hist \cap {"untracked", "staleWrite"} = {}
      PROVE  \E i \in Slots : Entry(i, mpid) /\ jobs[i].state = "ST"
  <2>1. WaitFg
    <3>1. CASE Commands \/ MainStep
      BY <1>1, <3>1 DEF Commands, MainStep, EvalBlock, BgFgLookup, EvalFork, EvalAddJob, EvalUnblock,
         BgFgCont, BgFgSetState
    <3> QED BY <1>1, <3>1, MainBySteps DEF mainVars
  <2>2. PICK i \in Slots : jobs[i].pid = mpid
    BY <1>1 DEF ChildrenTracked, Entry, Live
  <2>3. jobs[i].state \in {"FG", "ST"}
    BY <1>1, <2>2 DEF AwaitedState
  <2>4. \A k \in Slots : jobs[k].state = "FG" => jobs[k].pid = mpid
    BY <1>1 DEF FgInv, AwaitedFG
  <2>5. jobs[i].state # "FG"
    BY <2>1, <2>4, FgpidFinds DEF WaitFg
  <2> QED BY <2>2, <2>3, <2>5 DEF Entry
<1>2. IInv /\ FgInv /\ ChildrenTracked /\ AwaitedState /\ [Next]_vars =>
        [(mpc = "waitfg" /\ mpc' # "waitfg" /\ mpid \in Pids /\ proc[mpid] \in Live
            /\ hist \cap {"untracked", "staleWrite"} = {})
           => \E i \in Slots : Entry(i, mpid) /\ jobs[i].state = "ST"]_vars
  BY <1>1
<1> QED BY <1>2, IInvHolds, FgInvHolds, ChildrenTrackedHolds, AwaitedStateHolds, PTL
     DEF Spec, WaitfgReturnsWhenDone

-----------------------------------------------------------------------------
(* ctrl-c and ctrl-z.                                                      *)

\* The job a keyboard handler has in hand was the foreground job when the handler
\* started, and the main flow has not run since.
InHand ==
  \A h \in {"INT", "TSTP"} : hpc[h] # "idle" =>
    \A i \in Slots : jobs[i].pid = hpid[h] => jobs[i].pid = 0 \/ jobs[i].state \in {"FG", "ST"}

LEMMA InHandStep ==
  ASSUME IInv, InHand, [Next]_vars
  PROVE  InHand'
<1>1. CASE MainRuns /\ UNCHANGED handlerVars
  BY <1>1 DEF MainRuns, handlerVars, IInv, HandlersIdle, Handlers, InHand
<1>2. CASE Commands \/ MainStep
  BY <1>1, <1>2 DEF Commands, MainStep, EvalBlock, BgFgLookup, EvalFork, EvalAddJob, EvalUnblock, WaitFg,
     BgFgCont, BgFgSetState
<1>3. CASE ChldStep
  <2>1. \A h \in {"INT", "TSTP"} : hpc'[h] = hpc[h] /\ hpid'[h] = hpid[h]
    BY <1>3 DEF ChldStep, ChldEnter, ChldWaitpid, ChldDelete, ChldStop, Enter, Goto, Return, IInv, TypeOK,
       Handlers
  <2>2. \A i \in Slots : \/ jobs'[i].pid = jobs[i].pid /\ jobs'[i].state \in {jobs[i].state, "ST"}
                         \/ jobs'[i].pid = 0
    <3>1. CASE ChldEnter \/ ChldWaitpid
      BY <3>1 DEF ChldEnter, ChldWaitpid, listVars
    <3>2. CASE ChldDelete
      BY <3>2, DeletedEntry
    <3>3. CASE ChldStop
      BY <3>3, StoppedEntry
    <3> QED BY <1>3, <3>1, <3>2, <3>3 DEF ChldStep
  <2> QED BY <2>1, <2>2 DEF InHand
<1>4. CASE IntStep \/ TstpStep
  <2>1. UNCHANGED listVars
    BY <1>4 DEF IntStep, TstpStep, IntEnter, IntKill, TstpEnter, TstpCheck, TstpKill, EnterWithFgpid,
       ForwardKill
  <2>2. ASSUME NEW h \in {"INT", "TSTP"}, NEW pc, EnterWithFgpid(h, pc)
        PROVE  InHand'
    <3>1. CASE UNCHANGED handlerVars
      BY <2>1, <3>1 DEF listVars, handlerVars, InHand
    <3>2. CASE fgpid(jobs) # 0 /\ Enter(h, pc, fgpid(jobs))
      <4>1. \E f \in Slots : jobs[f].state = "FG" /\ jobs[f].pid = fgpid(jobs)
        BY <3>2, FgpidFinds
      <4>2. \A i \in Slots : jobs[i].pid = fgpid(jobs) => jobs[i].state = "FG"
        BY <3>2, <4>1 DEF IInv, PidsUnique
      <4>3. hpid' = [hpid EXCEPT ![h] = fgpid(jobs)] /\ hpc' = [hpc EXCEPT ![h] = pc]
        BY <3>2 DEF Enter
      <4> QED BY <2>1, <4>2, <4>3 DEF InHand, listVars, IInv, TypeOK, Handlers
    <3> QED BY <2>2, <3>1, <3>2 DEF EnterWithFgpid
  <2>3. ASSUME NEW h \in {"INT", "TSTP"}, hpc[h] # "idle",
               \/ UNCHANGED handlerVars
               \/ Return(h)
               \/ \E pc : Goto(h, pc, hpid[h])
        PROVE  InHand'
    BY <2>1, <2>3, JobListAssumption DEF listVars, handlerVars, Return, Goto, InHand, IInv, TypeOK, Handlers
  <2>4. CASE IntEnter \/ TstpEnter
    BY <2>2, <2>4 DEF IntEnter, TstpEnter
  <2>5. CASE IntKill
    BY <2>3, <2>5 DEF IntKill, ForwardKill
  <2>6. CASE TstpCheck
    BY <2>3, <2>6 DEF TstpCheck
  <2>7. CASE TstpKill
    BY <2>3, <2>7 DEF TstpKill, ForwardKill
  <2> QED BY <1>4, <2>4, <2>5, <2>6, <2>7 DEF IntStep, TstpStep
<1>5. CASE UNCHANGED <<listVars, handlerVars>>
  BY <1>5 DEF listVars, handlerVars, InHand
<1>6. CASE Quit \/ Sigquit \/ Keyboard("INT") \/ Keyboard("TSTP") \/ UNCHANGED vars
  BY <1>5, <1>6 DEF Quit, Sigquit, Exit, Keyboard, vars
<1>7. CASE \E p \in Pids : Child(p)
  BY <1>5, <1>7, ChildKeeps DEF IInv
<1> QED BY <1>2, <1>3, <1>4, <1>6, <1>7 DEF Next

LEMMA InHandHolds == Spec => []InHand
<1>1. Init => InHand
  BY DEF Init, InHand, Handlers
<1> QED BY <1>1, InHandStep, IInvHolds, PTL DEF Spec

\* Between fgpid and its use the job that sigint_handler or sigtstp_handler has in
\* hand is never 0, which kill would take for the shell's own group; it stays in the
\* list and is the job the main flow waits for, unless it ends and is reaped: only
\* then does sigtstp_handler read job->state through NULL (tsh.c:450), and a kill that
\* comes to nothing (tsh.c:433) was meant for this job.
KeyHandlerHoldsJob ==
  \A h \in {"INT", "TSTP"} : hpc[h] # "idle" =>
    /\ hpid[h] \in Pids
    /\ \/ proc[hpid[h]] = "none"
       \/ /\ \E i \in Slots : Entry(i, hpid[h])
          /\ "staleWrite" \notin hist =>
               mpid = hpid[h] /\ (mpc = "waitfg" \/ (mpc = "unblock" /\ mstate = "FG"))

\* One step keeps it: the main flow does not run while a handler is active, and the
\* SIGCHLD handler deletes entries of reaped children only.
LEMMA KeyHandlerStep ==
  ASSUME IInv, FgInv, ForegroundAwaited, KeyHandlerHoldsJob, [Next]_vars
  PROVE  KeyHandlerHoldsJob'
<1>1. CASE MainRuns /\ UNCHANGED handlerVars
  BY <1>1 DEF MainRuns, handlerVars, IInv, HandlersIdle, Handlers, KeyHandlerHoldsJob
<1>2. CASE Commands \/ MainStep
  BY <1>1, <1>2 DEF Commands, MainStep, EvalBlock, BgFgLookup, EvalFork, EvalAddJob, EvalUnblock, WaitFg,
     BgFgCont, BgFgSetState
<1>3. CASE ChldStep
  <2>1. \A h \in {"INT", "TSTP"} : hpc'[h] = hpc[h] /\ hpid'[h] = hpid[h]
    BY <1>3 DEF ChldStep, ChldEnter, ChldWaitpid, ChldDelete, ChldStop, Enter, Goto, Return, IInv, TypeOK,
       Handlers
  <2>2. UNCHANGED <<mainVars, hist>>
    BY <1>3 DEF ChldStep, ChldEnter, ChldWaitpid, ChldDelete, ChldStop
  <2>3. \A p \in Pids : proc[p] = "none" => proc'[p] = "none"
    BY <1>3 DEF ChldStep, ChldEnter, ChldWaitpid, ChldDelete, ChldStop, kernelVars, IInv, TypeOK
  <2>4. \A i \in Slots : jobs'[i].pid # jobs[i].pid /\ jobs[i].pid \in Pids => proc'[jobs[i].pid] = "none"
    <3>1. CASE ChldEnter \/ ChldWaitpid
      BY <3>1 DEF ChldEnter, ChldWaitpid, listVars
    <3>2. CASE ChldDelete
      BY <2>3, <3>2, DeletedEntry
    <3>3. CASE ChldStop
      BY <3>3, StoppedEntry
    <3> QED BY <1>3, <3>1, <3>2, <3>3 DEF ChldStep
  <2> QED BY <2>1, <2>2, <2>3, <2>4 DEF KeyHandlerHoldsJob, Entry, mainVars
<1>4. CASE IntStep \/ TstpStep
  <2>1. UNCHANGED <<listVars, mainVars, proc, hist>>
    BY <1>4 DEF IntStep, TstpStep, IntEnter, IntKill, TstpEnter, TstpCheck, TstpKill, EnterWithFgpid,
       ForwardKill, kernelVars
  <2>2. ASSUME NEW h \in {"INT", "TSTP"}, NEW pc, EnterWithFgpid(h, pc)
        PROVE  KeyHandlerHoldsJob'
    <3>1. CASE UNCHANGED handlerVars
      BY <2>1, <3>1 DEF listVars, mainVars, handlerVars, KeyHandlerHoldsJob, Entry
    <3>2. CASE fgpid(jobs) # 0 /\ Enter(h, pc, fgpid(jobs))
      <4>1. PICK f \in Slots : jobs[f].state = "FG" /\ jobs[f].pid = fgpid(jobs)
        BY <3>2, FgpidFinds
      <4>4. fgpid(jobs) \in Pids
        BY <3>2, <4>1 DEF IInv, TypeOK, ListTypeOK
      <4>2. "staleWrite" \notin hist =>
              mpid = fgpid(jobs) /\ (mpc = "waitfg" \/ (mpc = "unblock" /\ mstate = "FG"))
        BY <4>1 DEF ForegroundAwaited, Entry
      <4>3. hpid' = [hpid EXCEPT ![h] = fgpid(jobs)] /\ hpc' = [hpc EXCEPT ![h] = pc]
        BY <3>2 DEF Enter
      <4> QED BY <2>1, <4>1, <4>2, <4>3, <4>4 DEF KeyHandlerHoldsJob, Entry, listVars, mainVars, IInv, TypeOK,
           Handlers
    <3> QED BY <2>2, <3>1, <3>2 DEF EnterWithFgpid
  <2>3. ASSUME NEW h \in {"INT", "TSTP"}, hpc[h] # "idle",
               \/ UNCHANGED handlerVars
               \/ Return(h)
               \/ \E pc : Goto(h, pc, hpid[h])
        PROVE  KeyHandlerHoldsJob'
    BY <2>1, <2>3 DEF listVars, mainVars, handlerVars, Return, Goto, KeyHandlerHoldsJob, Entry, IInv,
       TypeOK, Handlers
  <2>4. CASE IntEnter \/ TstpEnter
    BY <2>2, <2>4 DEF IntEnter, TstpEnter
  <2>5. CASE IntKill
    BY <2>3, <2>5 DEF IntKill, ForwardKill
  <2>6. CASE TstpCheck
    BY <2>3, <2>6 DEF TstpCheck
  <2>7. CASE TstpKill
    BY <2>3, <2>7 DEF TstpKill, ForwardKill
  <2> QED BY <1>4, <2>4, <2>5, <2>6, <2>7 DEF IntStep, TstpStep
<1>5. CASE UNCHANGED <<listVars, mainVars, handlerVars, hist>> /\ \A q \in Pids : proc'[q] = "none" <=> proc[q] = "none"
  BY <1>5 DEF listVars, mainVars, handlerVars, KeyHandlerHoldsJob, Entry
<1>6. CASE Quit \/ Sigquit \/ Keyboard("INT") \/ Keyboard("TSTP") \/ UNCHANGED vars
  BY <1>5, <1>6 DEF Quit, Sigquit, Exit, Keyboard, kernelVars, vars
<1>7. CASE \E p \in Pids : Child(p)
  BY <1>5, <1>7, ChildKeeps DEF IInv
<1> QED BY <1>2, <1>3, <1>4, <1>6, <1>7 DEF Next

\* A keyboard handler loses its job only when the job has been reaped; otherwise it
\* acts on the entry it found, and that is the job waitfg waits for (tsh.c:429-456).
THEOREM KeyHandlerHoldsJobHolds == Spec => []KeyHandlerHoldsJob
<1>1. Init => KeyHandlerHoldsJob
  BY DEF Init, KeyHandlerHoldsJob, Handlers
<1> QED BY <1>1, KeyHandlerStep, IInvHolds, FgInvHolds, ForegroundAwaitedHolds, PTL DEF Spec

\* One step of KeysArrive.  Only IntKill, TstpCheck and TstpKill make a keyboard
\* handler idle, and each has the job of KeyHandlerHoldsJob in hand.
LEMMA KeysArriveStep ==
  ASSUME IInv, KeyHandlerHoldsJob, [Next]_vars
  PROVE  /\ \A h \in {"INT", "TSTP"} :
              hpc[h] # "idle" /\ hpc'[h] = "idle" =>
                /\ \/ h \in pend'[hpid[h]]
                   \/ proc[hpid[h]] \in {"none", "forked", "zombie"}
                   \/ h = "TSTP" /\ \E i \in Slots : Entry(i, hpid[h]) /\ jobs[i].state = "ST"
                /\ proc[hpid[h]] # "none" /\ "staleWrite" \notin hist => mpid = hpid[h]
         /\ status = "running" /\ status' = "segv" =>
              hpc["TSTP"] = "check" /\ proc[hpid["TSTP"]] = "none"
<1> DEFINE Arrives(h) ==
      \/ h \in pend'[hpid[h]]
      \/ proc[hpid[h]] \in {"none", "forked", "zombie"}
      \/ h = "TSTP" /\ \E i \in Slots : Entry(i, hpid[h]) /\ jobs[i].state = "ST"
<1> DEFINE Good == /\ \A h \in {"INT", "TSTP"} : hpc[h] # "idle" /\ hpc'[h] = "idle" => Arrives(h)
                   /\ status = "running" /\ status' = "segv" =>
                        hpc["TSTP"] = "check" /\ proc[hpid["TSTP"]] = "none"
<1> HIDE DEF Arrives
<1> SUFFICES Good
  <2>1. \A h \in {"INT", "TSTP"} :
          hpc[h] # "idle" /\ proc[hpid[h]] # "none" /\ "staleWrite" \notin hist => mpid = hpid[h]
    BY DEF KeyHandlerHoldsJob
  <2> QED BY <2>1 DEF Arrives
<1>1. CASE /\ \A h \in {"INT", "TSTP"} : hpc'[h] = hpc[h]
           /\ status' \in {status, "exited"}
  BY <1>1
<1>2. CASE Commands \/ MainStep \/ Quit \/ Sigquit \/ Keyboard("INT") \/ Keyboard("TSTP") \/ UNCHANGED vars
  <2>1. UNCHANGED handlerVars /\ status' \in {status, "exited"}
    BY <1>2 DEF Commands, MainStep, EvalBlock, BgFgLookup, EvalFork, EvalAddJob, EvalUnblock, WaitFg,
       BgFgCont, BgFgSetState, Quit, Sigquit, Exit, Keyboard, vars
  <2> QED BY <1>1, <2>1 DEF handlerVars
<1>3. CASE ChldStep
  <2>1. \A h \in {"INT", "TSTP"} : hpc'[h] = hpc[h]
    BY <1>3 DEF ChldStep, ChldEnter, ChldWaitpid, ChldDelete, ChldStop, Enter, Goto, Return, IInv, TypeOK,
       Handlers
  <2>2. status' = status
    BY <1>3 DEF ChldStep, ChldEnter, ChldWaitpid, ChldDelete, ChldStop
  <2> QED BY <1>1, <2>1, <2>2
<1>4. CASE \E p \in Pids : Child(p)
  BY <1>1, <1>4, ChildKeeps DEF handlerVars, IInv
<1>5. ASSUME NEW g \in {"INT", "TSTP"}, NEW pc, pc # "idle", EnterWithFgpid(g, pc)
      PROVE  Good
  <2>1. status' = status /\ (UNCHANGED handlerVars \/ hpc' = [hpc EXCEPT ![g] = pc])
    BY <1>5 DEF EnterWithFgpid, Enter
  <2>2. \A h \in {"INT", "TSTP"} : hpc'[h] = hpc[h] \/ hpc'[h] # "idle"
    BY <1>5, <2>1 DEF handlerVars, IInv, TypeOK, Handlers
  <2> QED BY <2>1, <2>2
<1>6. ASSUME NEW g \in {"INT", "TSTP"}, ForwardKill(g)
      PROVE  Good
  <2>1. status' = status /\ hpc[g] # "idle" /\ KillGroup(hpid[g], g)
    BY <1>6 DEF ForwardKill
  <2>2. \A h \in {"INT", "TSTP"} : h # g => hpc'[h] = hpc[h]
    BY <1>6 DEF ForwardKill, Return, IInv, TypeOK
  <2>3. hpid[g] \in Pids
    BY <2>1 DEF KeyHandlerHoldsJob
  <2>4. Arrives(g)
    <3>1. CASE proc[hpid[g]] \in Live \ {"forked"}
      <4>1. pend' = [pend EXCEPT ![hpid[g]] = @ \cup {g}]
        BY <2>1, <2>3, <3>1 DEF KillGroup
      <4>2. g \in pend'[hpid[g]]
        BY <2>3, <4>1 DEF IInv, TypeOK
      <4> QED BY <4>2 DEF Arrives
    <3>2. CASE proc[hpid[g]] \notin Live \ {"forked"}
      <4>1. proc[hpid[g]] \in {"none", "forked", "zombie"}
        BY <2>3, <3>2 DEF IInv, TypeOK, Live
      <4> QED BY <4>1 DEF Arrives
    <3> QED BY <3>1, <3>2
  <2> QED BY <2>1, <2>2, <2>4
<1>7. CASE TstpCheck
  <2>1. /\ hpc["TSTP"] = "check" /\ hpc'["INT"] = hpc["INT"] /\ hpid["TSTP"] \in Pids
    BY <1>7 DEF TstpCheck, Return, Goto, handlerVars, IInv, TypeOK, KeyHandlerHoldsJob, Handlers
  <2> DEFINE found == getjobpid(jobs, hpid["TSTP"])
  <2>2. CASE found = NULL
    <3>1. proc[hpid["TSTP"]] = "none"
      BY <2>1, <2>2, GetjobpidFinds DEF KeyHandlerHoldsJob, Entry
    <3>2. Arrives("TSTP")
      BY <3>1 DEF Arrives
    <3> QED BY <2>1, <3>1, <3>2
  <2>3. CASE found # NULL
    <3>1. found \in Slots /\ Entry(found, hpid["TSTP"])
      BY <2>3, GetjobpidFinds DEF Entry
    <3>2. status' = status /\ (jobs[found].state = "ST" \/ hpc' = [hpc EXCEPT !["TSTP"] = "kill"])
      BY <1>7, <2>3 DEF TstpCheck, Goto
    <3>3. jobs[found].state = "ST" \/ hpc'["TSTP"] # "idle"
      BY <3>2 DEF IInv, TypeOK, Handlers
    <3>4. jobs[found].state = "ST" => Arrives("TSTP")
      BY <3>1 DEF Arrives
    <3> QED BY <2>1, <3>2, <3>3, <3>4
  <2> QED BY <2>2, <2>3
<1> QED
  BY <1>2, <1>3, <1>4, <1>5, <1>6, <1>7
     DEF Next, IntStep, TstpStep, IntEnter, IntKill, TstpEnter, TstpKill

\* ctrl-c and ctrl-z are lost, and the shell is ended by its own handlers, only as
\* KeysArrive says (tsh.c:429-456).
THEOREM KeysArriveHolds == Spec => KeysArrive
<1> QED BY KeysArriveStep, IInvHolds, KeyHandlerHoldsJobHolds, PTL DEF Spec, KeysArrive

\* Only a handler of the keyboard's signals sends a child one.
LEMMA SignalsBySteps ==
  ASSUME IInv, [Next]_vars, NEW p \in Pids, ~(pend'[p] \subseteq pend[p])
  PROVE  \E h \in {"INT", "TSTP"} : hpc[h] = "kill" /\ hpid[h] = p
<1>1. CASE UNCHANGED pend
  BY <1>1
<1>2. CASE BgFgCont
  BY <1>2 DEF BgFgCont, Continue, IInv, TypeOK
<1>3. ASSUME NEW q \in Pids, Child(q) PROVE FALSE
  BY <1>3 DEF Child, World, ChildSetpgid, ChildExecve, ChildExit, ChildKilled, ChildStopped, ChildCatches,
     ChildStopsItself, ChildContinued, ChildChanges, Continue, IInv, TypeOK
<1>4. ASSUME NEW h \in {"INT", "TSTP"}, ForwardKill(h)
      PROVE  \E g \in {"INT", "TSTP"} : hpc[g] = "kill" /\ hpid[g] = p
  BY <1>4 DEF ForwardKill, KillGroup, IInv, TypeOK
<1>5. \/ UNCHANGED pend \/ BgFgCont \/ \E q \in Pids : Child(q)
      \/ ForwardKill("INT") \/ ForwardKill("TSTP")
  BY DEF Next, Commands, MainStep, ChldStep, IntStep, TstpStep, EvalBlock, BgFgLookup, EvalFork, EvalAddJob,
     EvalUnblock, WaitFg, BgFgSetState, Quit, Sigquit, Exit, ChldEnter, ChldWaitpid, ChldDelete, ChldStop,
     IntEnter, IntKill, TstpEnter, TstpCheck, TstpKill, EnterWithFgpid, Keyboard, kernelVars, vars
<1> QED BY <1>1, <1>2, <1>3, <1>4, <1>5

\* ctrl-c and ctrl-z never reach a job that runs in the background, however the
\* handlers are nested and whatever becomes of the list between fgpid and kill
\* (tsh.c:428-437, tsh.c:445-457).
THEOREM NoSignalToBackgroundHolds == Spec => NoSignalToBackground
<1>1. ASSUME IInv, InHand, [Next]_vars, NEW p \in Pids, ~(pend'[p] \subseteq pend[p])
      PROVE  ~ \E i \in Slots : Entry(i, p) /\ jobs[i].state = "BG"
  BY <1>1, SignalsBySteps, JobListAssumption DEF InHand, Entry
<1>2. IInv /\ InHand /\ [Next]_vars =>
        [\A p \in Pids : ~(pend'[p] \subseteq pend[p]) =>
           ~ \E i \in Slots : Entry(i, p) /\ jobs[i].state = "BG"]_vars
  BY <1>1
<1> QED BY <1>2, IInvHolds, InHandHolds, PTL DEF Spec, NoSignalToBackground

-----------------------------------------------------------------------------
(* No wake-up is lost: the safety half of ZombiesReaped and WaitfgEnds.    *)

\* A child that has ended or stopped and has not been waited for.
Unreported(p) == proc[p] \in {"zombie", "stopping"}

\* sigchld_handler is at work or SIGCHLD is pending for it.
NoticeDue == "CHLD" \in sigs \/ hpc["CHLD"] # "idle"

\* As long as one child has something to report NoticeDue holds, however many of
\* them share one signal.
ChangesNoticed ==
  status = "running" => \A p \in Pids : Unreported(p) => NoticeDue

\* Nothing but eval keeps SIGCHLD out.
MaskOnlyInEval == masked => mpc \in {"fork", "addjob", "unblock"}

\* waitfg never waits for a change that nobody will make: while it spins its job
\* can still run, or the handler that will change the list is at work or about to
\* be called, unless do_bgfg wrote FG over the job's stop.
WaitfgNotForgotten ==
  status = "running" /\ mpc = "waitfg" /\ mpid = fgpid(jobs) =>
    \/ proc[mpid] \in Live \ {"stopping", "stopped"}
    \/ hpc["CHLD"] # "idle"
    \/ "CHLD" \in sigs /\ ~masked
    \/ proc[mpid] = "stopped" /\ "lostStop" \in hist

\* Only a child that changes becomes unreported, and the kernel says so.
LEMMA ChangeSignalled ==
  ASSUME IInv, [Next]_vars, NEW q \in Pids, proc'[q] \in {"zombie", "stopping"}
  PROVE  Unreported(q) \/ "CHLD" \in sigs'
<1> SUFFICES ASSUME ~Unreported(q), "CHLD" \notin sigs'
             PROVE  FALSE
  OBVIOUS
<1>1. proc'[q] # proc[q]
  BY DEF Unreported
<1>2. CASE \E p \in Pids : Child(p)
  BY <1>1, <1>2 DEF Child, World, ChildSetpgid, ChildExecve, ChildExit, ChildKilled, ChildStopped,
     ChildCatches, ChildStopsItself, ChildContinued, ChildChanges, Continue, IInv, TypeOK
<1>3. CASE EvalFork
  BY <1>1, <1>3 DEF EvalFork, IInv, TypeOK
<1>4. CASE BgFgCont
  BY <1>1, <1>4 DEF BgFgCont, Continue, IInv, TypeOK
<1>5. CASE ChldWaitpid
  BY <1>1, <1>5 DEF ChldWaitpid, IInv, TypeOK
<1>6. UNCHANGED proc \/ EvalFork \/ BgFgCont \/ ChldWaitpid \/ \E p \in Pids : Child(p)
  BY DEF Next, Commands, MainStep, ChldStep, IntStep, TstpStep, EvalBlock, BgFgLookup, EvalAddJob,
     EvalUnblock, WaitFg, BgFgSetState, Quit, Sigquit, Exit, ChldEnter, ChldDelete, ChldStop, IntEnter,
     IntKill, TstpEnter, TstpCheck, TstpKill, EnterWithFgpid, ForwardKill, Keyboard, kernelVars, vars
<1> QED BY <1>1, <1>2, <1>3, <1>4, <1>5, <1>6

\* SIGCHLD goes only to its handler, which ends only when nobody is unreported.
LEMMA NoticeKept ==
  ASSUME IInv, [Next]_vars, NoticeDue
  PROVE  NoticeDue' \/ \A q \in Pids : proc'[q] \notin {"zombie", "stopping"}
<1>1. CASE ChldEnter
  <2>1. hpc'["CHLD"] = "waitpid"
    BY <1>1 DEF ChldEnter, Enter, IInv, TypeOK, Handlers
  <2> QED BY <2>1 DEF NoticeDue
<1>2. CASE ChldWaitpid
  <2>1. CASE Return("CHLD") /\ UNCHANGED proc /\ \A p \in Pids : proc[p] \notin {"zombie", "stopping"}
    BY <2>1
  <2>2. CASE \E p \in Pids : Goto("CHLD", "delete", p) \/ Goto("CHLD", "stop", p)
    BY <2>2 DEF Goto, NoticeDue, IInv, TypeOK, Handlers
  <2> QED BY <1>2, <2>1, <2>2 DEF ChldWaitpid
<1>3. CASE ChldDelete \/ ChldStop
  BY <1>3 DEF ChldDelete, ChldStop, Goto, NoticeDue, IInv, TypeOK, Handlers
<1>4. CASE IntStep \/ TstpStep
  BY <1>4 DEF IntStep, TstpStep, IntEnter, IntKill, TstpEnter, TstpCheck, TstpKill, EnterWithFgpid,
     ForwardKill, Enter, Goto, Return, handlerVars, kernelVars, NoticeDue, IInv, TypeOK, Handlers
<1>5. CASE \E p \in Pids : Child(p)
  <2>1. UNCHANGED handlerVars
    BY <1>5, ChildKeeps DEF IInv
  <2>2. sigs \subseteq sigs'
    BY <1>5 DEF Child, ChildSetpgid, ChildExecve, ChildExit, ChildKilled, ChildStopped,
       ChildCatches, ChildStopsItself, ChildContinued, ChildChanges, Continue
  <2> QED BY <2>1, <2>2 DEF NoticeDue, handlerVars
<1>6. CASE Commands \/ MainStep \/ Quit \/ Sigquit \/ Keyboard("INT") \/ Keyboard("TSTP") \/ UNCHANGED vars
  BY <1>6 DEF Commands, MainStep, EvalBlock, BgFgLookup, EvalFork, EvalAddJob, EvalUnblock, WaitFg,
     BgFgCont, BgFgSetState, Continue, Quit, Sigquit, Exit, Keyboard, kernelVars, handlerVars, vars, NoticeDue
<1> QED BY <1>1, <1>2, <1>3, <1>4, <1>5, <1>6 DEF Next, ChldStep

\* The shell does not come back to life.
LEMMA StillRunning ==
  ASSUME IInv, [Next]_vars, status' = "running"
  PROVE  status = "running"
BY DEF Next, Commands, MainStep, ChldStep, IntStep, TstpStep, EvalBlock, BgFgLookup, EvalFork, EvalAddJob,
   EvalUnblock, WaitFg, BgFgCont, BgFgSetState, Quit, Sigquit, Exit, ChldEnter, ChldWaitpid, ChldDelete,
   ChldStop, IntEnter, IntKill, TstpEnter, TstpCheck, TstpKill, EnterWithFgpid, ForwardKill, Keyboard,
   Child, World, ChildSetpgid, ChildExecve, ChildExit, ChildKilled, ChildStopped, ChildCatches,
   ChildStopsItself, ChildContinued, MainRuns, HandlerRuns, Deliverable, vars

LEMMA ChangesNoticedStep ==
  ASSUME IInv, ChangesNoticed, [Next]_vars
  PROVE  ChangesNoticed'
<1> SUFFICES ASSUME status' = "running", NEW q \in Pids, proc'[q] \in {"zombie", "stopping"}
             PROVE  NoticeDue'
  BY DEF ChangesNoticed, Unreported
<1>1. CASE "CHLD" \in sigs'
  BY <1>1 DEF NoticeDue
<1>2. CASE Unreported(q)
  BY <1>2, StillRunning, NoticeKept DEF ChangesNoticed
<1> QED BY <1>1, <1>2, ChangeSignalled

LEMMA MaskOnlyInEvalStep ==
  ASSUME MaskOnlyInEval, [Next]_vars
  PROVE  MaskOnlyInEval'
<1>1. CASE \E p \in Pids : Child(p)
  BY <1>1 DEF Child, World, ChildSetpgid, ChildExecve, ChildExit, ChildKilled, ChildStopped, ChildCatches,
     ChildStopsItself, ChildContinued, mainVars, MaskOnlyInEval
<1>2. CASE Commands \/ MainStep
  BY <1>2 DEF Commands, MainStep, EvalBlock, BgFgLookup, EvalFork, EvalAddJob, EvalUnblock, WaitFg,
     BgFgCont, BgFgSetState, MainGoto, kernelVars, MaskOnlyInEval
<1>3. CASE Quit \/ Sigquit \/ ChldStep \/ IntStep \/ TstpStep \/ Keyboard("INT") \/ Keyboard("TSTP")
  BY <1>3 DEF Quit, Sigquit, Exit, ChldStep, ChldEnter, ChldWaitpid, ChldDelete, ChldStop, IntStep, TstpStep,
     IntEnter, IntKill, TstpEnter, TstpCheck, TstpKill, EnterWithFgpid, ForwardKill, Keyboard, kernelVars,
     mainVars, MaskOnlyInEval
<1>4. CASE UNCHANGED vars
  BY <1>4 DEF vars, kernelVars, mainVars, MaskOnlyInEval
<1> QED BY <1>1, <1>2, <1>3, <1>4 DEF Next

\* While a child has an end or a stop to report, SIGCHLD is pending or its handler is
\* in its loop, which takes every report there is (tsh.c:402); and the signal is kept
\* out only between eval's two calls of sigprocmask (tsh.c:182, tsh.c:201).
THEOREM NoWakeUpLost == Spec => [](ChangesNoticed /\ MaskOnlyInEval)
<1>1. Init => ChangesNoticed /\ MaskOnlyInEval
  BY DEF Init, ChangesNoticed, Unreported, MaskOnlyInEval
<1> QED BY <1>1, ChangesNoticedStep, MaskOnlyInEvalStep, IInvHolds, PTL DEF Spec

\* waitfg's loop (tsh.c:380) never waits for ever for want of a signal.
THEOREM WaitfgNotForgottenHolds == Spec => []WaitfgNotForgotten
<1>1. ASSUME IInv, FgInv, StopRecorded, ChangesNoticed, MaskOnlyInEval
      PROVE  WaitfgNotForgotten
  <2> SUFFICES ASSUME status = "running", mpc = "waitfg", mpid = fgpid(jobs),
                      hpc["CHLD"] = "idle", ~("CHLD" \in sigs /\ ~masked)
               PROVE  \/ proc[mpid] \in Live \ {"stopping", "stopped"}
                      \/ proc[mpid] = "stopped" /\ "lostStop" \in hist
    BY DEF WaitfgNotForgotten
  <2>1. ~masked /\ ~NoticeDue
    BY <1>1 DEF MaskOnlyInEval, NoticeDue
  <2>2. mpid # 0
    BY <1>1 DEF FgInv, AwaitedFG
  <2>3. PICK i \in Slots : jobs[i].state = "FG" /\ jobs[i].pid = mpid
    BY <2>2, FgpidFinds
  <2>4. mpid \in Pids /\ proc[mpid] \in ProcStates
    BY <1>1, <2>2, <2>3 DEF IInv, TypeOK, ListTypeOK
  <2>5. proc[mpid] # "none"
    BY <1>1, <2>2, <2>3 DEF IInv, EntriesLive
  <2>6. proc[mpid] \notin {"zombie", "stopping"}
    BY <1>1, <2>1, <2>4 DEF ChangesNoticed, Unreported
  <2>7. proc[mpid] = "stopped" => "lostStop" \in hist
    BY <1>1, <2>3, <2>4 DEF StopRecorded, Entry
  <2> QED BY <2>4, <2>5, <2>6, <2>7 DEF ProcStates, Live
<1> QED BY <1>1, IInvHolds, FgInvHolds, StopRecordedHolds, NoWakeUpLost, PTL

-----------------------------------------------------------------------------
(* The reference shell.                                                    *)

\* SIGCHLD stays out from before fork until after addjob.
RefMaskHeld ==
  mpc \in {"fork", "addjob", "addjid", "unblock"} => masked /\ level["CHLD"] = 0

\* sigint_handler deletes a job that it has sent SIGKILL to, unless the job has
\* ended by itself.
KilledDoomed ==
  /\ hpc["INT"] \in {"kill", "delete"} => hpid["INT"] \in Pids
  /\ hpc["INT"] = "delete" /\ proc[hpid["INT"]] \in Live => Doomed(hpid["INT"])

RefInv ==
  /\ RefTypeOK /\ HandlersIdle /\ RefMaskHeld /\ ChildIsNew /\ DeletedIsReaped
  /\ KilledDoomed /\ EntriesLive /\ PidsUnique

\* What the steps of the kernel and the children leave: no pid is freed or taken,
\* the dead stay dead and the doomed doomed.
Fates ==
  \A q \in Pids :
    /\ proc'[q] = "none" <=> proc[q] = "none"
    /\ proc'[q] \in Live => proc[q] \in Live
    /\ Doomed(q) /\ proc'[q] \in Live => Doomed(q)'

-----------------------------------------------------------------------------
(* The list.                                                               *)

RefListTyped ==
  jobs \in [Slots -> [pid : Pids \cup {0}, jid : Nat, state : States]] /\ nextjid \in Nat

\* One of the slots has the greatest number, also where none bounds the numbers.
LEMMA GreatestSlot ==
  ASSUME NEW js, \A i \in Slots : js[i].jid \in Nat
  PROVE  \E i \in Slots : \A k \in Slots : js[k].jid <= js[i].jid
<1> DEFINE Above(i) == {k \in Slots : js[k].jid > js[i].jid}
           T == {Above(i) : i \in Slots}
<1>1. IsWellFoundedOn(StrictSubsetOrdering(Slots), FiniteSubsetsOf(Slots))
  BY FS_StrictSubsetOrderingWellFounded
<1>2. T \subseteq FiniteSubsetsOf(Slots) /\ T # {}
  <2>1. IsFiniteSet(Slots)
    <3>1. 0 \in Int /\ MAXJOBS - 1 \in Int
      BY JobListAssumption
    <3> QED BY <3>1, FS_Interval DEF Slots
  <2>2. ASSUME NEW i \in Slots PROVE Above(i) \in SUBSET Slots /\ IsFiniteSet(Above(i))
    <3>1. Above(i) \in SUBSET Slots
      OBVIOUS
    <3> HIDE DEF Above
    <3> QED BY <2>1, <3>1, FS_Subset
  <2>3. 0 \in Slots
    BY JobListAssumption DEF Slots
  <2> HIDE DEF Above
  <2> QED BY <2>2, <2>3, Zenon DEF FiniteSubsetsOf
<1>3. PICK U \in T : \A V \in T : <<V, U>> \notin StrictSubsetOrdering(Slots)
  <2> HIDE DEF T
  <2> QED BY <1>1, <1>2, WFMin, Zenon
<1>4. PICK i \in Slots : U = Above(i)
  BY <1>3
<1>5. ASSUME NEW k \in Slots, js[k].jid > js[i].jid PROVE FALSE
  <2>1. Above(k) \subseteq Above(i) /\ Above(k) # Above(i)
    <3>1. k \in Above(i) /\ k \notin Above(k)
      BY <1>5
    <3> QED BY <1>5, <3>1
  <2>2. Above(k) \in T /\ Above(k) \in SUBSET Slots /\ Above(i) \in SUBSET Slots
    OBVIOUS
  <2> HIDE DEF T, Above
  <2>3. <<Above(k), Above(i)>> \in StrictSubsetOrdering(Slots)
    BY <2>1, <2>2 DEF StrictSubsetOrdering
  <2> QED BY <2>2, <2>3, <1>3, <1>4
<1> QED BY <1>5

LEMMA MaxjidNat ==
  ASSUME NEW js, \A i \in Slots : js[i].jid \in Nat
  PROVE  maxjid(js) \in Nat
<1> DEFINE jids == {0} \cup {js[i].jid : i \in Slots}
<1>1. PICK i \in Slots : \A k \in Slots : js[k].jid <= js[i].jid
  BY GreatestSlot
<1>2. js[i].jid \in jids /\ \A j \in jids : j <= js[i].jid
  BY <1>1
<1>3. jids \in SUBSET Nat
  OBVIOUS
<1>4. maxjid(js) \in jids
  <2> HIDE DEF jids
  <2>1. maxjid(js) = CHOOSE m \in jids : \A j \in jids : j <= m
    BY DEF maxjid, jids
  <2> QED BY <1>2, <2>1
<1> QED BY <1>3, <1>4

\* deletejob leaves the list alone or clears one entry that held the pid.
LEMMA RefDelete ==
  ASSUME RefListTyped, NEW p, DeleteJob(p)
  PROVE  /\ RefListTyped'
         /\ \/ UNCHANGED jobs /\ (p \in Pids => \A i \in Slots : jobs[i].pid # p)
            \/ \E d \in Slots : /\ p \in Pids /\ jobs[d].pid = p
                                /\ jobs'[d].pid = 0 /\ jobs'[d].state = "UNDEF"
                                /\ \A k \in Slots \ {d} : jobs'[k] = jobs[k]
<1> DEFINE d == getjobpid(jobs, p)
<1>1. CASE d = NULL
  BY <1>1, GetjobpidFinds DEF DeleteJob, listVars, RefListTyped
<1>2. CASE d # NULL
  <2>1. d \in Slots /\ p \in Pids /\ jobs[d].pid = p
    BY <1>2, GetjobpidFinds
  <2>2. jobs' = [jobs EXCEPT ![d] = EmptyJob] /\ nextjid' = maxjid(jobs') + 1
    BY <1>2 DEF DeleteJob
  <2> HIDE DEF d
  <2>3. EmptyJob \in [pid : Pids \cup {0}, jid : Nat, state : States]
    BY DEF EmptyJob, States
  <2>4. jobs' \in [Slots -> [pid : Pids \cup {0}, jid : Nat, state : States]]
    BY <2>2, <2>3 DEF RefListTyped
  <2>5. nextjid' \in Nat
    <3>1. \A i \in Slots : jobs'[i].jid \in Nat
      BY <2>4
    <3>2. maxjid(jobs') \in Nat
      BY <3>1, MaxjidNat
    <3> QED BY <2>2, <3>2
  <2>6. jobs'[d] = EmptyJob /\ \A k \in Slots \ {d} : jobs'[k] = jobs[k]
    BY <2>1, <2>2 DEF RefListTyped
  <2> QED BY <2>1, <2>4, <2>5, <2>6 DEF RefListTyped, EmptyJob
<1> QED BY <1>1, <1>2

\* A write of a state changes nothing else, and nothing at all outside the array.
LEMMA RefWrite ==
  ASSUME RefListTyped, NEW i, NEW s \in States, SetState(i, s)
  PROVE  /\ RefListTyped'
         /\ \A k \in Slots : /\ jobs'[k].pid = jobs[k].pid
                             /\ jobs'[k].state = IF k = i THEN s ELSE jobs[k].state
BY DEF RefListTyped, SetState

-----------------------------------------------------------------------------
(* RefInv holds at the start and is preserved by every step.               *)

LEMMA RefInitInv == Init => RefInv
<1> SUFFICES ASSUME Init PROVE RefInv
  OBVIOUS
<1>1. \A i \in Slots : jobs[i].pid = 0
  BY DEF Init, ListInit, EmptyJob
<1>2. RefTypeOK
  BY JobListAssumption DEF Init, ListInit, EmptyJob, States, RefTypeOK, ProcStates, Handlers, NULL,
     FORK_FAILED, Mishaps
<1> QED BY <1>1, <1>2 DEF Init, RefInv, HandlersIdle, RefMaskHeld, ChildIsNew, DeletedIsReaped,
     KilledDoomed, EntriesLive, PidsUnique, Handlers

\* While the main flow runs no handler is at work.
LEMMA RefMainAlone ==
  ASSUME RefInv, MainRuns
  PROVE  \A h \in Handlers : level[h] = 0 /\ hpc[h] = "idle"
BY DEF RefInv, MainRuns, HandlersIdle

\* A step that leaves the list, the main flow and the SIGCHLD handler alone and
\* frees no pid has only the types and the other handlers to look after.
LEMMA RefElsewhere ==
  ASSUME RefInv, RefTypeOK', HandlersIdle', KilledDoomed',
         UNCHANGED <<listVars, masked, mainVars>>,
         level'["CHLD"] = level["CHLD"], hpc'["CHLD"] = hpc["CHLD"],
         hpid'["CHLD"] = hpid["CHLD"],
         \A q \in Pids : proc'[q] = "none" <=> proc[q] = "none"
  PROVE  RefInv'
<1>1. RefMaskHeld' /\ PidsUnique'
  BY DEF RefInv, listVars, mainVars, RefMaskHeld, PidsUnique
<1>2. ChildIsNew' /\ DeletedIsReaped'
  BY DEF RefInv, listVars, mainVars, ChildIsNew, DeletedIsReaped
<1>3. EntriesLive'
  BY DEF RefInv, RefTypeOK, listVars, EntriesLive
<1> QED BY <1>1, <1>2, <1>3 DEF RefInv

LEMMA RefEvalBlock ==
  ASSUME RefInv, NEW s \in {"FG", "BG"}, EvalBlock(s)
  PROVE  RefInv'
<1>1. RefTypeOK'
  BY DEF RefInv, RefTypeOK, EvalBlock, listVars, handlerVars
<1>2. level["CHLD"] = 0
  BY RefMainAlone DEF EvalBlock, Handlers
<1>3. KilledDoomed'
  BY DEF RefInv, EvalBlock, handlerVars, KilledDoomed, Doomed
<1> QED BY <1>1, <1>2, <1>3 DEF RefInv, EvalBlock, listVars, handlerVars, HandlersIdle, RefMaskHeld,
     ChildIsNew, DeletedIsReaped, EntriesLive, PidsUnique

LEMMA RefEvalFork ==
  ASSUME RefInv, EvalFork
  PROVE  RefInv'
<1>1. \A h \in Handlers : level[h] = 0 /\ hpc[h] = "idle"
  BY RefMainAlone DEF EvalFork
<1>2. RefTypeOK'
  BY DEF RefInv, RefTypeOK, EvalFork, listVars, handlerVars, ProcStates
<1>3. HandlersIdle' /\ RefMaskHeld' /\ DeletedIsReaped' /\ KilledDoomed' /\ PidsUnique'
  BY <1>1 DEF RefInv, EvalFork, listVars, handlerVars, HandlersIdle, RefMaskHeld, DeletedIsReaped,
     KilledDoomed, PidsUnique, Handlers
<1>4. EntriesLive'
  BY <1>1 DEF RefInv, RefTypeOK, EvalFork, listVars, handlerVars, EntriesLive, Handlers
<1>5. ChildIsNew'
  BY <1>1, JobListAssumption
     DEF RefInv, RefTypeOK, EvalFork, listVars, handlerVars, EntriesLive, ChildIsNew, FORK_FAILED, Handlers
<1> QED BY <1>2, <1>3, <1>4, <1>5 DEF RefInv

\* The slot that addjob fills was free.
LEMMA RefAddsEntry ==
  ASSUME RefTypeOK, RefAddEntry, mpid \in Pids, FreeSlots(jobs) # {}
  PROVE  /\ mslot' \in Slots /\ jobs[mslot'].pid = 0
         /\ jobs'[mslot'].pid = mpid /\ jobs'[mslot'].state = mstate
         /\ \A k \in Slots \ {mslot'} : jobs'[k] = jobs[k]
         /\ mpc' = "addjid" /\ UNCHANGED <<nextjid, hist, mpid, mstate>>
         /\ RefListTyped'
<1>1. mslot' \in Slots /\ jobs[mslot'].pid = 0
  BY FirstIsLeast DEF RefAddEntry, FreeSlots
<1>2. jobs' = [jobs EXCEPT ![mslot'] = [pid |-> mpid, jid |-> 0, state |-> mstate]]
  BY DEF RefAddEntry
<1>3. [pid |-> mpid, jid |-> 0, state |-> mstate] \in [pid : Pids \cup {0}, jid : Nat, state : States]
  BY DEF RefTypeOK, States
<1>4. mpc' = "addjid" /\ UNCHANGED <<nextjid, hist, mpid, mstate>>
  BY DEF RefAddEntry
<1>5. RefListTyped'
  BY <1>2, <1>3, <1>4 DEF RefTypeOK, RefListTyped
<1> QED BY <1>1, <1>2, <1>4, <1>5 DEF RefTypeOK

LEMMA RefAddEntryStep ==
  ASSUME RefInv, RefAddEntry
  PROVE  RefInv'
<1>1. \A h \in Handlers : level[h] = 0 /\ hpc[h] = "idle"
  BY RefMainAlone DEF RefAddEntry
<1>2. UNCHANGED <<nextjid, kernelVars, handlerVars, mpid, mstate, status>> /\ mpc = "addjob"
  BY DEF RefAddEntry
<1>3. CASE mpid \in Pids /\ FreeSlots(jobs) # {}
  <2>1. /\ mslot' \in Slots /\ jobs'[mslot'].pid = mpid
        /\ \A k \in Slots \ {mslot'} : jobs'[k] = jobs[k]
        /\ mpc' = "addjid" /\ UNCHANGED hist /\ RefListTyped'
    BY <1>3, RefAddsEntry DEF RefInv
  <2>2. RefTypeOK'
    BY <1>2, <2>1 DEF RefInv, RefTypeOK, RefListTyped, kernelVars, handlerVars
  <2>3. HandlersIdle' /\ RefMaskHeld' /\ ChildIsNew' /\ DeletedIsReaped' /\ KilledDoomed'
    BY <1>1, <1>2, <2>1 DEF RefInv, kernelVars, handlerVars, HandlersIdle, RefMaskHeld, ChildIsNew,
       DeletedIsReaped, KilledDoomed, Handlers
  <2>4. proc[mpid] # "none" /\ \A i \in Slots : jobs[i].pid # mpid
    BY <1>2, <1>3 DEF RefInv, ChildIsNew
  <2>5. EntriesLive' /\ PidsUnique'
    BY <1>2, <2>1, <2>4 DEF RefInv, kernelVars, handlerVars, EntriesLive, PidsUnique
  <2> QED BY <2>2, <2>3, <2>5 DEF RefInv
<1>4. CASE ~(mpid \in Pids /\ FreeSlots(jobs) # {})
  <2>1. UNCHANGED <<jobs, mslot>> /\ mpc' = "unblock" /\ hist' \in {hist, hist \cup {"untracked"}}
    BY <1>4 DEF RefAddEntry
  <2>2. RefTypeOK'
    BY <1>2, <2>1 DEF RefInv, RefTypeOK, kernelVars, handlerVars, Mishaps
  <2> QED BY <1>1, <1>2, <2>1, <2>2 DEF RefInv, kernelVars, handlerVars, HandlersIdle, RefMaskHeld,
       ChildIsNew, DeletedIsReaped, KilledDoomed, EntriesLive, PidsUnique, Handlers
<1> QED BY <1>3, <1>4

LEMMA RefAddJidStep ==
  ASSUME RefInv, RefAddJid
  PROVE  RefInv'
<1>1. \A h \in Handlers : level[h] = 0 /\ hpc[h] = "idle"
  BY RefMainAlone DEF RefAddJid
<1>2. /\ UNCHANGED <<kernelVars, handlerVars, mpid, mstate, status, hist>> /\ mpc = "addjid"
      /\ mpc' = "unblock" /\ mslot' = NULL
      /\ jobs' = [jobs EXCEPT ![mslot].jid = nextjid]
  BY DEF RefAddJid
<1>3. nextjid' \in Nat
  BY DEF RefAddJid, RefInv, RefTypeOK
<1>4. \A k \in Slots : jobs'[k].pid = jobs[k].pid
  BY <1>2 DEF RefInv, RefTypeOK
<1>5. RefTypeOK'
  <2>1. jobs' \in [Slots -> [pid : Pids \cup {0}, jid : Nat, state : States]]
    <3>1. nextjid \in Nat /\ jobs \in [Slots -> [pid : Pids \cup {0}, jid : Nat, state : States]]
      BY DEF RefInv, RefTypeOK
    <3> QED BY <1>2, <3>1
  <2> QED BY <1>2, <1>3, <2>1 DEF RefInv, RefTypeOK, kernelVars, handlerVars
<1> QED BY <1>1, <1>2, <1>4, <1>5 DEF RefInv, kernelVars, handlerVars, HandlersIdle, RefMaskHeld,
     ChildIsNew, DeletedIsReaped, KilledDoomed, EntriesLive, PidsUnique, Handlers

LEMMA RefEvalUnblock ==
  ASSUME RefInv, EvalUnblock
  PROVE  RefInv'
<1>1. RefTypeOK'
  BY DEF RefInv, RefTypeOK, EvalUnblock, listVars, handlerVars, ToPrompt, MainGoto
<1>2. KilledDoomed'
  BY DEF RefInv, EvalUnblock, handlerVars, KilledDoomed, Doomed
<1> QED BY <1>1, <1>2 DEF RefInv, EvalUnblock, listVars, handlerVars, ToPrompt, MainGoto, HandlersIdle,
     RefMaskHeld, ChildIsNew, DeletedIsReaped, EntriesLive, PidsUnique

LEMMA RefWaitFg ==
  ASSUME RefInv, WaitFg
  PROVE  RefInv'
<1>1. RefTypeOK'
  BY DEF RefInv, RefTypeOK, WaitFg, listVars, kernelVars, handlerVars, ToPrompt
<1>2. KilledDoomed'
  BY DEF RefInv, WaitFg, kernelVars, handlerVars, KilledDoomed, Doomed
<1> QED BY <1>1, <1>2 DEF RefInv, WaitFg, listVars, kernelVars, handlerVars, ToPrompt, HandlersIdle,
     RefMaskHeld, ChildIsNew, DeletedIsReaped, EntriesLive, PidsUnique

LEMMA RefBgFgLookup ==
  ASSUME RefInv, NEW s \in {"FG", "BG"}, BgFgLookup(s)
  PROVE  RefInv'
<1>1. \A p : getjobpid(jobs, p) \in Slots \cup {NULL}
  BY GetjobpidFinds
<1>2. RefTypeOK'
  BY <1>1 DEF RefInv, RefTypeOK, BgFgLookup, listVars, kernelVars, handlerVars
<1>3. KilledDoomed'
  BY DEF RefInv, BgFgLookup, kernelVars, handlerVars, KilledDoomed, Doomed
<1> QED BY <1>2, <1>3 DEF RefInv, BgFgLookup, listVars, kernelVars, handlerVars, HandlersIdle,
     RefMaskHeld, ChildIsNew, DeletedIsReaped, EntriesLive, PidsUnique

LEMMA RefContinue ==
  ASSUME RefTypeOK, NEW p \in Pids \cup {0, FORK_FAILED}, Continue(p)
  PROVE  /\ proc' \in [Pids -> ProcStates] /\ pend' \in [Pids -> SUBSET {"INT", "TSTP", "KILL"}]
         /\ sigs' \in SUBSET Handlers
         /\ Fates
<1>1. pend' \in [Pids -> SUBSET {"INT", "TSTP", "KILL"}]
  BY DEF RefTypeOK, Continue
<1>2. sigs' \in SUBSET Handlers
  BY DEF RefTypeOK, Continue, Handlers
<1>3. proc' \in [Pids -> ProcStates]
  BY DEF RefTypeOK, Continue, ProcStates
<1>4. \A q \in Pids : /\ proc'[q] = "none" <=> proc[q] = "none"
                      /\ proc'[q] \in Live => proc[q] \in Live
  BY DEF RefTypeOK, Continue, Live, ProcStates
<1>5. \A q \in Pids : "KILL" \in pend[q] => "KILL" \in pend'[q]
  BY DEF RefTypeOK, Continue
<1> QED BY <1>1, <1>2, <1>3, <1>4, <1>5 DEF Fates, Doomed

LEMMA RefBgFgCont ==
  ASSUME RefInv, BgFgCont
  PROVE  RefInv'
<1>1. /\ proc' \in [Pids -> ProcStates] /\ pend' \in [Pids -> SUBSET {"INT", "TSTP", "KILL"}]
      /\ sigs' \in SUBSET Handlers /\ Fates
  BY RefContinue DEF RefInv, RefTypeOK, BgFgCont
<1>2. RefTypeOK'
  BY <1>1 DEF RefInv, RefTypeOK, BgFgCont, listVars, handlerVars, MainGoto
<1>3. \A q \in Pids : proc'[q] = "none" <=> proc[q] = "none"
  BY <1>1 DEF Fates
<1>4. EntriesLive' /\ DeletedIsReaped'
  BY <1>3 DEF RefInv, RefTypeOK, BgFgCont, listVars, handlerVars, MainGoto, EntriesLive, DeletedIsReaped
<1>5. KilledDoomed'
  BY <1>1 DEF RefInv, BgFgCont, handlerVars, KilledDoomed, Fates
<1> QED BY <1>2, <1>4, <1>5 DEF RefInv, BgFgCont, listVars, handlerVars, MainGoto, HandlersIdle,
     RefMaskHeld, ChildIsNew, PidsUnique

LEMMA RefBgFgSetState ==
  ASSUME RefInv, BgFgSetState
  PROVE  RefInv'
<1>1. RefListTyped' /\ \A k \in Slots : jobs'[k].pid = jobs[k].pid
  BY RefWrite DEF RefInv, RefTypeOK, RefListTyped, BgFgSetState, States
<1>2. hist' \in SUBSET Mishaps
  BY DEF RefInv, RefTypeOK, BgFgSetState, Mishaps
<1>3. RefTypeOK'
  BY <1>1, <1>2 DEF RefInv, RefTypeOK, RefListTyped, BgFgSetState, kernelVars, handlerVars, ToPrompt,
     MainGoto
<1>4. KilledDoomed'
  BY DEF RefInv, BgFgSetState, kernelVars, handlerVars, KilledDoomed, Doomed
<1> QED BY <1>1, <1>3, <1>4 DEF RefInv, BgFgSetState, kernelVars, handlerVars, ToPrompt, MainGoto,
     HandlersIdle, RefMaskHeld, ChildIsNew, DeletedIsReaped, EntriesLive, PidsUnique

LEMMA RefLeaveStep ==
  ASSUME RefInv, RefLeave
  PROVE  RefInv'
<1>1. status' = "exited" /\ UNCHANGED <<listVars, kernelVars, handlerVars, mainVars, hist>>
  BY DEF RefLeave, Quit, Sigquit, Exit
<1>2. RefTypeOK'
  BY <1>1 DEF RefInv, RefTypeOK, listVars, kernelVars, handlerVars, mainVars
<1>3. HandlersIdle' /\ KilledDoomed'
  BY <1>1 DEF RefInv, kernelVars, handlerVars, HandlersIdle, KilledDoomed, Doomed
<1> QED BY <1>1, <1>2, <1>3, RefElsewhere DEF kernelVars, handlerVars

LEMMA RefChldEnter ==
  ASSUME RefInv, ChldEnter
  PROVE  RefInv'
<1>1. level' \in [Handlers -> Nat] /\ level'["CHLD"] # 0
  BY EnterLevels DEF RefInv, RefTypeOK, ChldEnter, Handlers
<1>2. RefTypeOK'
  BY <1>1 DEF RefInv, RefTypeOK, ChldEnter, Enter, listVars, mainVars
<1>3. ~masked
  BY DEF ChldEnter, Deliverable
<1>4. /\ \A g \in Handlers \ {"CHLD"} :
           level'[g] = level[g] /\ hpc'[g] = hpc[g] /\ hpid'[g] = hpid[g]
      /\ hpc["CHLD"] = "idle" /\ hpc'["CHLD"] = "waitpid"
  BY DEF RefInv, RefTypeOK, HandlersIdle, ChldEnter, Deliverable, Enter, Handlers
<1>5. HandlersIdle'
  BY <1>1, <1>4 DEF RefInv, HandlersIdle
<1>6. KilledDoomed'
  BY <1>4 DEF RefInv, ChldEnter, KilledDoomed, Doomed, Handlers
<1>7. RefMaskHeld'
  BY <1>3 DEF RefInv, RefMaskHeld, ChldEnter, mainVars
<1> QED BY <1>2, <1>4, <1>5, <1>6, <1>7 DEF RefInv, ChldEnter, listVars, mainVars, ChildIsNew,
     DeletedIsReaped, EntriesLive, PidsUnique

\* A step of the SIGCHLD handler from one place to another: what its other effects
\* have to keep.
LEMMA RefChldGoes ==
  ASSUME RefInv, NEW pc \in {"waitpid", "delete", "stop", "mark"}, NEW p \in Pids \cup {0} \cup Slots,
         HandlerRuns("CHLD"), Goto("CHLD", pc, p), UNCHANGED <<pend, sigs, masked, mainVars>>,
         RefListTyped', proc' \in [Pids -> ProcStates],
         hist' = hist, status' \in {"running", "exited", "segv", "error"},
         \A q \in Pids : proc'[q] \in Live => proc[q] \in Live
  PROVE  /\ RefTypeOK' /\ HandlersIdle' /\ RefMaskHeld' /\ ChildIsNew' /\ KilledDoomed'
         /\ hpc'["CHLD"] = pc /\ hpid'["CHLD"] = p
<1>1. hpc' = [hpc EXCEPT !["CHLD"] = pc] /\ hpid' = [hpid EXCEPT !["CHLD"] = p] /\ level' = level
  BY DEF Goto
<1>2. level["CHLD"] # 0
  BY DEF HandlerRuns
<1>3. hpc' \in [Handlers -> {"idle", "waitpid", "delete", "stop", "kill", "lookup", "mark"}]
  BY <1>1 DEF RefInv, RefTypeOK
<1>4. hpid' \in [Handlers -> Pids \cup {0} \cup Slots]
  BY <1>1 DEF RefInv, RefTypeOK
<1>5. RefTypeOK'
  BY <1>1, <1>3, <1>4 DEF RefInv, RefTypeOK, RefListTyped, mainVars
<1>6. /\ hpc'["CHLD"] = pc /\ hpid'["CHLD"] = p
      /\ hpc'["INT"] = hpc["INT"] /\ hpid'["INT"] = hpid["INT"]
      /\ hpc'["TSTP"] = hpc["TSTP"]
  BY <1>1 DEF RefInv, RefTypeOK, Handlers
<1>7. HandlersIdle'
  BY <1>1, <1>2, <1>6 DEF RefInv, HandlersIdle, Handlers
<1>8. RefMaskHeld' /\ ChildIsNew'
  BY <1>1, <1>2 DEF RefInv, RefMaskHeld, ChildIsNew, mainVars
<1>9. KilledDoomed'
  BY <1>6 DEF RefInv, KilledDoomed, Doomed
<1> QED BY <1>5, <1>6, <1>7, <1>8, <1>9

LEMMA RefChldWaitpidStep ==
  ASSUME RefInv, RefChldWaitpid
  PROVE  RefInv'
<1>1. HandlerRuns("CHLD") /\ level["CHLD"] # 0 /\ hpc["CHLD"] = "waitpid"
  BY DEF RefChldWaitpid, HandlerRuns
<1>2. /\ UNCHANGED <<listVars, pend, sigs, masked, mainVars, status, hist>>
      /\ RefListTyped' /\ status' \in {"running", "exited", "segv", "error"}
  BY DEF RefChldWaitpid, RefInv, RefTypeOK, RefListTyped, listVars
<1>3. ASSUME NEW p \in Pids, proc[p] = "zombie", proc' = [proc EXCEPT ![p] = "none"],
             Goto("CHLD", "delete", p)
      PROVE  RefInv'
  <2>1. /\ proc' \in [Pids -> ProcStates]
        /\ \A q \in Pids : /\ proc'[q] \in Live => proc[q] \in Live
                           /\ proc'[q] = IF q = p THEN "none" ELSE proc[q]
    BY <1>3 DEF RefInv, RefTypeOK, ProcStates, Live
  <2>2. /\ RefTypeOK' /\ HandlersIdle' /\ RefMaskHeld' /\ ChildIsNew' /\ KilledDoomed'
        /\ hpc'["CHLD"] = "delete" /\ hpid'["CHLD"] = p
    BY <1>1, <1>2, <1>3, <2>1, RefChldGoes
  <2>3. EntriesLive' /\ DeletedIsReaped'
    BY <1>1, <1>2, <2>1, <2>2 DEF RefInv, RefTypeOK, listVars, EntriesLive, DeletedIsReaped
  <2> QED BY <1>2, <2>2, <2>3 DEF RefInv, listVars, PidsUnique
<1>4. ASSUME NEW p \in Pids, proc[p] = "stopping", proc' = [proc EXCEPT ![p] = "stopped"],
             Goto("CHLD", "stop", p)
      PROVE  RefInv'
  <2>1. /\ proc' \in [Pids -> ProcStates]
        /\ \A q \in Pids : /\ proc'[q] \in Live => proc[q] \in Live
                           /\ proc'[q] = "none" <=> proc[q] = "none"
    BY <1>4 DEF RefInv, RefTypeOK, ProcStates, Live
  <2>2. /\ RefTypeOK' /\ HandlersIdle' /\ RefMaskHeld' /\ ChildIsNew' /\ KilledDoomed'
        /\ hpc'["CHLD"] = "stop"
    BY <1>1, <1>2, <1>4, <2>1, RefChldGoes
  <2>3. EntriesLive' /\ DeletedIsReaped'
    BY <1>1, <1>2, <2>1, <2>2 DEF RefInv, RefTypeOK, listVars, EntriesLive, DeletedIsReaped
  <2> QED BY <1>2, <2>2, <2>3 DEF RefInv, listVars, PidsUnique
<1>5. ASSUME Return("CHLD"), UNCHANGED proc
      PROVE  RefInv'
  <2>1. RefTypeOK'
    BY <1>2, <1>5 DEF RefInv, RefTypeOK, listVars, mainVars, Return, Handlers
  <2>2. /\ hpc'["CHLD"] = "idle" /\ level'["CHLD"] = 0
        /\ \A g \in Handlers \ {"CHLD"} :
             level'[g] = level[g] /\ hpc'[g] = hpc[g] /\ hpid'[g] = hpid[g]
    BY <1>5 DEF RefInv, RefTypeOK, Return, Handlers
  <2>3. HandlersIdle' /\ KilledDoomed'
    BY <1>2, <1>5, <2>2 DEF RefInv, HandlersIdle, KilledDoomed, Doomed, Handlers
  <2>4. EntriesLive' /\ DeletedIsReaped' /\ ChildIsNew' /\ RefMaskHeld'
    BY <1>1, <1>2, <1>5, <2>2 DEF RefInv, listVars, mainVars, EntriesLive, DeletedIsReaped, ChildIsNew,
       RefMaskHeld
  <2> QED BY <1>2, <2>1, <2>3, <2>4 DEF RefInv, listVars, PidsUnique
<1> QED BY <1>3, <1>4, <1>5 DEF RefChldWaitpid

\* Deleting the entry of one pid: no other entry is touched.
LEMMA RefDeletedKeeps ==
  ASSUME RefListTyped, PidsUnique, NEW p \in Pids, DeleteJob(p)
  PROVE  /\ RefListTyped' /\ PidsUnique'
         /\ \A i \in Slots : \/ jobs'[i] = jobs[i] /\ jobs[i].pid # p
                             \/ jobs'[i].pid = 0 /\ jobs'[i].state = "UNDEF" /\ jobs[i].pid = p
<1>1. p # 0
  BY JobListAssumption
<1>2. CASE UNCHANGED jobs /\ \A i \in Slots : jobs[i].pid # p
  BY <1>2, RefDelete DEF PidsUnique
<1>3. ASSUME NEW d \in Slots, jobs[d].pid = p, jobs'[d].pid = 0, jobs'[d].state = "UNDEF",
             \A k \in Slots \ {d} : jobs'[k] = jobs[k]
      PROVE  /\ PidsUnique'
             /\ \A i \in Slots : \/ jobs'[i] = jobs[i] /\ jobs[i].pid # p
                                 \/ jobs'[i].pid = 0 /\ jobs'[i].state = "UNDEF" /\ jobs[i].pid = p
  <2>1. \A i \in Slots \ {d} : jobs[i].pid # p
    BY <1>1, <1>3 DEF PidsUnique
  <2> QED BY <1>3, <2>1 DEF PidsUnique
<1> QED BY <1>2, <1>3, RefDelete

LEMMA RefChldDeleteStep ==
  ASSUME RefInv, ChldDelete
  PROVE  RefInv'
<1> DEFINE p == hpid["CHLD"]
<1>1. HandlerRuns("CHLD") /\ level["CHLD"] # 0 /\ hpc["CHLD"] = "delete" /\ DeleteJob(p)
  BY DEF ChldDelete, HandlerRuns
<1>2. p \in Pids /\ proc[p] = "none"
  BY <1>1 DEF RefInv, DeletedIsReaped
<1>3. UNCHANGED <<kernelVars, mainVars, status, hist>> /\ Goto("CHLD", "waitpid", 0)
  BY DEF ChldDelete
<1>4. /\ RefListTyped' /\ PidsUnique'
      /\ \A i \in Slots : \/ jobs'[i] = jobs[i] /\ jobs[i].pid # p
                          \/ jobs'[i].pid = 0
  BY <1>1, <1>2, RefDeletedKeeps DEF RefInv, RefTypeOK, RefListTyped
<1>5. /\ RefTypeOK' /\ HandlersIdle' /\ RefMaskHeld' /\ ChildIsNew' /\ KilledDoomed'
      /\ hpc'["CHLD"] = "waitpid"
  BY <1>1, <1>3, <1>4, RefChldGoes DEF kernelVars, RefInv, RefTypeOK
<1>6. EntriesLive' /\ DeletedIsReaped'
  BY <1>3, <1>4, <1>5 DEF RefInv, kernelVars, EntriesLive, DeletedIsReaped
<1> QED BY <1>4, <1>5, <1>6 DEF RefInv

LEMMA RefChldStopStep ==
  ASSUME RefInv, RefChldStop
  PROVE  RefInv'
<1>1. HandlerRuns("CHLD") /\ level["CHLD"] # 0 /\ hpc["CHLD"] = "stop"
  BY DEF RefChldStop, HandlerRuns
<1>2. UNCHANGED <<listVars, kernelVars, mainVars, hist>>
  BY DEF RefChldStop
<1>3. CASE ErrorExit
  <2>1. status' = "error" /\ UNCHANGED handlerVars
    BY <1>3 DEF ErrorExit
  <2>2. RefTypeOK' /\ HandlersIdle' /\ KilledDoomed'
    BY <1>2, <2>1 DEF RefInv, RefTypeOK, listVars, kernelVars, handlerVars, mainVars, HandlersIdle,
       KilledDoomed, Doomed
  <2> QED BY <1>2, <2>1, <2>2, RefElsewhere DEF kernelVars, handlerVars
<1>4. ASSUME NEW i \in Slots, Goto("CHLD", "mark", i), UNCHANGED status
      PROVE  RefInv'
  <2>1. RefListTyped'
    BY <1>2 DEF RefInv, RefTypeOK, RefListTyped, listVars
  <2>2. /\ RefTypeOK' /\ HandlersIdle' /\ RefMaskHeld' /\ ChildIsNew' /\ KilledDoomed'
        /\ hpc'["CHLD"] = "mark"
    BY <1>1, <1>2, <1>4, <2>1, RefChldGoes DEF kernelVars, RefInv, RefTypeOK
  <2> QED BY <1>1, <1>2, <2>2 DEF RefInv, listVars, kernelVars, EntriesLive, DeletedIsReaped, PidsUnique
<1>5. \/ ErrorExit
      \/ \E i \in Slots : Goto("CHLD", "mark", i) /\ UNCHANGED status
  BY GetjobpidFinds DEF RefChldStop
<1> QED BY <1>3, <1>4, <1>5

LEMMA RefChldMarkStep ==
  ASSUME RefInv, RefChldMark
  PROVE  RefInv'
<1>1. HandlerRuns("CHLD") /\ hpc["CHLD"] = "mark"
  BY DEF RefChldMark
<1>2. UNCHANGED <<kernelVars, mainVars, status, hist>> /\ Goto("CHLD", "waitpid", 0)
  BY DEF RefChldMark
<1>3. RefListTyped' /\ \A k \in Slots : jobs'[k].pid = jobs[k].pid
  BY RefWrite DEF RefInv, RefTypeOK, RefListTyped, RefChldMark, States
<1>4. /\ RefTypeOK' /\ HandlersIdle' /\ RefMaskHeld' /\ ChildIsNew' /\ KilledDoomed'
      /\ hpc'["CHLD"] = "waitpid"
  BY <1>1, <1>2, <1>3, RefChldGoes DEF kernelVars, RefInv, RefTypeOK
<1> QED BY <1>1, <1>2, <1>3, <1>4 DEF RefInv, kernelVars, EntriesLive, DeletedIsReaped, PidsUnique

\* A key's handler starts with a pid in its hand, or not at all.
LEMMA RefEnterWithFgpid ==
  ASSUME RefInv, NEW h \in {"INT", "TSTP"}, EnterWithFgpid(h, "kill")
  PROVE  RefInv'
<1>1. UNCHANGED <<listVars, proc, pend, masked, mainVars, status, hist>>
  BY DEF EnterWithFgpid
<1>2. sigs' \in SUBSET Handlers
  BY DEF RefInv, RefTypeOK, EnterWithFgpid
<1>3. CASE UNCHANGED handlerVars
  <2>1. RefTypeOK' /\ HandlersIdle' /\ KilledDoomed'
    BY <1>1, <1>2, <1>3 DEF RefInv, RefTypeOK, listVars, mainVars, handlerVars, HandlersIdle,
       KilledDoomed, Doomed
  <2> QED BY <1>1, <1>3, <2>1, RefElsewhere DEF handlerVars
<1>4. CASE Enter(h, "kill", fgpid(jobs)) /\ fgpid(jobs) # 0
  <2>1. level' \in [Handlers -> Nat] /\ level'[h] # 0
    BY <1>4, EnterLevels DEF RefInv, RefTypeOK, Handlers
  <2>2. fgpid(jobs) \in Pids
    BY <1>4, FgpidFinds DEF RefInv, RefTypeOK
  <2>3. hpc' = [hpc EXCEPT ![h] = "kill"] /\ hpid' = [hpid EXCEPT ![h] = fgpid(jobs)]
    BY <1>4 DEF Enter
  <2>4. RefTypeOK'
    BY <1>1, <1>2, <2>1, <2>2, <2>3 DEF RefInv, RefTypeOK, listVars, mainVars
  <2>5. \A g \in Handlers \ {h} : level'[g] = level[g] /\ hpc'[g] = hpc[g] /\ hpid'[g] = hpid[g]
    BY <1>4 DEF RefInv, RefTypeOK, Enter
  <2>6. hpc'[h] = "kill" /\ hpid'[h] = fgpid(jobs)
    BY <2>3 DEF RefInv, RefTypeOK, Handlers
  <2>7. HandlersIdle'
    BY <2>1, <2>5, <2>6 DEF RefInv, HandlersIdle
  <2>8. KilledDoomed'
    BY <1>1, <2>2, <2>5, <2>6 DEF RefInv, KilledDoomed, Doomed, Handlers
  <2> QED BY <1>1, <2>4, <2>5, <2>7, <2>8, RefElsewhere DEF Handlers
<1> QED BY <1>3, <1>4 DEF EnterWithFgpid

\* A step of a key's handler from one place to another.
LEMMA RefKeyGoes ==
  ASSUME RefInv, NEW h \in {"INT", "TSTP"}, NEW pc \in {"delete", "lookup", "mark"},
         NEW p \in Pids \cup {0} \cup Slots, level[h] # 0, Goto(h, pc, p)
  PROVE  /\ level' = level /\ hpc'[h] = pc /\ hpid'[h] = p
         /\ \A g \in Handlers \ {h} : hpc'[g] = hpc[g] /\ hpid'[g] = hpid[g]
         /\ hpc' \in [Handlers -> {"idle", "waitpid", "delete", "stop", "kill", "lookup", "mark"}]
         /\ hpid' \in [Handlers -> Pids \cup {0} \cup Slots]
         /\ HandlersIdle'
<1>1. /\ level' = level /\ hpc' = [hpc EXCEPT ![h] = pc] /\ hpid' = [hpid EXCEPT ![h] = p]
  BY DEF Goto
<1>2. h \in Handlers
  BY DEF Handlers
<1>3. /\ hpc' \in [Handlers -> {"idle", "waitpid", "delete", "stop", "kill", "lookup", "mark"}]
      /\ hpid' \in [Handlers -> Pids \cup {0} \cup Slots]
  BY <1>1 DEF RefInv, RefTypeOK
<1>4. /\ hpc'[h] = pc /\ hpid'[h] = p
      /\ \A g \in Handlers \ {h} : hpc'[g] = hpc[g] /\ hpid'[g] = hpid[g]
  BY <1>1, <1>2 DEF RefInv, RefTypeOK
<1>5. HandlersIdle'
  BY <1>1, <1>2, <1>4 DEF RefInv, HandlersIdle
<1> QED BY <1>1, <1>3, <1>4, <1>5

\* ... and its return.
LEMMA RefKeyReturns ==
  ASSUME RefInv, NEW h \in {"INT", "TSTP"}, Return(h)
  PROVE  /\ level' \in [Handlers -> Nat] /\ hpc'[h] = "idle"
         /\ \A g \in Handlers \ {h} :
              level'[g] = level[g] /\ hpc'[g] = hpc[g] /\ hpid'[g] = hpid[g]
         /\ hpc' \in [Handlers -> {"idle", "waitpid", "delete", "stop", "kill", "lookup", "mark"}]
         /\ hpid' \in [Handlers -> Pids \cup {0} \cup Slots]
         /\ HandlersIdle'
<1>1. h \in Handlers
  BY DEF Handlers
<1>2. /\ level' = [level EXCEPT ![h] = 0] /\ hpc' = [hpc EXCEPT ![h] = "idle"]
      /\ hpid' = [hpid EXCEPT ![h] = 0]
  BY DEF Return
<1>3. /\ level'[h] = 0 /\ hpc'[h] = "idle"
      /\ \A g \in Handlers \ {h} :
           level'[g] = level[g] /\ hpc'[g] = hpc[g] /\ hpid'[g] = hpid[g]
  BY <1>1, <1>2 DEF RefInv, RefTypeOK
<1>4. /\ level' \in [Handlers -> Nat]
      /\ hpc' \in [Handlers -> {"idle", "waitpid", "delete", "stop", "kill", "lookup", "mark"}]
      /\ hpid' \in [Handlers -> Pids \cup {0} \cup Slots]
  BY <1>2 DEF RefInv, RefTypeOK
<1>5. HandlersIdle'
  BY <1>1, <1>3 DEF RefInv, HandlersIdle
<1> QED BY <1>3, <1>4, <1>5

\* kill(-p, s): the other pids' signals stay, and none is taken back.
LEMMA RefKillGroup ==
  ASSUME RefTypeOK, NEW p, NEW s \in {"INT", "TSTP", "KILL"}, KillGroup(p, s)
  PROVE  /\ pend' \in [Pids -> SUBSET {"INT", "TSTP", "KILL"}]
         /\ \A q \in Pids : pend[q] \subseteq pend'[q]
         /\ p \in Pids /\ proc[p] \in Live \ {"forked"} => s \in pend'[p]
<1>1. pend' \in [Pids -> SUBSET {"INT", "TSTP", "KILL"}]
  BY DEF RefTypeOK, KillGroup
<1>2. \A q \in Pids : pend[q] \subseteq pend'[q]
  BY DEF RefTypeOK, KillGroup
<1>3. p \in Pids /\ proc[p] \in Live \ {"forked"} => s \in pend'[p]
  BY DEF RefTypeOK, KillGroup
<1> QED BY <1>1, <1>2, <1>3

\* A handler that calls exit takes nothing with it.
LEMMA RefEnds ==
  ASSUME RefInv, UNCHANGED <<listVars, kernelVars, handlerVars, mainVars, hist>>,
         status' \in {"running", "exited", "segv", "error"}
  PROVE  RefInv'
<1>1. RefTypeOK' /\ HandlersIdle' /\ KilledDoomed'
  BY DEF RefInv, RefTypeOK, listVars, kernelVars, handlerVars, mainVars, HandlersIdle, KilledDoomed,
     Doomed
<1> QED BY <1>1, RefElsewhere DEF kernelVars, handlerVars

LEMMA RefIntKillStep ==
  ASSUME RefInv, RefIntKill
  PROVE  RefInv'
<1> DEFINE p == hpid["INT"]
<1>1. level["INT"] # 0 /\ hpc["INT"] = "kill" /\ p \in Pids
  BY DEF RefIntKill, HandlerRuns, RefInv, KilledDoomed
<1>2. UNCHANGED <<listVars, proc, sigs, masked, mainVars, hist>>
  BY DEF RefIntKill
<1>3. CASE ErrorExit /\ UNCHANGED pend
  BY <1>2, <1>3, RefEnds DEF ErrorExit, kernelVars
<1>4. CASE GroupExists(p) /\ KillGroup(p, "KILL") /\ Goto("INT", "delete", p) /\ UNCHANGED status
  <2>1. /\ level' = level /\ hpc'["INT"] = "delete" /\ hpid'["INT"] = p
        /\ \A g \in Handlers \ {"INT"} : hpc'[g] = hpc[g] /\ hpid'[g] = hpid[g]
        /\ hpc' \in [Handlers -> {"idle", "waitpid", "delete", "stop", "kill", "lookup", "mark"}]
        /\ hpid' \in [Handlers -> Pids \cup {0} \cup Slots]
        /\ HandlersIdle'
    BY <1>1, <1>4, RefKeyGoes
  <2>2. /\ pend' \in [Pids -> SUBSET {"INT", "TSTP", "KILL"}]
        /\ proc[p] \in Live \ {"forked"} => "KILL" \in pend'[p]
    BY <1>1, <1>4, RefKillGroup DEF RefInv
  <2>3. RefTypeOK'
    BY <1>2, <1>4, <2>1, <2>2 DEF RefInv, RefTypeOK, listVars, mainVars
  <2>4. KilledDoomed'
    BY <1>1, <1>2, <1>4, <2>1, <2>2 DEF KilledDoomed, Doomed, GroupExists
  <2> QED BY <1>2, <2>1, <2>3, <2>4, RefElsewhere DEF Handlers
<1> QED BY <1>3, <1>4 DEF RefIntKill

LEMMA RefIntDeleteStep ==
  ASSUME RefInv, RefIntDelete
  PROVE  RefInv'
<1> DEFINE p == hpid["INT"]
<1>1. /\ hpc["INT"] = "delete" /\ p \in Pids /\ DeleteJob(p) /\ Return("INT")
      /\ UNCHANGED <<kernelVars, mainVars, status, hist>>
  BY DEF RefIntDelete, RefInv, KilledDoomed
<1>2. /\ level' \in [Handlers -> Nat] /\ hpc'["INT"] = "idle"
      /\ \A g \in Handlers \ {"INT"} :
           level'[g] = level[g] /\ hpc'[g] = hpc[g] /\ hpid'[g] = hpid[g]
      /\ hpc' \in [Handlers -> {"idle", "waitpid", "delete", "stop", "kill", "lookup", "mark"}]
      /\ hpid' \in [Handlers -> Pids \cup {0} \cup Slots]
      /\ HandlersIdle'
  BY <1>1, RefKeyReturns
<1>3. /\ RefListTyped' /\ PidsUnique'
      /\ \A i \in Slots : \/ jobs'[i] = jobs[i]
                          \/ jobs'[i].pid = 0
  BY <1>1, RefDeletedKeeps DEF RefInv, RefTypeOK, RefListTyped
<1>4. RefTypeOK'
  BY <1>1, <1>2, <1>3 DEF RefInv, RefTypeOK, RefListTyped, kernelVars, mainVars
<1>5. RefMaskHeld' /\ DeletedIsReaped' /\ KilledDoomed'
  BY <1>1, <1>2 DEF RefInv, kernelVars, mainVars, RefMaskHeld, DeletedIsReaped, KilledDoomed, Handlers
<1>6. ChildIsNew'
  BY <1>1, <1>3, JobListAssumption DEF RefInv, kernelVars, mainVars, ChildIsNew
<1>7. EntriesLive'
  BY <1>1, <1>2, <1>3 DEF RefInv, kernelVars, EntriesLive, Handlers
<1> QED BY <1>2, <1>3, <1>4, <1>5, <1>6, <1>7 DEF RefInv

LEMMA RefTstpKillStep ==
  ASSUME RefInv, RefTstpKill
  PROVE  RefInv'
<1> DEFINE p == hpid["TSTP"]
<1>1. level["TSTP"] # 0 /\ p \in Pids \cup {0} \cup Slots
  BY DEF RefTstpKill, HandlerRuns, RefInv, RefTypeOK, Handlers
<1>2. UNCHANGED <<listVars, proc, sigs, masked, mainVars, hist>>
  BY DEF RefTstpKill
<1>3. CASE ErrorExit /\ UNCHANGED pend
  BY <1>2, <1>3, RefEnds DEF ErrorExit, kernelVars
<1>4. CASE KillGroup(p, "TSTP") /\ Goto("TSTP", "lookup", p) /\ UNCHANGED status
  <2>1. /\ level' = level
        /\ \A g \in Handlers \ {"TSTP"} : hpc'[g] = hpc[g] /\ hpid'[g] = hpid[g]
        /\ hpc' \in [Handlers -> {"idle", "waitpid", "delete", "stop", "kill", "lookup", "mark"}]
        /\ hpid' \in [Handlers -> Pids \cup {0} \cup Slots]
        /\ HandlersIdle'
    BY <1>1, <1>4, RefKeyGoes
  <2>2. /\ pend' \in [Pids -> SUBSET {"INT", "TSTP", "KILL"}]
        /\ \A q \in Pids : pend[q] \subseteq pend'[q]
    BY <1>4, RefKillGroup DEF RefInv
  <2>3. RefTypeOK'
    BY <1>2, <1>4, <2>1, <2>2 DEF RefInv, RefTypeOK, listVars, mainVars
  <2>4. KilledDoomed'
    BY <1>2, <2>1, <2>2 DEF RefInv, KilledDoomed, Doomed, Handlers
  <2> QED BY <1>2, <2>1, <2>3, <2>4, RefElsewhere DEF Handlers
<1> QED BY <1>3, <1>4 DEF RefTstpKill

LEMMA RefTstpLookupStep ==
  ASSUME RefInv, RefTstpLookup
  PROVE  RefInv'
<1>1. level["TSTP"] # 0 /\ UNCHANGED <<listVars, kernelVars, mainVars, hist>>
  BY DEF RefTstpLookup, HandlerRuns
<1>2. \/ status' = "segv" /\ UNCHANGED handlerVars
      \/ \E i \in Slots : Goto("TSTP", "mark", i) /\ UNCHANGED status
  BY GetjobpidFinds DEF RefTstpLookup
<1>3. CASE status' = "segv" /\ UNCHANGED handlerVars
  BY <1>1, <1>3, RefEnds
<1>4. ASSUME NEW i \in Slots, Goto("TSTP", "mark", i), UNCHANGED status
      PROVE  RefInv'
  <2>1. /\ level' = level
        /\ \A g \in Handlers \ {"TSTP"} : hpc'[g] = hpc[g] /\ hpid'[g] = hpid[g]
        /\ hpc' \in [Handlers -> {"idle", "waitpid", "delete", "stop", "kill", "lookup", "mark"}]
        /\ hpid' \in [Handlers -> Pids \cup {0} \cup Slots]
        /\ HandlersIdle'
    BY <1>1, <1>4, RefKeyGoes
  <2>2. RefTypeOK'
    BY <1>1, <1>4, <2>1 DEF RefInv, RefTypeOK, listVars, kernelVars, mainVars
  <2>3. KilledDoomed'
    BY <1>1, <2>1 DEF RefInv, kernelVars, KilledDoomed, Doomed, Handlers
  <2> QED BY <1>1, <2>1, <2>2, <2>3, RefElsewhere DEF kernelVars, Handlers
<1> QED BY <1>2, <1>3, <1>4

LEMMA RefTstpMarkStep ==
  ASSUME RefInv, RefTstpMark
  PROVE  RefInv'
<1>1. Return("TSTP") /\ UNCHANGED <<kernelVars, mainVars, status, hist>>
  BY DEF RefTstpMark
<1>2. RefListTyped' /\ \A k \in Slots : jobs'[k].pid = jobs[k].pid
  BY RefWrite DEF RefInv, RefTypeOK, RefListTyped, RefTstpMark, States
<1>3. /\ level' \in [Handlers -> Nat]
      /\ \A g \in Handlers \ {"TSTP"} :
           level'[g] = level[g] /\ hpc'[g] = hpc[g] /\ hpid'[g] = hpid[g]
      /\ hpc' \in [Handlers -> {"idle", "waitpid", "delete", "stop", "kill", "lookup", "mark"}]
      /\ hpid' \in [Handlers -> Pids \cup {0} \cup Slots]
      /\ HandlersIdle'
  BY <1>1, RefKeyReturns
<1>4. RefTypeOK'
  BY <1>1, <1>2, <1>3 DEF RefInv, RefTypeOK, RefListTyped, kernelVars, mainVars
<1>5. RefMaskHeld' /\ DeletedIsReaped' /\ KilledDoomed'
  BY <1>1, <1>3 DEF RefInv, kernelVars, mainVars, RefMaskHeld, DeletedIsReaped, KilledDoomed, Doomed,
     Handlers
<1>6. ChildIsNew' /\ PidsUnique'
  BY <1>1, <1>2 DEF RefInv, kernelVars, mainVars, ChildIsNew, PidsUnique
<1>7. EntriesLive'
  BY <1>1, <1>2, <1>3 DEF RefInv, kernelVars, EntriesLive, Handlers
<1> QED BY <1>3, <1>4, <1>5, <1>6, <1>7 DEF RefInv

LEMMA RefKeyboard ==
  ASSUME RefInv, NEW h \in {"INT", "TSTP"}, Keyboard(h)
  PROVE  RefInv'
<1>1. RefTypeOK' /\ HandlersIdle' /\ KilledDoomed'
  BY DEF RefInv, RefTypeOK, Keyboard, listVars, handlerVars, mainVars, Handlers, HandlersIdle,
     KilledDoomed, Doomed
<1> QED BY <1>1, RefElsewhere DEF Keyboard, handlerVars

\* What all the steps of a child have in common.
LEMMA RefChildKeeps ==
  ASSUME RefTypeOK, NEW p \in Pids, RefChild(p) \/ ChildDies(p)
  PROVE  /\ UNCHANGED <<listVars, masked, handlerVars, mainVars, status, hist>>
         /\ proc' \in [Pids -> ProcStates] /\ pend' \in [Pids -> SUBSET {"INT", "TSTP", "KILL"}]
         /\ sigs' \in SUBSET Handlers
         /\ Fates
<1>1. World(p)
  BY DEF RefChild, ChildDies, Child, ChildSetpgid, ChildExecve, ChildExit, ChildKilled, ChildStopped,
     ChildCatches, ChildStopsItself, ChildContinued
<1>2. CASE ~Doomed(p) /\ (ChildSetpgid(p) \/ ChildExecve(p))
  BY <1>1, <1>2 DEF World, ChildSetpgid, ChildExecve, RefTypeOK, ProcStates, Live, Fates, Doomed
<1>3. CASE ChildDies(p) \/ ChildExit(p) \/ ChildKilled(p)
  <2>1. /\ proc[p] \in Live /\ proc' = [proc EXCEPT ![p] = "zombie"]
        /\ pend' = [pend EXCEPT ![p] = {}] /\ sigs' = sigs \cup {"CHLD"}
    BY <1>3 DEF ChildDies, ChildExit, ChildKilled, ChildChanges, Live, ProcStates
  <2> QED BY <1>1, <2>1 DEF World, RefTypeOK, ProcStates, Live, Handlers, Fates, Doomed
<1>4. CASE ~Doomed(p) /\ (ChildStopped(p) \/ ChildStopsItself(p))
  <2>1. /\ proc[p] = "running" /\ proc' = [proc EXCEPT ![p] = "stopping"]
        /\ sigs' = sigs \cup {"CHLD"}
        /\ pend' \in {[pend EXCEPT ![p] = pend[p] \ {"TSTP"}], [pend EXCEPT ![p] = pend[p]]}
    BY <1>4 DEF ChildStopped, ChildStopsItself, ChildChanges
  <2> QED BY <1>1, <1>4, <2>1 DEF World, RefTypeOK, ProcStates, Live, Handlers, Fates, Doomed
<1>5. CASE ~Doomed(p) /\ ChildCatches(p)
  <2>1. PICK s \in pend[p] : pend' = [pend EXCEPT ![p] = @ \ {s}]
    BY <1>5 DEF ChildCatches
  <2>2. UNCHANGED <<proc, sigs>>
    BY <1>5 DEF ChildCatches
  <2> QED BY <1>1, <1>5, <2>1, <2>2 DEF World, RefTypeOK, Fates, Doomed
<1>6. CASE ChildContinued(p)
  BY <1>1, <1>6, RefContinue DEF World, ChildContinued
<1> QED BY <1>2, <1>3, <1>4, <1>5, <1>6 DEF RefChild, Child

LEMMA RefChildStep ==
  ASSUME RefInv, NEW p \in Pids, RefChild(p) \/ ChildDies(p)
  PROVE  RefInv'
<1>1. /\ UNCHANGED <<listVars, masked, handlerVars, mainVars, status, hist>>
      /\ proc' \in [Pids -> ProcStates] /\ pend' \in [Pids -> SUBSET {"INT", "TSTP", "KILL"}]
      /\ sigs' \in SUBSET Handlers
      /\ Fates
  BY RefChildKeeps DEF RefInv
<1>2. RefTypeOK'
  BY <1>1 DEF RefInv, RefTypeOK, listVars, handlerVars, mainVars
<1>3. HandlersIdle'
  BY <1>1 DEF RefInv, HandlersIdle, handlerVars
<1>4. KilledDoomed'
  BY <1>1 DEF RefInv, KilledDoomed, Fates, handlerVars
<1> QED BY <1>1, <1>2, <1>3, <1>4, RefElsewhere DEF handlerVars, Fates

LEMMA RefNextInv == RefInv /\ [RefNext]_vars => RefInv'
<1> SUFFICES ASSUME RefInv, [RefNext]_vars PROVE RefInv'
  OBVIOUS
<1>1. CASE RefCommands
  BY <1>1, RefEvalBlock, RefBgFgLookup DEF RefCommands
<1>2. CASE RefMainStep
  BY <1>2, RefEvalFork, RefAddEntryStep, RefAddJidStep, RefEvalUnblock, RefWaitFg, RefBgFgCont,
     RefBgFgSetState DEF RefMainStep, RefEvalStep, RefBgFgStep
<1>3. CASE RefLeave
  BY <1>3, RefLeaveStep
<1>4. CASE RefChldStep
  BY <1>4, RefChldEnter, RefChldWaitpidStep, RefChldDeleteStep, RefChldStopStep, RefChldMarkStep
     DEF RefChldStep
<1>5. CASE RefIntStep
  BY <1>5, RefEnterWithFgpid, RefIntKillStep, RefIntDeleteStep DEF RefIntStep, IntEnter
<1>6. CASE RefTstpStep
  BY <1>6, RefEnterWithFgpid, RefTstpKillStep, RefTstpLookupStep, RefTstpMarkStep
     DEF RefTstpStep, RefTstpEnter
<1>7. CASE Keyboard("INT") \/ Keyboard("TSTP")
  BY <1>7, RefKeyboard
<1>8. CASE \E p \in Pids : RefChild(p) \/ ChildDies(p)
  BY <1>8, RefChildStep
<1>9. CASE UNCHANGED vars
  BY <1>9, RefEnds DEF vars, RefInv, RefTypeOK
<1> QED BY <1>1, <1>2, <1>3, <1>4, <1>5, <1>6, <1>7, <1>8, <1>9 DEF RefNext

LEMMA RefInvHolds == RefSpec => []RefInv
BY RefInitInv, RefNextInv, PTL DEF RefSpec

\* Every reachable state of the reference shell is well typed.
THEOREM RefTypeCorrect == RefSpec => []RefTypeOK
<1>1. RefInv => RefTypeOK
  BY DEF RefInv
<1> QED BY <1>1, RefInvHolds, PTL

\* The reference shell's list keeps no pid of a child that has been reaped, beyond
\* the step in which the SIGCHLD handler deletes the entry, and no pid twice,
\* although two handlers delete jobs.
THEOREM RefEntriesLive == RefSpec => [](EntriesLive /\ PidsUnique)
<1>1. RefInv => EntriesLive /\ PidsUnique
  BY DEF RefInv
<1> QED BY <1>1, RefInvHolds, PTL

-----------------------------------------------------------------------------
(* No job that lives on is forgotten.                                      *)

\* A step that leaves the pids in the list and what addjob is about keeps
\* ForgottenOnlyDoomed, if no child comes to life and SIGKILL is not taken back.
LEMMA ForgottenKept ==
  ASSUME RefInv, ForgottenOnlyDoomed, hist \subseteq hist',
         \A k \in Slots : jobs'[k].pid = jobs[k].pid,
         mpc = "addjob" => UNCHANGED <<mpc, mpid>>,
         \A q \in Pids : /\ proc'[q] \in Live => proc[q] \in Live
                         /\ Doomed(q) /\ proc'[q] \in Live => Doomed(q)'
  PROVE  ForgottenOnlyDoomed'
BY DEF ForgottenOnlyDoomed, Entry

\* So does a handler that deletes a child that is dead or doomed.
LEMMA ForgottenDeleted ==
  ASSUME RefInv, ForgottenOnlyDoomed, NEW p \in Pids, DeleteJob(p),
         proc[p] \in Live => Doomed(p), UNCHANGED <<kernelVars, mainVars, hist>>
  PROVE  ForgottenOnlyDoomed'
<1>1. \A i \in Slots : jobs[i].pid # p => jobs'[i] = jobs[i]
  BY RefDeletedKeeps DEF RefInv, RefTypeOK, RefListTyped
<1> QED BY <1>1 DEF ForgottenOnlyDoomed, Entry, Doomed, kernelVars, mainVars

LEMMA ForgottenMain ==
  ASSUME RefInv, ForgottenOnlyDoomed, RefCommands \/ RefMainStep \/ RefLeave
  PROVE  ForgottenOnlyDoomed'
<1>1. CASE \E s \in {"FG", "BG"} : EvalBlock(s) \/ BgFgLookup(s)
  BY <1>1, ForgottenKept DEF EvalBlock, BgFgLookup, listVars, kernelVars, Doomed
<1>2. CASE EvalUnblock \/ WaitFg \/ RefLeave
  BY <1>2, ForgottenKept DEF EvalUnblock, WaitFg, RefLeave, Quit, Sigquit, Exit, listVars, kernelVars,
     mainVars, Doomed
<1>3. CASE EvalFork
  <2>1. /\ mpc = "fork" /\ mpc' = "addjob" /\ UNCHANGED <<listVars, pend, hist>>
        /\ \/ \E p \in Pids : proc' = [proc EXCEPT ![p] = "forked"] /\ mpid' = p
           \/ UNCHANGED proc
    BY <1>3 DEF EvalFork
  <2> QED BY <2>1 DEF RefInv, RefTypeOK, listVars, ForgottenOnlyDoomed, Entry, Doomed
<1>4. CASE RefAddEntry
  <2>1. UNCHANGED <<kernelVars, mpid>> /\ mpc = "addjob"
    BY <1>4 DEF RefAddEntry
  <2>2. CASE mpid \in Pids /\ FreeSlots(jobs) # {}
    <3>1. /\ mslot' \in Slots /\ jobs[mslot'].pid = 0 /\ jobs'[mslot'].pid = mpid
          /\ \A k \in Slots \ {mslot'} : jobs'[k] = jobs[k]
          /\ UNCHANGED hist
      BY <1>4, <2>2, RefAddsEntry DEF RefInv
    <3> QED BY <2>1, <3>1, JobListAssumption DEF kernelVars, ForgottenOnlyDoomed, Entry, Doomed
  <2>3. CASE mpid \in Pids /\ FreeSlots(jobs) = {}
    BY <1>4, <2>3 DEF RefAddEntry, ForgottenOnlyDoomed
  <2>4. CASE mpid \notin Pids
    BY <1>4, <2>1, <2>4 DEF RefAddEntry, kernelVars, ForgottenOnlyDoomed, Entry, Doomed
  <2> QED BY <2>2, <2>3, <2>4
<1>5. CASE RefAddJid
  <2>1. \A k \in Slots : jobs'[k].pid = jobs[k].pid
    BY <1>5 DEF RefAddJid, RefInv, RefTypeOK
  <2> QED BY <1>5, <2>1, ForgottenKept DEF RefAddJid, kernelVars, Doomed
<1>6. CASE BgFgCont
  <2>1. Fates
    BY <1>6, RefContinue DEF RefInv, RefTypeOK, BgFgCont
  <2>2. hist \subseteq hist' /\ mpc # "addjob" /\ UNCHANGED jobs
    BY <1>6 DEF BgFgCont, listVars
  <2> QED BY <2>1, <2>2, ForgottenKept DEF Fates
<1>7. CASE BgFgSetState
  <2>1. \A k \in Slots : jobs'[k].pid = jobs[k].pid
    BY <1>7, RefWrite DEF RefInv, RefTypeOK, RefListTyped, BgFgSetState, States
  <2>2. hist \subseteq hist' /\ mpc # "addjob" /\ UNCHANGED kernelVars
    BY <1>7 DEF BgFgSetState
  <2> QED BY <2>1, <2>2, ForgottenKept DEF kernelVars, Doomed
<1> QED BY <1>1, <1>2, <1>3, <1>4, <1>5, <1>6, <1>7 DEF RefCommands, RefMainStep, RefEvalStep,
     RefBgFgStep

LEMMA ForgottenHandlers ==
  ASSUME RefInv, ForgottenOnlyDoomed, RefChldStep \/ RefIntStep \/ RefTstpStep
  PROVE  ForgottenOnlyDoomed'
<1>1. CASE ChldEnter \/ RefChldStop \/ IntEnter \/ RefTstpEnter \/ RefTstpLookup
  BY <1>1, ForgottenKept DEF ChldEnter, RefChldStop, IntEnter, RefTstpEnter, EnterWithFgpid,
     RefTstpLookup, listVars, kernelVars, mainVars, Doomed
<1>2. CASE RefChldWaitpid
  <2>1. UNCHANGED <<listVars, pend, mainVars, hist>>
    BY <1>2 DEF RefChldWaitpid
  <2>2. \A q \in Pids : proc'[q] \in Live => proc[q] \in Live
    BY <1>2 DEF RefChldWaitpid, RefInv, RefTypeOK, Live, ProcStates
  <2> QED BY <2>1, <2>2, ForgottenKept DEF listVars, mainVars, Doomed
<1>3. CASE ChldDelete
  BY <1>3, ForgottenDeleted DEF ChldDelete, RefInv, DeletedIsReaped, Live
<1>4. CASE RefIntDelete
  BY <1>4, ForgottenDeleted DEF RefIntDelete, RefInv, KilledDoomed
<1>5. CASE RefChldMark \/ RefTstpMark
  <2>1. \A k \in Slots : jobs'[k].pid = jobs[k].pid
    BY <1>5, RefWrite DEF RefInv, RefTypeOK, RefListTyped, RefChldMark, RefTstpMark, States
  <2>2. UNCHANGED <<kernelVars, mainVars, hist>>
    BY <1>5 DEF RefChldMark, RefTstpMark
  <2> QED BY <2>1, <2>2, ForgottenKept DEF kernelVars, mainVars, Doomed
<1>6. CASE RefIntKill \/ RefTstpKill
  <2>1. UNCHANGED <<listVars, proc, mainVars, hist>>
    BY <1>6 DEF RefIntKill, RefTstpKill
  <2>2. \A q \in Pids : pend[q] \subseteq pend'[q]
    BY <1>6, RefKillGroup DEF RefIntKill, RefTstpKill, RefInv
  <2> QED BY <2>1, <2>2, ForgottenKept DEF listVars, mainVars, Doomed
<1> QED BY <1>1, <1>2, <1>3, <1>4, <1>5, <1>6 DEF RefChldStep, RefIntStep, RefTstpStep

LEMMA ForgottenStep == RefInv /\ ForgottenOnlyDoomed /\ [RefNext]_vars => ForgottenOnlyDoomed'
<1> SUFFICES ASSUME RefInv, ForgottenOnlyDoomed, [RefNext]_vars PROVE ForgottenOnlyDoomed'
  OBVIOUS
<1>1. CASE Keyboard("INT") \/ Keyboard("TSTP") \/ UNCHANGED vars
  BY <1>1, ForgottenKept DEF Keyboard, vars, listVars, kernelVars, mainVars, Doomed
<1>2. CASE \E p \in Pids : RefChild(p) \/ ChildDies(p)
  <2>1. UNCHANGED <<listVars, mainVars, hist>> /\ Fates
    BY <1>2, RefChildKeeps DEF RefInv
  <2> QED BY <2>1, ForgottenKept DEF listVars, mainVars, Fates
<1> QED BY <1>1, <1>2, ForgottenMain, ForgottenHandlers DEF RefNext

\* The handlers of the reference shell forget no job that lives on: whatever the
\* interleaving of sigint_handler's deletejob with addjob, the SIGCHLD handler and
\* do_bgfg, a child without an entry has SIGKILL on its way.
THEOREM ForgottenOnlyDoomedHolds == RefSpec => []ForgottenOnlyDoomed
<1>1. Init => ForgottenOnlyDoomed
  BY DEF Init, ForgottenOnlyDoomed, Live
<1> QED BY <1>1, RefInvHolds, ForgottenStep, PTL DEF RefSpec

-----------------------------------------------------------------------------
(* The job that is waited for.                                             *)

RefWaiting == mpc = "waitfg" \/ (mpc \in {"addjid", "unblock"} /\ mstate = "FG")

\* With no stale write, a job in state FG is the one the main flow waits for, and
\* the one it waits for is in state FG or ST.
RefAwaited ==
  /\ mpc \in {"addjob", "addjid", "unblock", "waitfg", "sigcont", "setstate"} => mpid # 0
  /\ "staleWrite" \notin hist =>
       /\ \A i \in Slots : jobs[i].state = "FG" => jobs[i].pid = mpid /\ RefWaiting
       /\ RefWaiting => \A i \in Slots : jobs[i].pid = mpid => jobs[i].state \in {"FG", "ST"}

RefFgInv == SlotKept /\ RefAwaited

LEMMA RefFgMain ==
  ASSUME RefInv, RefFgInv, RefCommands \/ RefMainStep
  PROVE  RefFgInv'
<1>1. CASE \E s \in {"FG", "BG"} : EvalBlock(s)
  BY <1>1 DEF EvalBlock, RefFgInv, SlotKept, RefAwaited, RefWaiting, listVars
<1>2. CASE \E s \in {"FG", "BG"} : BgFgLookup(s)
  <2>1. UNCHANGED <<listVars, hist>> /\ mpc = "prompt" /\ mpc' = "sigcont"
    BY <1>2 DEF BgFgLookup
  <2>2. PICK p \in Pids :
          /\ \/ getjobpid(jobs, p) # NULL
             \/ \E j \in 1 .. JidBound :
                  getjobjid(jobs, j) # NULL /\ p = jobs[getjobjid(jobs, j)].pid
          /\ mpid' = p /\ mslot' = getjobpid(jobs, p)
    BY <1>2 DEF BgFgLookup
  <2>3. getjobpid(jobs, p) # NULL
    <3>1. ASSUME NEW j \in 1 .. JidBound, getjobjid(jobs, j) # NULL,
                 p = jobs[getjobjid(jobs, j)].pid
          PROVE  getjobpid(jobs, p) # NULL
      <4>1. getjobjid(jobs, j) \in Slots
        BY <3>1, FirstIsLeast DEF getjobjid
      <4> QED BY <3>1, <4>1, GetjobpidFinds
    <3> QED BY <2>2, <3>1
  <2>4. mslot' \in Slots /\ jobs[mslot'].pid = p
    BY <2>2, <2>3, GetjobpidFinds
  <2> QED BY <2>1, <2>2, <2>4, JobListAssumption DEF RefFgInv, SlotKept, RefAwaited, RefWaiting, listVars
<1>3. CASE EvalFork
  BY <1>3, JobListAssumption DEF EvalFork, RefFgInv, SlotKept, RefAwaited, RefWaiting, listVars,
     FORK_FAILED
<1>4. CASE RefAddEntry
  <2>1. mpc = "addjob" /\ UNCHANGED <<mpid, mstate>> /\ mpid # 0
    BY <1>4 DEF RefAddEntry, RefFgInv, RefAwaited
  <2>2. \A i \in Slots : jobs[i].pid # mpid
    <3>1. CASE mpid \in Pids
      BY <2>1, <3>1 DEF RefInv, ChildIsNew
    <3>2. CASE mpid \notin Pids
      BY <2>1, <3>2 DEF RefInv, RefTypeOK
    <3> QED BY <3>1, <3>2
  <2>3. CASE mpid \in Pids /\ FreeSlots(jobs) # {}
    <3>1. /\ mslot' \in Slots /\ jobs'[mslot'].pid = mpid /\ jobs'[mslot'].state = mstate
          /\ \A k \in Slots \ {mslot'} : jobs'[k] = jobs[k]
          /\ mpc' = "addjid" /\ UNCHANGED hist
      BY <1>4, <2>3, RefAddsEntry DEF RefInv
    <3> QED BY <2>1, <2>2, <3>1 DEF RefFgInv, SlotKept, RefAwaited, RefWaiting
  <2>4. CASE ~(mpid \in Pids /\ FreeSlots(jobs) # {})
    <3>1. UNCHANGED jobs /\ mpc' = "unblock" /\ hist \subseteq hist'
      BY <1>4, <2>4 DEF RefAddEntry
    <3> QED BY <2>1, <2>2, <3>1 DEF RefFgInv, SlotKept, RefAwaited, RefWaiting
  <2> QED BY <2>3, <2>4
<1>5. CASE RefAddJid
  <2>1. \A k \in Slots : jobs'[k].pid = jobs[k].pid /\ jobs'[k].state = jobs[k].state
    BY <1>5 DEF RefAddJid, RefInv, RefTypeOK
  <2> QED BY <1>5, <2>1 DEF RefAddJid, RefFgInv, SlotKept, RefAwaited, RefWaiting
<1>6. CASE EvalUnblock
  BY <1>6 DEF EvalUnblock, ToPrompt, MainGoto, RefFgInv, SlotKept, RefAwaited, RefWaiting, listVars,
     RefInv, RefTypeOK
<1>7. CASE WaitFg
  <2>1. /\ mpc = "waitfg" /\ mpid # fgpid(jobs) /\ mpc' = "prompt" /\ mpid' = 0
        /\ UNCHANGED <<listVars, hist>>
    BY <1>7 DEF WaitFg, ToPrompt
  <2>2. "staleWrite" \notin hist => \A i \in Slots : jobs[i].state # "FG"
    BY <2>1, FgpidFinds DEF RefFgInv, RefAwaited
  <2> QED BY <2>1, <2>2 DEF RefFgInv, SlotKept, RefAwaited, RefWaiting, listVars
<1>8. CASE BgFgCont
  BY <1>8 DEF BgFgCont, MainGoto, RefFgInv, SlotKept, RefAwaited, RefWaiting, listVars
<1>9. CASE BgFgSetState
  <2>1. /\ mpc = "setstate" /\ SetState(mslot, mstate) /\ hist \subseteq hist'
        /\ jobs[mslot].pid = 0 => "staleWrite" \in hist'
    BY <1>9 DEF BgFgSetState
  <2>2. \/ mstate = "BG" /\ mpc' = "prompt"
        \/ mstate = "FG" /\ mpc' = "waitfg" /\ mpid' = mpid
    BY <1>9 DEF BgFgSetState, ToPrompt, MainGoto, RefInv, RefTypeOK
  <2>3. mslot \in Slots /\ jobs[mslot].pid \in {mpid, 0} /\ mpid # 0 /\ mpid \in Pids
    BY <2>1 DEF RefFgInv, SlotKept, RefAwaited
  <2>4. /\ \A i \in Slots : jobs'[i].pid = jobs[i].pid
        /\ jobs'[mslot].state = mstate
        /\ \A i \in Slots \ {mslot} : jobs'[i].state = jobs[i].state
    BY <2>1, <2>3, RefWrite DEF RefInv, RefTypeOK, RefListTyped, States
  <2>5. "staleWrite" \notin hist' =>
          jobs[mslot].pid = mpid /\ \A i \in Slots : jobs[i].pid = mpid => i = mslot
    BY <2>1, <2>3 DEF RefInv, PidsUnique
  <2>6. "staleWrite" \notin hist' => \A i \in Slots : jobs[i].state # "FG"
    BY <2>1 DEF RefFgInv, RefAwaited, RefWaiting
  <2> QED BY <2>1, <2>2, <2>3, <2>4, <2>5, <2>6 DEF RefFgInv, SlotKept, RefAwaited, RefWaiting
<1> QED BY <1>1, <1>2, <1>3, <1>4, <1>5, <1>6, <1>7, <1>8, <1>9
     DEF RefCommands, RefMainStep, RefEvalStep, RefBgFgStep

\* What handlers do to the list: they clear an entry or write ST.
LEMMA RefHandlersWrite ==
  ASSUME RefInv, RefChldStep \/ RefIntStep \/ RefTstpStep
  PROVE  /\ UNCHANGED <<mainVars, hist>>
         /\ \A i \in Slots : \/ jobs'[i].pid = jobs[i].pid /\ jobs'[i].state \in {jobs[i].state, "ST"}
                             \/ jobs'[i].pid = 0 /\ jobs'[i].state = "UNDEF"
<1>1. CASE ChldEnter \/ RefChldWaitpid \/ RefChldStop \/ IntEnter \/ RefIntKill
           \/ RefTstpEnter \/ RefTstpKill \/ RefTstpLookup
  BY <1>1 DEF ChldEnter, RefChldWaitpid, RefChldStop, IntEnter, RefTstpEnter, EnterWithFgpid,
     RefIntKill, RefTstpKill, RefTstpLookup, listVars
<1>2. CASE ChldDelete \/ RefIntDelete
  <2>1. UNCHANGED <<mainVars, hist>> /\ \E p \in Pids : DeleteJob(p)
    BY <1>2 DEF ChldDelete, RefIntDelete, RefInv, DeletedIsReaped, KilledDoomed
  <2> QED BY <2>1, RefDeletedKeeps DEF RefInv, RefTypeOK, RefListTyped
<1>3. CASE RefChldMark \/ RefTstpMark
  <2>1. UNCHANGED <<mainVars, hist>> /\ \E i : SetState(i, "ST")
    BY <1>3 DEF RefChldMark, RefTstpMark
  <2> QED BY <2>1, RefWrite DEF RefInv, RefTypeOK, RefListTyped, States
<1> QED BY <1>1, <1>2, <1>3 DEF RefChldStep, RefIntStep, RefTstpStep

LEMMA RefFgStep == RefInv /\ RefFgInv /\ [RefNext]_vars => RefFgInv'
<1> SUFFICES ASSUME RefInv, RefFgInv, [RefNext]_vars PROVE RefFgInv'
  OBVIOUS
<1>1. CASE RefChldStep \/ RefIntStep \/ RefTstpStep
  <2>1. /\ UNCHANGED <<mainVars, hist>>
        /\ \A i \in Slots : \/ jobs'[i].pid = jobs[i].pid /\ jobs'[i].state \in {jobs[i].state, "ST"}
                            \/ jobs'[i].pid = 0 /\ jobs'[i].state = "UNDEF"
    BY <1>1, RefHandlersWrite
  <2>2. SlotKept'
    BY <2>1 DEF RefFgInv, SlotKept, mainVars
  <2>3. RefWaiting => mpid # 0
    BY DEF RefFgInv, RefAwaited, RefWaiting
  <2>4. RefAwaited'
    BY <2>1, <2>3 DEF RefFgInv, RefAwaited, RefWaiting, mainVars
  <2> QED BY <2>2, <2>4 DEF RefFgInv
<1>2. CASE UNCHANGED <<listVars, mainVars, hist>>
  BY <1>2 DEF listVars, mainVars, RefFgInv, SlotKept, RefAwaited, RefWaiting
<1>3. CASE RefLeave \/ Keyboard("INT") \/ Keyboard("TSTP") \/ UNCHANGED vars
  BY <1>2, <1>3 DEF RefLeave, Quit, Sigquit, Exit, Keyboard, vars
<1>4. CASE \E p \in Pids : RefChild(p) \/ ChildDies(p)
  BY <1>2, <1>4, RefChildKeeps DEF RefInv
<1> QED BY <1>1, <1>3, <1>4, RefFgMain DEF RefNext

LEMMA RefFgHolds == RefSpec => []RefFgInv
<1>1. Init => RefFgInv
  BY DEF Init, ListInit, EmptyJob, RefFgInv, SlotKept, RefAwaited, RefWaiting
<1> QED BY <1>1, RefInvHolds, RefFgStep, PTL DEF RefSpec

\* waitfg of the reference shell gives the prompt back while its job is alive only
\* for a job that the list has as stopped or that SIGKILL is on its way to.
THEOREM RefWaitfgReturnsWhenDoneHolds == RefSpec => RefWaitfgReturnsWhenDone
<1> DEFINE Returns ==
      (mpc = "waitfg" /\ mpc' # "waitfg" /\ mpid \in Pids /\ proc[mpid] \in Live
         /\ hist \cap {"untracked", "staleWrite"} = {})
        => \/ Doomed(mpid)
           \/ \E i \in Slots : Entry(i, mpid) /\ jobs[i].state = "ST"
<1>1. RefInv /\ RefFgInv /\ ForgottenOnlyDoomed /\ [RefNext]_vars => [Returns]_vars
  <2> SUFFICES ASSUME RefInv, RefFgInv, ForgottenOnlyDoomed, RefNext,
                      mpc = "waitfg", mpc' # "waitfg", mpid \in Pids, proc[mpid] \in Live,
                      "untracked" \notin hist, "staleWrite" \notin hist, ~Doomed(mpid)
               PROVE  \E i \in Slots : Entry(i, mpid) /\ jobs[i].state = "ST"
    OBVIOUS
  <2>1. mpid # fgpid(jobs)
    <3>1. CASE WaitFg
      BY <3>1 DEF WaitFg
    <3>2. CASE RefChldStep \/ RefIntStep \/ RefTstpStep
      BY <3>2, RefHandlersWrite DEF mainVars
    <3>3. CASE \E p \in Pids : RefChild(p) \/ ChildDies(p)
      BY <3>3, RefChildKeeps DEF RefInv, mainVars
    <3>4. CASE RefLeave \/ Keyboard("INT") \/ Keyboard("TSTP")
      BY <3>4 DEF RefLeave, Quit, Sigquit, Exit, Keyboard, mainVars
    <3>5. CASE RefCommands \/ RefEvalStep \/ RefBgFgStep
      BY <3>5 DEF RefCommands, RefEvalStep, RefBgFgStep, EvalBlock, BgFgLookup, EvalFork, RefAddEntry,
         RefAddJid, EvalUnblock, BgFgCont, BgFgSetState
    <3> QED BY <3>1, <3>2, <3>3, <3>4, <3>5 DEF RefNext, RefMainStep
  <2>2. PICK i \in Slots : Entry(i, mpid)
    BY DEF ForgottenOnlyDoomed
  <2>3. jobs[i].state \in {"FG", "ST"}
    BY <2>2 DEF RefFgInv, RefAwaited, RefWaiting, Entry
  <2>4. jobs[i].state # "FG"
    <3> SUFFICES ASSUME jobs[i].state = "FG" PROVE FALSE
      OBVIOUS
    <3>1. PICK k \in Slots : jobs[k].state = "FG" /\ jobs[k].pid = fgpid(jobs)
      BY FgpidFinds
    <3>2. jobs[k].pid = mpid
      BY <3>1 DEF RefFgInv, RefAwaited
    <3> QED BY <2>1, <3>1, <3>2
  <2> QED BY <2>2, <2>3, <2>4
<1>2. RefSpec => [][Returns]_vars
  BY <1>1, RefInvHolds, RefFgHolds, ForgottenOnlyDoomedHolds, PTL DEF RefSpec
<1> QED BY <1>2 DEF RefWaitfgReturnsWhenDone

-----------------------------------------------------------------------------
(* No wake-up is lost: the safety half of RefFairSpec's liveness.          *)

\* A child that waitpid has something to report of: a stop is passed over once
\* SIGKILL is on its way.
RefUnreported(p) == proc[p] = "zombie" \/ (proc[p] = "stopping" /\ ~Doomed(p))

RefChangesNoticed ==
  status = "running" => \A p \in Pids : RefUnreported(p) => NoticeDue

RefMaskOnlyInEval == masked => mpc \in {"fork", "addjob", "addjid", "unblock"}

\* Which steps touch a child's life and its pending signals.
LEMMA RefChildrenBySteps ==
  ASSUME [RefNext]_vars
  PROVE  \/ UNCHANGED <<proc, pend>> \/ EvalFork \/ BgFgCont \/ RefChldWaitpid \/ RefIntKill
         \/ RefTstpKill \/ \E p \in Pids : RefChild(p) \/ ChildDies(p)
BY DEF RefNext, RefCommands, RefMainStep, RefEvalStep, RefBgFgStep, RefLeave, RefChldStep, RefIntStep,
   RefTstpStep, EvalBlock, BgFgLookup, RefAddEntry, RefAddJid, EvalUnblock, WaitFg, BgFgSetState, Quit,
   Sigquit, Exit, ChldEnter, ChldDelete, RefChldStop, RefChldMark, IntEnter, RefIntDelete,
   RefTstpEnter, RefTstpLookup, RefTstpMark, EnterWithFgpid, Keyboard, kernelVars, vars

LEMMA RefChangeSignalled ==
  ASSUME RefInv, [RefNext]_vars, NEW q \in Pids, RefUnreported(q)'
  PROVE  RefUnreported(q) \/ "CHLD" \in sigs'
<1>1. CASE UNCHANGED <<proc, pend>>
  BY <1>1 DEF RefUnreported, Doomed
<1>2. CASE EvalFork
  BY <1>2 DEF EvalFork, RefInv, RefTypeOK, RefUnreported, Doomed
<1>3. CASE BgFgCont
  <2>1. proc'[q] \in {proc[q], "running"} /\ (Doomed(q) => Doomed(q)')
    BY <1>3 DEF BgFgCont, Continue, RefInv, RefTypeOK, Doomed
  <2> QED BY <2>1 DEF RefUnreported
<1>4. CASE RefChldWaitpid
  <2>1. UNCHANGED pend /\ proc'[q] \in {proc[q], "none", "stopped"}
    BY <1>4 DEF RefChldWaitpid, RefInv, RefTypeOK
  <2> QED BY <2>1 DEF RefUnreported, Doomed
<1>5. CASE RefIntKill \/ RefTstpKill
  <2>1. UNCHANGED proc /\ pend[q] \subseteq pend'[q]
    BY <1>5, RefKillGroup DEF RefIntKill, RefTstpKill, RefInv
  <2> QED BY <2>1 DEF RefUnreported, Doomed
<1>6. ASSUME NEW p \in Pids, RefChild(p) \/ ChildDies(p)
      PROVE  RefUnreported(q) \/ "CHLD" \in sigs'
  <2>1. CASE ChildDies(p) \/ ChildExit(p) \/ ChildKilled(p) \/ ChildStopped(p) \/ ChildStopsItself(p)
    BY <2>1 DEF ChildDies, ChildExit, ChildKilled, ChildStopped, ChildStopsItself, ChildChanges
  <2>2. CASE ~Doomed(p) /\ (ChildSetpgid(p) \/ ChildExecve(p))
    BY <2>2 DEF ChildSetpgid, ChildExecve, RefInv, RefTypeOK, RefUnreported, Doomed
  <2>3. CASE ~Doomed(p) /\ ChildCatches(p)
    BY <2>3 DEF ChildCatches, RefInv, RefTypeOK, RefUnreported, Doomed
  <2>4. CASE ChildContinued(p)
    <3>1. proc'[q] \in {proc[q], "running"} /\ (Doomed(q) => Doomed(q)')
      BY <2>4 DEF ChildContinued, Continue, RefInv, RefTypeOK, Doomed
    <3> QED BY <3>1 DEF RefUnreported
  <2> QED BY <1>6, <2>1, <2>2, <2>3, <2>4 DEF RefChild, Child
<1> QED BY <1>1, <1>2, <1>3, <1>4, <1>5, <1>6, RefChildrenBySteps

LEMMA RefNoticeKept ==
  ASSUME RefInv, [RefNext]_vars, NoticeDue
  PROVE  NoticeDue' \/ \A q \in Pids : ~RefUnreported(q)'
<1>1. CASE ChldEnter
  <2>1. hpc'["CHLD"] = "waitpid"
    BY <1>1 DEF ChldEnter, Enter, RefInv, RefTypeOK, Handlers
  <2> QED BY <2>1 DEF NoticeDue
<1>2. CASE RefChldWaitpid
  <2>1. CASE UNCHANGED proc /\ \A p \in Pids : proc[p] # "zombie" /\ (proc[p] = "stopping" => Doomed(p))
    BY <1>2, <2>1 DEF RefChldWaitpid, RefUnreported, Doomed
  <2>2. CASE \E p \in Pids : Goto("CHLD", "delete", p) \/ Goto("CHLD", "stop", p)
    BY <2>2 DEF Goto, NoticeDue, RefInv, RefTypeOK, Handlers
  <2> QED BY <1>2, <2>1, <2>2 DEF RefChldWaitpid
<1>3. CASE ChldDelete \/ RefChldStop \/ RefChldMark
  BY <1>3 DEF ChldDelete, RefChldStop, RefChldMark, ErrorExit, Goto, kernelVars, handlerVars, NoticeDue,
     RefInv, RefTypeOK, Handlers
<1>4. CASE RefIntStep \/ RefTstpStep
  BY <1>4 DEF RefIntStep, RefTstpStep, IntEnter, RefIntKill, RefIntDelete, RefTstpEnter, RefTstpKill,
     RefTstpLookup, RefTstpMark, EnterWithFgpid, ErrorExit, Enter, Goto, Return, handlerVars, kernelVars,
     NoticeDue, RefInv, RefTypeOK, Handlers
<1>5. CASE \E p \in Pids : RefChild(p) \/ ChildDies(p)
  <2>1. UNCHANGED handlerVars
    BY <1>5, RefChildKeeps DEF RefInv
  <2>2. sigs \subseteq sigs'
    BY <1>5 DEF RefChild, ChildDies, Child, ChildSetpgid, ChildExecve, ChildExit, ChildKilled, ChildStopped,
       ChildCatches, ChildStopsItself, ChildContinued, ChildChanges, Continue
  <2> QED BY <2>1, <2>2 DEF NoticeDue, handlerVars
<1>6. CASE RefCommands \/ RefMainStep \/ RefLeave \/ Keyboard("INT") \/ Keyboard("TSTP") \/ UNCHANGED vars
  BY <1>6 DEF RefCommands, RefMainStep, RefEvalStep, RefBgFgStep, EvalBlock, BgFgLookup, EvalFork,
     RefAddEntry, RefAddJid, EvalUnblock, WaitFg, BgFgCont, BgFgSetState, Continue, RefLeave, Quit,
     Sigquit, Exit, Keyboard, kernelVars, handlerVars, vars, NoticeDue
<1> QED BY <1>1, <1>2, <1>3, <1>4, <1>5, <1>6 DEF RefNext, RefChldStep

LEMMA RefStillRunning ==
  ASSUME [RefNext]_vars, status' = "running"
  PROVE  status = "running"
<1>1. CASE RefCommands \/ RefMainStep \/ RefLeave
  BY <1>1 DEF RefCommands, RefMainStep, RefEvalStep, RefBgFgStep, EvalBlock, BgFgLookup, EvalFork,
     RefAddEntry, RefAddJid, EvalUnblock, WaitFg, BgFgCont, BgFgSetState, RefLeave, Quit, Sigquit, Exit,
     MainRuns
<1>2. CASE RefChldStep \/ RefIntStep \/ RefTstpStep
  BY <1>2 DEF RefChldStep, RefIntStep, RefTstpStep, ChldEnter, RefChldWaitpid, ChldDelete, RefChldStop,
     RefChldMark, IntEnter, RefIntKill, RefIntDelete, RefTstpEnter, RefTstpKill, RefTstpLookup,
     RefTstpMark, EnterWithFgpid, HandlerRuns, Deliverable
<1>3. CASE \E p \in Pids : RefChild(p) \/ ChildDies(p)
  BY <1>3 DEF RefChild, ChildDies, Child, World, ChildSetpgid, ChildExecve, ChildExit, ChildKilled,
     ChildStopped, ChildCatches, ChildStopsItself, ChildContinued
<1>4. CASE Keyboard("INT") \/ Keyboard("TSTP") \/ UNCHANGED vars
  BY <1>4 DEF Keyboard, vars
<1> QED BY <1>1, <1>2, <1>3, <1>4 DEF RefNext

LEMMA RefMaskStep ==
  ASSUME RefInv, RefMaskOnlyInEval, [RefNext]_vars
  PROVE  RefMaskOnlyInEval'
<1>1. CASE RefCommands \/ RefMainStep
  BY <1>1 DEF RefCommands, RefMainStep, RefEvalStep, RefBgFgStep, EvalBlock, BgFgLookup, EvalFork,
     RefAddEntry, RefAddJid, EvalUnblock, WaitFg, BgFgCont, BgFgSetState, MainGoto, kernelVars,
     RefMaskOnlyInEval
<1>2. CASE \E p \in Pids : RefChild(p) \/ ChildDies(p)
  BY <1>2, RefChildKeeps DEF RefInv, mainVars, RefMaskOnlyInEval
<1>3. CASE RefLeave \/ RefChldStep \/ RefIntStep \/ RefTstpStep \/ Keyboard("INT") \/ Keyboard("TSTP")
           \/ UNCHANGED vars
  BY <1>3 DEF RefLeave, Quit, Sigquit, Exit, RefChldStep, RefIntStep, RefTstpStep, ChldEnter,
     RefChldWaitpid, ChldDelete, RefChldStop, RefChldMark, IntEnter, RefIntKill, RefIntDelete,
     RefTstpEnter, RefTstpKill, RefTstpLookup, RefTstpMark, EnterWithFgpid, Keyboard, kernelVars,
     mainVars, vars, RefMaskOnlyInEval
<1> QED BY <1>1, <1>2, <1>3 DEF RefNext

\* The reference shell loses no wake-up either, and keeps SIGCHLD out only from
\* before fork until addjob has written the whole entry (tsh-ref.c:181-199, 418-453).
THEOREM RefNoWakeUpLost == RefSpec => [](RefChangesNoticed /\ RefMaskOnlyInEval)
<1>1. Init => RefChangesNoticed /\ RefMaskOnlyInEval
  BY DEF Init, RefChangesNoticed, RefUnreported, RefMaskOnlyInEval
<1>2. RefInv /\ RefChangesNoticed /\ [RefNext]_vars => RefChangesNoticed'
  <2> SUFFICES ASSUME RefInv, RefChangesNoticed, [RefNext]_vars, status' = "running",
                      NEW q \in Pids, RefUnreported(q)'
               PROVE  NoticeDue'
    BY DEF RefChangesNoticed
  <2>1. CASE "CHLD" \in sigs'
    BY <2>1 DEF NoticeDue
  <2>2. CASE RefUnreported(q)
    BY <2>2, RefStillRunning, RefNoticeKept DEF RefChangesNoticed
  <2> QED BY <2>1, <2>2, RefChangeSignalled
<1> QED BY <1>1, <1>2, RefMaskStep, RefInvHolds, PTL DEF RefSpec

\* What a step of a handler does to the list and the children: the entries it takes
\* out are those of dead or doomed children.
LEMMA RefHandlersForget ==
  ASSUME RefInv, RefChldStep \/ RefIntStep \/ RefTstpStep
  PROVE  /\ \A i \in Slots : jobs'[i].pid # jobs[i].pid =>
              /\ jobs'[i].pid = 0
              /\ jobs[i].pid \in Pids /\ (proc[jobs[i].pid] \in Live => Doomed(jobs[i].pid))
         /\ \A q \in Pids : /\ proc'[q] \in Live => proc[q] \in Live
                            /\ Doomed(q) => Doomed(q)'
<1>1. CASE ChldEnter \/ RefChldStop \/ IntEnter \/ RefTstpEnter \/ RefTstpLookup
  BY <1>1 DEF ChldEnter, RefChldStop, IntEnter, RefTstpEnter, EnterWithFgpid, RefTstpLookup, listVars,
     kernelVars, Doomed
<1>2. CASE RefChldWaitpid
  <2>1. UNCHANGED <<listVars, pend>>
    BY <1>2 DEF RefChldWaitpid
  <2>2. \A q \in Pids : proc'[q] \in Live => proc[q] \in Live
    BY <1>2 DEF RefChldWaitpid, RefInv, RefTypeOK, Live, ProcStates
  <2> QED BY <2>1, <2>2 DEF listVars, Doomed
<1>3. CASE RefIntKill \/ RefTstpKill
  <2>1. UNCHANGED <<listVars, proc>>
    BY <1>3 DEF RefIntKill, RefTstpKill
  <2>2. \A q \in Pids : pend[q] \subseteq pend'[q]
    BY <1>3, RefKillGroup DEF RefIntKill, RefTstpKill, RefInv
  <2> QED BY <2>1, <2>2 DEF listVars, Doomed
<1>4. CASE RefChldMark \/ RefTstpMark
  <2>1. \A k \in Slots : jobs'[k].pid = jobs[k].pid
    BY <1>4, RefWrite DEF RefInv, RefTypeOK, RefListTyped, RefChldMark, RefTstpMark, States
  <2> QED BY <1>4, <2>1 DEF RefChldMark, RefTstpMark, kernelVars, Doomed
<1>5. CASE ChldDelete \/ RefIntDelete
  <2>1. PICK p \in Pids : DeleteJob(p) /\ (proc[p] \in Live => Doomed(p))
    BY <1>5 DEF ChldDelete, RefIntDelete, RefInv, DeletedIsReaped, KilledDoomed, Live
  <2>2. UNCHANGED kernelVars
    BY <1>5 DEF ChldDelete, RefIntDelete
  <2> QED BY <2>1, <2>2, RefDeletedKeeps DEF RefInv, RefTypeOK, RefListTyped, kernelVars, Doomed
<1> QED BY <1>1, <1>2, <1>3, <1>4, <1>5 DEF RefChldStep, RefIntStep, RefTstpStep

\* What the handlers of the keyboard's signals have in hand until they have used it:
\* the job the main flow waits for, still in the list unless it is dead or doomed.
RefKeyHandlerHoldsJob ==
  \A h \in {"INT", "TSTP"} : hpc[h] \in {"kill", "delete", "lookup"} =>
    /\ hpid[h] \in Pids
    /\ proc[hpid[h]] \in Live /\ ~Doomed(hpid[h]) => \E i \in Slots : Entry(i, hpid[h])
    /\ "staleWrite" \notin hist => mpid = hpid[h] /\ RefWaiting

\* ... and the SIGCHLD handler, of which it has reported the stop.
RefStopOfChild == hpc["CHLD"] = "stop" => hpid["CHLD"] \in Pids

\* A handler's own step either leaves what the other has in hand, or takes fgpid's.
LEMMA RefKeyHands ==
  ASSUME RefInv, RefChldStep \/ RefIntStep \/ RefTstpStep, NEW h \in {"INT", "TSTP"},
         hpc'[h] \in {"kill", "delete", "lookup"}
  PROVE  \/ hpc[h] \in {"kill", "delete", "lookup"} /\ hpid'[h] = hpid[h]
         \/ fgpid(jobs) # 0 /\ hpid'[h] = fgpid(jobs) /\ UNCHANGED <<listVars, proc, pend>>
<1>1. CASE RefChldStep
  BY <1>1 DEF RefChldStep, ChldEnter, RefChldWaitpid, ChldDelete, RefChldStop, RefChldMark, ErrorExit,
     Enter, Goto, Return, handlerVars, RefInv, RefTypeOK, Handlers
<1>2. CASE IntEnter \/ RefTstpEnter
  BY <1>2 DEF IntEnter, RefTstpEnter, EnterWithFgpid, Enter, handlerVars, RefInv, RefTypeOK, Handlers
<1>3. CASE RefIntKill \/ RefIntDelete \/ RefTstpKill \/ RefTstpLookup \/ RefTstpMark
  BY <1>3 DEF RefIntKill, RefIntDelete, RefTstpKill, RefTstpLookup, RefTstpMark, ErrorExit, Goto, Return,
     handlerVars, RefInv, RefTypeOK, Handlers
<1> QED BY <1>1, <1>2, <1>3 DEF RefIntStep, RefTstpStep

LEMMA RefKeyHandlerStep ==
  ASSUME RefInv, RefFgInv, RefKeyHandlerHoldsJob, [RefNext]_vars
  PROVE  RefKeyHandlerHoldsJob'
<1>1. CASE RefCommands \/ RefMainStep
  <2>1. MainRuns /\ UNCHANGED handlerVars
    BY <1>1 DEF RefCommands, RefMainStep, RefEvalStep, RefBgFgStep, EvalBlock, BgFgLookup, EvalFork,
       RefAddEntry, RefAddJid, EvalUnblock, WaitFg, BgFgCont, BgFgSetState
  <2> QED BY <2>1, RefMainAlone DEF handlerVars, Handlers, RefKeyHandlerHoldsJob
<1>2. CASE RefChldStep \/ RefIntStep \/ RefTstpStep
  <2> SUFFICES ASSUME NEW h \in {"INT", "TSTP"}, hpc'[h] \in {"kill", "delete", "lookup"}
               PROVE  /\ hpid'[h] \in Pids
                      /\ proc'[hpid'[h]] \in Live /\ "KILL" \notin pend'[hpid'[h]] =>
                           \E i \in Slots : jobs'[i].pid = hpid'[h]
                      /\ "staleWrite" \notin hist' => mpid' = hpid'[h] /\ RefWaiting'
    BY DEF RefKeyHandlerHoldsJob, Entry, Doomed
  <2>1. UNCHANGED <<mainVars, hist>>
    BY <1>2, RefHandlersWrite
  <2>2. CASE hpc[h] \in {"kill", "delete", "lookup"} /\ hpid'[h] = hpid[h]
    <3>1. hpid[h] \in Pids
      BY <2>2 DEF RefKeyHandlerHoldsJob
    <3>2. ASSUME proc'[hpid[h]] \in Live, "KILL" \notin pend'[hpid[h]]
          PROVE  \E i \in Slots : jobs'[i].pid = hpid[h]
      <4>1. proc[hpid[h]] \in Live /\ ~Doomed(hpid[h])
        BY <1>2, <3>1, <3>2, RefHandlersForget DEF Doomed
      <4>2. PICK i \in Slots : jobs[i].pid = hpid[h]
        BY <2>2, <4>1 DEF RefKeyHandlerHoldsJob, Entry
      <4> QED BY <1>2, <4>1, <4>2, RefHandlersForget
    <3>3. "staleWrite" \notin hist => mpid = hpid[h] /\ RefWaiting
      BY <2>2 DEF RefKeyHandlerHoldsJob
    <3> QED BY <2>1, <2>2, <3>1, <3>2, <3>3 DEF mainVars, RefWaiting
  <2>3. CASE fgpid(jobs) # 0 /\ hpid'[h] = fgpid(jobs) /\ UNCHANGED <<listVars, proc, pend>>
    <3>1. PICK f \in Slots : jobs[f].state = "FG" /\ jobs[f].pid = fgpid(jobs)
      BY <2>3, FgpidFinds
    <3>2. fgpid(jobs) \in Pids
      BY <2>3, <3>1 DEF RefInv, RefTypeOK
    <3>3. "staleWrite" \notin hist => mpid = fgpid(jobs) /\ RefWaiting
      BY <3>1 DEF RefFgInv, RefAwaited
    <3> QED BY <2>1, <2>3, <3>1, <3>2, <3>3 DEF mainVars, listVars, RefWaiting
  <2> QED BY <1>2, <2>2, <2>3, RefKeyHands
<1>3. CASE RefLeave \/ Keyboard("INT") \/ Keyboard("TSTP") \/ UNCHANGED vars
  BY <1>3 DEF RefLeave, Quit, Sigquit, Exit, Keyboard, vars, listVars, kernelVars, handlerVars, mainVars,
     RefKeyHandlerHoldsJob, Entry, Doomed, RefWaiting
<1>4. CASE \E p \in Pids : RefChild(p) \/ ChildDies(p)
  <2>1. UNCHANGED <<listVars, handlerVars, mainVars, hist>> /\ Fates
    BY <1>4, RefChildKeeps DEF RefInv
  <2> QED BY <2>1 DEF listVars, handlerVars, mainVars, RefKeyHandlerHoldsJob, Entry, RefWaiting, Fates
<1> QED BY <1>1, <1>2, <1>3, <1>4 DEF RefNext

LEMMA RefStopOfChildStep ==
  ASSUME RefInv, RefStopOfChild, [RefNext]_vars
  PROVE  RefStopOfChild'
<1>1. CASE RefChldStep
  BY <1>1 DEF RefChldStep, ChldEnter, RefChldWaitpid, ChldDelete, RefChldStop, RefChldMark, ErrorExit,
     Enter, Goto, Return, handlerVars, RefInv, RefTypeOK, Handlers, RefStopOfChild
<1>2. CASE RefIntStep \/ RefTstpStep
  BY <1>2 DEF RefIntStep, RefTstpStep, IntEnter, RefIntKill, RefIntDelete, RefTstpEnter, RefTstpKill,
     RefTstpLookup, RefTstpMark, EnterWithFgpid, ErrorExit, Enter, Goto, Return, handlerVars,
     RefInv, RefTypeOK, Handlers, RefStopOfChild
<1>3. CASE RefCommands \/ RefMainStep \/ RefLeave \/ Keyboard("INT") \/ Keyboard("TSTP") \/ UNCHANGED vars
  BY <1>3 DEF RefCommands, RefMainStep, RefEvalStep, RefBgFgStep, EvalBlock, BgFgLookup, EvalFork,
     RefAddEntry, RefAddJid, EvalUnblock, WaitFg, BgFgCont, BgFgSetState, RefLeave, Quit,
     Sigquit, Exit, Keyboard, handlerVars, vars, RefStopOfChild
<1>4. CASE \E p \in Pids : RefChild(p) \/ ChildDies(p)
  BY <1>4, RefChildKeeps DEF RefInv, handlerVars, RefStopOfChild
<1> QED BY <1>1, <1>2, <1>3, <1>4 DEF RefNext

LEMMA RefHandsHold == RefSpec => [](RefKeyHandlerHoldsJob /\ RefStopOfChild)
<1>1. Init => RefKeyHandlerHoldsJob /\ RefStopOfChild
  BY DEF Init, RefKeyHandlerHoldsJob, RefStopOfChild, Handlers
<1> QED BY <1>1, RefKeyHandlerStep, RefStopOfChildStep, RefInvHolds, RefFgHolds, PTL DEF RefSpec

\* How the reference shell comes to an end that nobody asked for.  sigtstp_handler
\* writes through NULL (tsh-ref.c:497) only when its job has died or has been sent
\* SIGKILL meanwhile; a kill fails only for a job that is not yet, or no longer, a
\* process group; and a stop of an unlisted child (tsh-ref.c:430) is one of a child
\* that has died or is doomed, or that the full list did not take.
RefEndsEarly ==
  [][ status = "running" =>
      /\ status' = "segv" =>
           hpc["TSTP"] = "lookup" /\ (proc[hpid["TSTP"]] \in Live => Doomed(hpid["TSTP"]))
      /\ status' = "error" =>
           \/ \E h \in {"INT", "TSTP"} : hpc[h] = "kill" /\ proc[hpid[h]] \in {"none", "forked"}
           \/ /\ hpc["CHLD"] = "stop"
              /\ \/ proc[hpid["CHLD"]] \in Live => Doomed(hpid["CHLD"])
                 \/ "untracked" \in hist ]_vars

\* The reference shell is ended by its own handlers only as RefEndsEarly says (the three
\* handlers of tsh-ref.c).
THEOREM RefEndsEarlyHolds == RefSpec => RefEndsEarly
<1> DEFINE Ends ==
      status = "running" =>
        /\ status' = "segv" =>
             hpc["TSTP"] = "lookup" /\ (proc[hpid["TSTP"]] \in Live => Doomed(hpid["TSTP"]))
        /\ status' = "error" =>
             \/ \E h \in {"INT", "TSTP"} : hpc[h] = "kill" /\ proc[hpid[h]] \in {"none", "forked"}
             \/ /\ hpc["CHLD"] = "stop"
                /\ \/ proc[hpid["CHLD"]] \in Live => Doomed(hpid["CHLD"])
                   \/ "untracked" \in hist
<1>1. ASSUME RefInv, RefKeyHandlerHoldsJob, RefStopOfChild, ForgottenOnlyDoomed, [RefNext]_vars
      PROVE  [Ends]_vars
  <2>1. CASE RefTstpLookup
    <3>1. /\ hpc["TSTP"] = "lookup" /\ status' \in {"segv", status}
          /\ status' = "segv" => getjobpid(jobs, hpid["TSTP"]) = NULL \/ status' = status
      BY <2>1 DEF RefTstpLookup
    <3>2. getjobpid(jobs, hpid["TSTP"]) = NULL => ~\E i \in Slots : Entry(i, hpid["TSTP"])
      BY <1>1, <3>1, GetjobpidFinds DEF Entry, RefKeyHandlerHoldsJob
    <3> QED BY <1>1, <3>1, <3>2 DEF RefKeyHandlerHoldsJob
  <2>2. CASE RefIntKill \/ RefTstpKill
    BY <2>2 DEF RefIntKill, RefTstpKill, ErrorExit, GroupExists
  <2>3. CASE RefChldStop
    <3>1. /\ hpc["CHLD"] = "stop" /\ status' \in {"error", status}
          /\ status' = "error" => getjobpid(jobs, hpid["CHLD"]) = NULL \/ status' = status
      BY <2>3 DEF RefChldStop, ErrorExit
    <3>2. hpid["CHLD"] \in Pids
      BY <1>1, <3>1 DEF RefStopOfChild
    <3>3. getjobpid(jobs, hpid["CHLD"]) = NULL => ~\E i \in Slots : Entry(i, hpid["CHLD"])
      BY <3>2, GetjobpidFinds DEF Entry
    <3>4. mpc # "addjob"
      BY <1>1, <2>3 DEF RefChldStop, HandlerRuns, RefMaskHeld, RefInv
    <3> QED BY <1>1, <3>1, <3>2, <3>3, <3>4 DEF ForgottenOnlyDoomed
  <2>4. CASE RefCommands \/ RefMainStep \/ RefLeave \/ Keyboard("INT") \/ Keyboard("TSTP")
    BY <2>4 DEF RefCommands, RefMainStep, RefEvalStep, RefBgFgStep, EvalBlock, BgFgLookup, EvalFork,
       RefAddEntry, RefAddJid, EvalUnblock, WaitFg, BgFgCont, BgFgSetState, RefLeave, Quit, Sigquit,
       Exit, Keyboard
  <2>5. CASE ChldEnter \/ RefChldWaitpid \/ ChldDelete \/ RefChldMark \/ IntEnter \/ RefIntDelete
             \/ RefTstpEnter \/ RefTstpMark
    BY <2>5 DEF ChldEnter, RefChldWaitpid, ChldDelete, RefChldMark, IntEnter, RefIntDelete, RefTstpEnter,
       RefTstpMark, EnterWithFgpid
  <2>6. CASE \E p \in Pids : RefChild(p) \/ ChildDies(p)
    BY <1>1, <2>6, RefChildKeeps DEF RefInv
  <2> QED BY <1>1, <2>1, <2>2, <2>3, <2>4, <2>5, <2>6 DEF RefNext, RefChldStep, RefIntStep, RefTstpStep
<1>2. RefSpec => [][Ends]_vars
  <2> HIDE DEF Ends
  <2> QED BY <1>1, RefInvHolds, RefHandsHold, ForgottenOnlyDoomedHolds, PTL DEF RefSpec
<1> QED BY <1>2 DEF RefEndsEarly

\* SIGKILL once sent is not taken back: whatever the child, the keyboard and do_bgfg do,
\* it stays pending until the child is a zombie (tsh-ref.c:468), which then is in the
\* SIGCHLD handler's hands (RefNoWakeUpLost).  The safety half of InterruptEndsJob.
RefKillStays ==
  [][ \A p \in Pids : Doomed(p) => Doomed(p)' \/ proc'[p] \notin Live ]_vars

\* Nothing the shell, the keyboard or the children do takes a SIGKILL back
\* (sigint_handler and do_bgfg of tsh-ref.c).
THEOREM RefKillStaysHolds == RefSpec => RefKillStays
<1>1. ASSUME RefInv, [RefNext]_vars, NEW p \in Pids, Doomed(p), proc'[p] \in Live
      PROVE  Doomed(p)'
  <2>1. CASE UNCHANGED <<proc, pend>> \/ EvalFork
    BY <1>1, <2>1 DEF EvalFork, Doomed
  <2>2. CASE BgFgCont
    BY <1>1, <2>2, RefContinue DEF BgFgCont, RefInv, RefTypeOK, Fates
  <2>3. CASE RefChldWaitpid
    BY <1>1, <2>3 DEF RefChldWaitpid, Doomed
  <2>4. CASE RefIntKill \/ RefTstpKill
    BY <1>1, <2>4, RefKillGroup DEF RefIntKill, RefTstpKill, RefInv, Doomed
  <2>5. CASE \E q \in Pids : RefChild(q) \/ ChildDies(q)
    BY <1>1, <2>5, RefChildKeeps DEF RefInv, Fates
  <2> QED BY <1>1, <2>1, <2>2, <2>3, <2>4, <2>5, RefChildrenBySteps
<1>2. RefInv /\ [RefNext]_vars =>
        [\A p \in Pids : Doomed(p) => Doomed(p)' \/ proc'[p] \notin Live]_vars
  BY <1>1
<1> QED BY <1>2, RefInvHolds, PTL DEF RefSpec, RefKillStays

-----------------------------------------------------------------------------
(* Stops in the reference shell's list.                                    *)

\* A child known to be stopped is ST in the list, or the SIGCHLD handler is between
\* waitpid and the write, unless do_bgfg wrote over it.
RefStopRecorded ==
  "lostStop" \notin hist =>
    \A p \in Pids, i \in Slots :
      proc[p] = "stopped" /\ Entry(i, p) =>
        \/ jobs[i].state = "ST"
        \/ hpc["CHLD"] = "stop" /\ hpid["CHLD"] = p
        \/ hpc["CHLD"] = "mark" /\ hpid["CHLD"] = i

RefStopInv == FreshNotStopped /\ RefStopRecorded

\* Only the SIGCHLD handler learns of a stop.
LEMMA RefStopsByWaitpid ==
  ASSUME RefInv, [RefNext]_vars, ~RefChldWaitpid, NEW q \in Pids, proc'[q] = "stopped"
  PROVE  proc[q] = "stopped"
<1>1. CASE UNCHANGED proc
  BY <1>1
<1>2. CASE EvalFork
  BY <1>2 DEF EvalFork, RefInv, RefTypeOK
<1>3. CASE BgFgCont
  BY <1>3 DEF BgFgCont, Continue, RefInv, RefTypeOK
<1>4. CASE \E p \in Pids : RefChild(p) \/ ChildDies(p)
  BY <1>4 DEF RefChild, ChildDies, Child, ChildSetpgid, ChildExecve, ChildExit, ChildKilled, ChildStopped,
     ChildCatches, ChildStopsItself, ChildContinued, ChildChanges, Continue, RefInv, RefTypeOK
<1>5. CASE RefIntKill \/ RefTstpKill
  BY <1>1, <1>5 DEF RefIntKill, RefTstpKill
<1> QED BY <1>1, <1>2, <1>3, <1>4, <1>5, RefChildrenBySteps

LEMMA RefFreshStep ==
  ASSUME RefInv, FreshNotStopped, [RefNext]_vars
  PROVE  FreshNotStopped'
<1> SUFFICES ASSUME mpc' = "addjob", mpid' \in Pids PROVE proc'[mpid'] # "stopped"
  BY DEF FreshNotStopped
<1>1. CASE EvalFork
  BY <1>1, JobListAssumption DEF EvalFork, FORK_FAILED, RefInv, RefTypeOK
<1>2. CASE ~EvalFork
  <2>1. mpc = "addjob" /\ mpid' = mpid
    <3>1. CASE RefCommands \/ RefMainStep
      BY <1>2, <3>1 DEF RefCommands, RefMainStep, RefEvalStep, RefBgFgStep, EvalBlock, BgFgLookup,
         RefAddEntry, RefAddJid, EvalUnblock, WaitFg, BgFgCont, BgFgSetState, ToPrompt, MainGoto
    <3>2. CASE RefChldStep \/ RefIntStep \/ RefTstpStep
      BY <3>2, RefHandlersWrite DEF mainVars
    <3>3. CASE RefLeave \/ Keyboard("INT") \/ Keyboard("TSTP") \/ UNCHANGED vars
      BY <3>3 DEF RefLeave, Quit, Sigquit, Exit, Keyboard, vars, mainVars
    <3>4. CASE \E p \in Pids : RefChild(p) \/ ChildDies(p)
      BY <3>4, RefChildKeeps DEF RefInv, mainVars
    <3> QED BY <3>1, <3>2, <3>3, <3>4 DEF RefNext
  <2>2. ~RefChldWaitpid
    BY <2>1 DEF RefChldWaitpid, HandlerRuns, RefInv, RefMaskHeld
  <2> QED BY <2>1, <2>2, RefStopsByWaitpid DEF FreshNotStopped
<1> QED BY <1>1, <1>2

\* The handler leaves "stop" for "mark" with the entry, and "mark" by writing ST.
LEMMA RefStopHandled ==
  ASSUME RefInv, RefChldStep \/ RefIntStep \/ RefTstpStep,
         NEW p \in Pids, NEW i \in Slots, jobs[i].pid = p, jobs'[i].pid = p,
         \/ jobs[i].state = "ST"
         \/ hpc["CHLD"] = "stop" /\ hpid["CHLD"] = p
         \/ hpc["CHLD"] = "mark" /\ hpid["CHLD"] = i
  PROVE  \/ jobs'[i].state = "ST"
         \/ hpc'["CHLD"] = "stop" /\ hpid'["CHLD"] = p
         \/ hpc'["CHLD"] = "mark" /\ hpid'["CHLD"] = i
<1>0. p # 0
  BY JobListAssumption
<1>1. jobs[i].state = "ST" => jobs'[i].state = "ST"
  BY <1>0, RefHandlersWrite
<1>2. CASE RefChldStop
  <2>1. hpc["CHLD"] = "stop" /\ UNCHANGED jobs
    BY <1>2 DEF RefChldStop, listVars
  <2>2. CASE ErrorExit
    BY <1>1, <2>1, <2>2 DEF ErrorExit, handlerVars
  <2>3. CASE Goto("CHLD", "mark", getjobpid(jobs, hpid["CHLD"])) /\ getjobpid(jobs, hpid["CHLD"]) # NULL
    <3>1. hpid["CHLD"] = p => getjobpid(jobs, hpid["CHLD"]) = i
      BY <1>0, <2>3, GetjobpidFinds DEF RefInv, PidsUnique
    <3>2. hpc'["CHLD"] = "mark" /\ hpid'["CHLD"] = getjobpid(jobs, hpid["CHLD"])
      BY <2>3 DEF Goto, RefInv, RefTypeOK, Handlers
    <3> QED BY <1>1, <2>1, <3>1, <3>2
  <2> QED BY <1>2, <2>2, <2>3 DEF RefChldStop
<1>3. CASE RefChldMark
  <2>1. hpc["CHLD"] = "mark" /\ SetState(hpid["CHLD"], "ST")
    BY <1>3 DEF RefChldMark
  <2>2. hpid["CHLD"] = i => jobs'[i].state = "ST"
    BY <2>1, RefWrite DEF RefInv, RefTypeOK, RefListTyped, States
  <2> QED BY <1>1, <2>1, <2>2
<1>4. CASE ChldEnter \/ RefChldWaitpid \/ ChldDelete
  <2>1. hpc["CHLD"] \notin {"stop", "mark"}
    BY <1>4 DEF ChldEnter, RefChldWaitpid, ChldDelete, Deliverable, RefInv, HandlersIdle, Handlers
  <2> QED BY <1>1, <2>1
<1>5. CASE RefIntStep \/ RefTstpStep
  <2>1. hpc'["CHLD"] = hpc["CHLD"] /\ hpid'["CHLD"] = hpid["CHLD"]
    BY <1>5 DEF RefIntStep, RefTstpStep, IntEnter, RefIntKill, RefIntDelete, RefTstpEnter, RefTstpKill,
       RefTstpLookup, RefTstpMark, EnterWithFgpid, ErrorExit, Enter, Goto, Return, handlerVars, RefInv,
       RefTypeOK, Handlers
  <2> QED BY <1>1, <2>1
<1> QED BY <1>2, <1>3, <1>4, <1>5 DEF RefChldStep

LEMMA RefStopRecordedStep ==
  ASSUME RefInv, RefFgInv, RefStopInv, [RefNext]_vars
  PROVE  RefStopRecorded'
<1> SUFFICES ASSUME "lostStop" \notin hist', NEW p \in Pids, NEW i \in Slots,
                    proc'[p] = "stopped", jobs'[i].pid = p
             PROVE  \/ jobs'[i].state = "ST"
                    \/ hpc'["CHLD"] = "stop" /\ hpid'["CHLD"] = p
                    \/ hpc'["CHLD"] = "mark" /\ hpid'["CHLD"] = i
  BY DEF RefStopRecorded, Entry
<1>0. p # 0
  BY JobListAssumption
<1>1. ASSUME "lostStop" \notin hist, proc[p] = "stopped", jobs[i].pid = p
      PROVE  \/ jobs[i].state = "ST"
             \/ hpc["CHLD"] = "stop" /\ hpid["CHLD"] = p
             \/ hpc["CHLD"] = "mark" /\ hpid["CHLD"] = i
  BY <1>1 DEF RefStopInv, RefStopRecorded, Entry
<1>2. CASE RefChldStep \/ RefIntStep \/ RefTstpStep
  <2>1. jobs[i].pid = p /\ "lostStop" \notin hist
    BY <1>0, <1>2, RefHandlersWrite
  <2>2. CASE proc[p] = "stopped"
    BY <1>1, <1>2, <2>1, <2>2, RefStopHandled
  <2>3. CASE proc[p] # "stopped"
    <3>1. RefChldWaitpid
      BY <2>3, RefStopsByWaitpid
    <3>2. Goto("CHLD", "stop", p)
      BY <2>3, <3>1 DEF RefChldWaitpid, RefInv, RefTypeOK
    <3> QED BY <3>2 DEF Goto, RefInv, RefTypeOK, Handlers
  <2> QED BY <2>2, <2>3
<1>3. CASE UNCHANGED <<listVars, handlerVars>> /\ hist \subseteq hist' /\ ~RefChldWaitpid
  <2>1. proc[p] = "stopped"
    BY <1>3, RefStopsByWaitpid
  <2> QED BY <1>1, <1>3, <2>1 DEF listVars, handlerVars
<1>4. CASE RefAddEntry
  <2>1. UNCHANGED <<kernelVars, handlerVars, mpid>> /\ mpc = "addjob" /\ hist \subseteq hist'
    BY <1>4 DEF RefAddEntry
  <2>2. CASE mpid \in Pids /\ FreeSlots(jobs) # {}
    <3>1. /\ jobs'[mslot'].pid = mpid /\ \A k \in Slots \ {mslot'} : jobs'[k] = jobs[k]
      BY <1>4, <2>2, RefAddsEntry DEF RefInv
    <3>2. p # mpid
      BY <2>1, <2>2 DEF RefStopInv, FreshNotStopped, kernelVars
    <3> QED BY <1>1, <2>1, <3>1, <3>2 DEF kernelVars, handlerVars
  <2>3. CASE UNCHANGED jobs
    BY <1>1, <2>1, <2>3 DEF kernelVars, handlerVars
  <2> QED BY <1>4, <2>2, <2>3 DEF RefAddEntry
<1>5. CASE RefAddJid
  <2>1. jobs'[i].pid = jobs[i].pid /\ jobs'[i].state = jobs[i].state
    BY <1>5 DEF RefAddJid, RefInv, RefTypeOK
  <2> QED BY <1>1, <1>5, <2>1 DEF RefAddJid, kernelVars, handlerVars
<1>6. CASE BgFgSetState
  <2>1. MainRuns /\ SetState(mslot, mstate) /\ UNCHANGED <<proc, handlerVars>> /\ mpc = "setstate"
    BY <1>6 DEF BgFgSetState, kernelVars
  <2>2. hpc["CHLD"] = "idle" /\ "lostStop" \notin hist
    BY <1>6, <2>1, RefMainAlone DEF BgFgSetState, Handlers
  <2>3. /\ jobs'[i].pid = jobs[i].pid
        /\ i # mslot => jobs'[i].state = jobs[i].state
    BY <2>1, RefWrite DEF RefInv, RefTypeOK, RefListTyped, States
  <2>4. jobs[i].state = "ST"
    BY <1>1, <2>1, <2>2, <2>3
  <2>5. jobs[mslot].pid \in {mpid, 0}
    BY <2>1 DEF RefFgInv, SlotKept
  <2>6. i # mslot
    BY <1>0, <1>6, <2>1, <2>3, <2>4, <2>5 DEF BgFgSetState
  <2> QED BY <2>3, <2>4, <2>6
<1>7. CASE RefCommands \/ EvalFork \/ EvalUnblock \/ WaitFg \/ BgFgCont
  <2>1. MainRuns /\ UNCHANGED <<listVars, handlerVars, hist>>
    BY <1>7 DEF RefCommands, EvalBlock, BgFgLookup, EvalFork, EvalUnblock, WaitFg, BgFgCont
  <2>2. ~RefChldWaitpid
    BY <2>1, RefMainAlone DEF RefChldWaitpid, Handlers
  <2> QED BY <1>3, <2>1, <2>2
<1>8. CASE RefLeave \/ Keyboard("INT") \/ Keyboard("TSTP") \/ UNCHANGED vars
  <2>1. UNCHANGED <<listVars, handlerVars, proc, hist>>
    BY <1>8 DEF RefLeave, Quit, Sigquit, Exit, Keyboard, vars, kernelVars
  <2> QED BY <1>1, <2>1 DEF listVars, handlerVars
<1>9. CASE \E q \in Pids : RefChild(q) \/ ChildDies(q)
  <2>1. UNCHANGED <<listVars, handlerVars, hist>>
    BY <1>9, RefChildKeeps DEF RefInv
  <2> QED BY <1>2, <1>3, <2>1 DEF RefChldStep
<1> QED BY <1>2, <1>4, <1>5, <1>6, <1>7, <1>8, <1>9 DEF RefNext, RefMainStep, RefEvalStep, RefBgFgStep

\* Although its SIGCHLD handler looks the job up and writes in two steps, between which
\* the keyboard's handlers may write the list, the reference shell records every stop.
THEOREM RefStopRecordedHolds == RefSpec => []RefStopRecorded
<1>1. Init => RefStopInv
  BY DEF Init, RefStopInv, FreshNotStopped, RefStopRecorded
<1>2. RefInv /\ RefFgInv /\ RefStopInv /\ [RefNext]_vars => RefStopInv'
  BY RefFreshStep, RefStopRecordedStep DEF RefStopInv
<1>3. RefStopInv => RefStopRecorded
  BY DEF RefStopInv
<1> QED BY <1>1, <1>2, <1>3, RefInvHolds, RefFgHolds, PTL DEF RefSpec

\* waitfg of the reference shell never waits for a change that nobody will make:
\* its job can still run or is about to be killed, or the SIGCHLD handler is at work or
\* about to be called, unless do_bgfg wrote FG over the job's stop.
RefWaitfgNotForgotten ==
  status = "running" /\ mpc = "waitfg" /\ mpid = fgpid(jobs) =>
    \/ proc[mpid] \in Live \ {"stopping", "stopped"}
    \/ Doomed(mpid)
    \/ hpc["CHLD"] # "idle"
    \/ "CHLD" \in sigs /\ ~masked
    \/ proc[mpid] = "stopped" /\ "lostStop" \in hist

\* waitfg's loop (tsh-ref.c:399) never waits for ever for want of a signal.
THEOREM RefWaitfgNotForgottenHolds == RefSpec => []RefWaitfgNotForgotten
<1>1. ASSUME RefInv, RefFgInv, RefStopRecorded, RefChangesNoticed, RefMaskOnlyInEval
      PROVE  RefWaitfgNotForgotten
  <2> SUFFICES ASSUME status = "running", mpc = "waitfg", mpid = fgpid(jobs), ~Doomed(mpid),
                      hpc["CHLD"] = "idle", ~("CHLD" \in sigs /\ ~masked)
               PROVE  \/ proc[mpid] \in Live \ {"stopping", "stopped"}
                      \/ proc[mpid] = "stopped" /\ "lostStop" \in hist
    BY DEF RefWaitfgNotForgotten
  <2>1. ~masked /\ ~NoticeDue
    BY <1>1 DEF RefMaskOnlyInEval, NoticeDue
  <2>2. mpid # 0
    BY <1>1 DEF RefFgInv, RefAwaited
  <2>3. PICK i \in Slots : jobs[i].state = "FG" /\ jobs[i].pid = mpid
    BY <2>2, FgpidFinds
  <2>4. mpid \in Pids /\ proc[mpid] \in ProcStates
    BY <1>1, <2>2, <2>3 DEF RefInv, RefTypeOK
  <2>5. proc[mpid] # "none"
    BY <1>1, <2>2, <2>3 DEF RefInv, EntriesLive
  <2>6. proc[mpid] \notin {"zombie", "stopping"}
    BY <1>1, <2>1, <2>4 DEF RefChangesNoticed, RefUnreported
  <2>7. proc[mpid] = "stopped" => "lostStop" \in hist
    BY <1>1, <2>3, <2>4 DEF RefStopRecorded, Entry
  <2> QED BY <2>4, <2>5, <2>6, <2>7 DEF ProcStates, Live
<1> QED BY <1>1, RefInvHolds, RefFgHolds, RefStopRecordedHolds, RefNoWakeUpLost, PTL
=============================================================================
