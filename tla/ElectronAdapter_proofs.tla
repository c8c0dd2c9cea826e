------------------------ MODULE ElectronAdapter_proofs ------------------------
(***************************************************************************)
(* Proofs about ElectronAdapter for any set of pids: any number of         *)
(* launches by one adapter, in any interleaving with the kernel and the    *)
(* applications.                                                           *)
(*                                                                         *)
(* The invariants of ElectronAdapter are not inductive by themselves.      *)
(* NoFrozenApp needs to know that the frozen application is the one        *)
(* child_pid_ names, or resume() would continue another one; StopReapsChild*)
(* that child_pid_ always names the last child forked; both that stop() is *)
(* in progress only with a child and a live status.  IInv says so.         *)
(*                                                                         *)
(* Two parts follow: what a stop() that is bound to return needs of every  *)
(* step until it does (Returning), and the refinement: with one launch,    *)
(* the adapter and its processes are the machine of AdapterLifecycle.      *)
(***************************************************************************)
EXTENDS ElectronAdapter, TLAPS

\* child_pid_ is the last child forked, until stop() has collected it.
Tracking ==
  /\ child_pid # NoPid => child_pid = latest /\ status # "Terminated"
  /\ latest # NoPid => proc[latest].life # "unborn" /\ ~use_mocks
  /\ child_pid = NoPid /\ latest # NoPid =>
       /\ status = "Terminated"
       /\ proc[latest].life = "reaped"
       /\ ~auto_reap => exit_code \in {proc[latest].code, 137}

\* stop() waits only for a child, and the status is still the one it found.
StopInProgress ==
  pc # "idle" => child_pid # NoPid /\ status \in {"Running", "Suspended"}

\* A frozen application is the tracked one, in its group, while Suspended.
FrozenIsTracked ==
  \A p \in Pids :
    proc[p].stopped => status = "Suspended" /\ p = child_pid /\ InGroup(p)

IInv ==
  /\ TypeOK
  /\ Tracking
  /\ StopInProgress
  /\ PidStaysOurs
  /\ FrozenIsTracked

-------------------------------------------------------------------------------
\* What a signal to a group does to the kernel's tables: it keeps their types,
\* touches no other application, unmakes no pid, and freezes only a member of
\* the group, with SIGSTOP only; SIGCONT leaves the member running.
LEMMA KillGroupEffect ==
  ASSUME TypeOK, NEW p \in Pids, NEW sig \in {"TERM", "KILL", "STOP", "CONT"},
         proc[p].stopped => InGroup(p),
         KillGroup(p, sig)
  PROVE  /\ proc' \in [Pids -> Process]
         /\ helper' \in [Pids -> HelperState]
         /\ auto_reap' = auto_reap
         /\ \A q \in Pids : q # p => proc'[q] = proc[q]
         /\ proc[p].life # "unborn" => proc'[p].life # "unborn"
         /\ ~auto_reap /\ proc[p].life # "reaped" => proc'[p].life # "reaped"
         /\ proc'[p].stopped =>
              /\ InGroup(p)'
              /\ sig # "CONT"
              /\ sig = "STOP" \/ proc[p].stopped
<1>1. proc[p] \in Process /\ helper[p] \in HelperState
  BY DEF TypeOK
<1>2. Ended(proc[p], 137) \in Process
  BY DEF TypeOK, Ended, Process, Life, ExitCodes
<1>3. Signalled(proc[p], sig) \in Process
  <2>1. /\ [proc[p] EXCEPT !.term = TRUE] \in Process
        /\ [proc[p] EXCEPT !.stopped = TRUE] \in Process
        /\ [proc[p] EXCEPT !.stopped = FALSE] \in Process
    BY <1>1 DEF Process
  <2>2. QED
    BY <1>2, <2>1, Zenon DEF Signalled
<1>4. HelperSignalled(helper[p], sig) \in HelperState
  BY <1>1 DEF HelperSignalled, HelperState
<1>5. proc' \in [Pids -> Process] /\ helper' \in [Pids -> HelperState]
  BY <1>3, <1>4 DEF KillGroup, TypeOK
<1>6. auto_reap' = auto_reap /\ \A q \in Pids : q # p => proc'[q] = proc[q]
  BY DEF KillGroup, TypeOK
<1>7. proc'[p] = IF InGroup(p) THEN Signalled(proc[p], sig) ELSE proc[p]
  BY DEF KillGroup, TypeOK
<1>8. CASE ~InGroup(p)
  BY <1>5, <1>6, <1>7, <1>8 DEF InGroup
<1>9. CASE InGroup(p)
  <2>1. CASE sig = "TERM"
    BY <1>1, <1>5, <1>6, <1>7, <1>9, <2>1 DEF Signalled, InGroup, Process
  <2>2. CASE sig = "KILL"
    BY <1>1, <1>5, <1>6, <1>7, <1>9, <2>2 DEF Signalled, Ended, InGroup
  <2>3. CASE sig = "STOP"
    BY <1>1, <1>5, <1>6, <1>7, <1>9, <2>3 DEF Signalled, InGroup, Process
  <2>4. CASE sig = "CONT"
    BY <1>1, <1>5, <1>6, <1>7, <1>9, <2>4 DEF Signalled, InGroup, Process
  <2>5. QED
    BY <2>1, <2>2, <2>3, <2>4
<1>10. QED
  BY <1>8, <1>9

-------------------------------------------------------------------------------
LEMMA InitIInv == Init => IInv
<1> SUFFICES ASSUME Init
             PROVE  IInv
  OBVIOUS
<1>1. TypeOK
  BY DEF Init, TypeOK, AdapterStatus, ExitCodes, StopPc, Process, Life, Unborn,
         HelperState
<1>2. Tracking /\ StopInProgress /\ PidStaysOurs
  BY DEF Init, Tracking, StopInProgress, PidStaysOurs
<1>3. FrozenIsTracked
  BY DEF Init, FrozenIsTracked, Unborn
<1>4. QED
  BY <1>1, <1>2, <1>3 DEF IInv

\* The calls of the adapter other than the fork and the signals.
LEMMA StatusStepIInv ==
  ASSUME IInv, Initialize \/ Start \/ ExecuteFails \/ StopWithoutChild
  PROVE  IInv'
<1> USE DEF osVars
<1>1. TypeOK'
  BY DEF IInv, TypeOK, AdapterStatus, ExitCodes, Initialize, Start,
         ExecuteFails, StopWithoutChild
<1>2. Tracking'
  BY DEF IInv, Tracking, Initialize, Start, ExecuteFails, StopWithoutChild
<1>3. StopInProgress' /\ PidStaysOurs'
  BY DEF IInv, StopInProgress, PidStaysOurs, Initialize, Start, ExecuteFails,
         StopWithoutChild
<1>4. FrozenIsTracked'
  BY NoPidAssumption DEF IInv, FrozenIsTracked, InGroup, Initialize, Start,
         ExecuteFails, StopWithoutChild
<1>5. QED
  BY <1>1, <1>2, <1>3, <1>4 DEF IInv

LEMMA ExecuteIInv ==
  ASSUME IInv, NEW p \in Pids, Execute(p)
  PROVE  IInv'
<1> USE NoPidAssumption
<1>1. [proc[p] EXCEPT !.life = "forked"] \in Process
  BY DEF IInv, TypeOK, Process, Life
<1>2. TypeOK'
  BY <1>1 DEF IInv, TypeOK, Execute
<1>3. /\ proc'[p].life = "forked"
      /\ proc'[p].stopped = proc[p].stopped
      /\ \A q \in Pids : q # p => proc'[q] = proc[q]
  BY DEF IInv, TypeOK, Execute, Process
<1>4. Tracking' /\ StopInProgress' /\ PidStaysOurs'
  BY <1>3 DEF IInv, Tracking, StopInProgress, PidStaysOurs, Execute
<1>5. FrozenIsTracked'
  BY <1>3 DEF IInv, FrozenIsTracked, InGroup, Execute
<1>6. QED
  BY <1>2, <1>4, <1>5 DEF IInv

\* suspend() and resume(): the lemma on KillGroup when a signal goes out.
LEMMA SuspendResumeIInv ==
  ASSUME IInv, Suspend \/ Resume
  PROVE  IInv'
<1> USE NoPidAssumption
<1>1. CASE child_pid # NoPid /\ ~use_mocks
  <2>0. PICK c \in Pids : c = child_pid
    BY <1>1 DEF IInv, TypeOK
  <2>1. PICK sig \in {"STOP", "CONT"} :
          /\ KillGroup(c, sig)
          /\ sig = "STOP" => status' = "Suspended"
          /\ sig = "CONT" => status' = "Running"
    BY <1>1, <2>0 DEF Suspend, Resume, SignalChild
  <2>3. proc[c].stopped => InGroup(c)
    BY DEF IInv, FrozenIsTracked
  <2>4. /\ proc' \in [Pids -> Process]
        /\ helper' \in [Pids -> HelperState]
        /\ auto_reap' = auto_reap
        /\ \A q \in Pids : q # c => proc'[q] = proc[q]
        /\ proc[c].life # "unborn" => proc'[c].life # "unborn"
        /\ ~auto_reap /\ proc[c].life # "reaped"
             => proc'[c].life # "reaped"
        /\ proc'[c].stopped => InGroup(c)' /\ sig # "CONT"
    BY <2>1, <2>3, KillGroupEffect DEF IInv
  <2>5. UNCHANGED <<exit_code, child_pid, use_mocks, pc, latest>>
    BY DEF Suspend, Resume
  <2>6. TypeOK'
    BY <2>1, <2>4, <2>5 DEF IInv, TypeOK, AdapterStatus
  <2>7. Tracking' /\ StopInProgress' /\ PidStaysOurs'
    BY <1>1, <2>0, <2>1, <2>4, <2>5
    DEF IInv, Tracking, StopInProgress, PidStaysOurs, Suspend, Resume
  <2>8. FrozenIsTracked'
    BY <2>0, <2>1, <2>4, <2>5 DEF IInv, FrozenIsTracked, InGroup
  <2>9. QED
    BY <2>6, <2>7, <2>8 DEF IInv
<1>2. CASE ~(child_pid # NoPid /\ ~use_mocks)
  <2>1. /\ UNCHANGED <<exit_code, child_pid, use_mocks, pc, latest>>
        /\ UNCHANGED <<proc, helper, auto_reap>>
        /\ status' \in {"Suspended", "Running"}
        /\ status \in {"Suspended", "Running"}
        /\ pc = "idle"
    BY <1>2 DEF Suspend, Resume, SignalChild, osVars
  <2>2. \A p \in Pids : ~proc[p].stopped
    BY <1>2 DEF IInv, Tracking, FrozenIsTracked
  <2>3. QED
    BY <2>1, <2>2, <1>2
    DEF IInv, TypeOK, AdapterStatus, Tracking, StopInProgress, PidStaysOurs,
        FrozenIsTracked
<1>3. QED
  BY <1>1, <1>2

\* stop() sending SIGTERM or SIGKILL.
LEMMA StopSignalIInv ==
  ASSUME IInv, StopTerm \/ StopKill
  PROVE  IInv'
<1> USE NoPidAssumption
<1>1. PICK c \in Pids : c = child_pid
  BY DEF IInv, TypeOK, StopInProgress, StopTerm, StopKill
<1>2. PICK sig \in {"TERM", "KILL"} : KillGroup(c, sig)
  BY <1>1 DEF StopTerm, StopKill
<1>3. proc[c].stopped => InGroup(c)
  BY DEF IInv, FrozenIsTracked
<1>4. /\ proc' \in [Pids -> Process]
      /\ helper' \in [Pids -> HelperState]
      /\ auto_reap' = auto_reap
      /\ \A q \in Pids : q # c => proc'[q] = proc[q]
      /\ proc[c].life # "unborn" => proc'[c].life # "unborn"
      /\ ~auto_reap /\ proc[c].life # "reaped"
           => proc'[c].life # "reaped"
      /\ proc'[c].stopped =>
           InGroup(c)' /\ proc[c].stopped
  BY <1>2, <1>3, KillGroupEffect DEF IInv
<1>5. /\ UNCHANGED <<status, exit_code, child_pid, use_mocks, latest>>
      /\ pc' \in {"polling", "waiting"}
      /\ status \in {"Running", "Suspended"}
  BY DEF IInv, StopInProgress, StopTerm, StopKill
<1>6. TypeOK'
  BY <1>4, <1>5 DEF IInv, TypeOK, StopPc
<1>7. Tracking' /\ StopInProgress' /\ PidStaysOurs'
  BY <1>1, <1>4, <1>5 DEF IInv, Tracking, StopInProgress, PidStaysOurs
<1>8. FrozenIsTracked'
  BY <1>1, <1>4, <1>5 DEF IInv, FrozenIsTracked, InGroup
<1>9. QED
  BY <1>6, <1>7, <1>8 DEF IInv

LEMMA StopDeadlineIInv ==
  ASSUME IInv, StopDeadline
  PROVE  IInv'
BY DEF IInv, TypeOK, StopPc, Tracking, StopInProgress, PidStaysOurs,
       FrozenIsTracked, InGroup, StopDeadline, osVars

\* stop() returning.
LEMMA StopEndIInv ==
  ASSUME IInv, StopReaps \/ StopNoSuchChild \/ StopWaited
  PROVE  IInv'
<1> USE NoPidAssumption
<1> DEFINE c == child_pid
<1>1. c \in Pids /\ c # NoPid /\ c = latest
  BY DEF IInv, TypeOK, Tracking, StopInProgress, StopReaps, StopNoSuchChild,
         StopWaited
<1>2. /\ proc[c].life \in {"zombie", "reaped"}
      /\ proc[c].life = "reaped" => auto_reap
  BY <1>1 DEF IInv, PidStaysOurs, StopReaps, StopNoSuchChild, StopWaited
<1>3. \A p \in Pids : ~proc[p].stopped
  BY <1>2 DEF IInv, FrozenIsTracked, InGroup
<1>4. [proc[c] EXCEPT !.life = "reaped"] \in Process
  BY <1>1 DEF IInv, TypeOK, Process, Life
<1>5. /\ proc' \in [Pids -> Process]
      /\ helper' = helper /\ auto_reap' = auto_reap
      /\ proc'[c].life = "reaped"
      /\ proc'[c].code = proc[c].code
      /\ \A p \in Pids : ~proc'[p].stopped
  <2>1. CASE StopNoSuchChild
    BY <2>1, <1>3 DEF IInv, TypeOK, StopNoSuchChild, osVars
  <2>2. CASE Reap(c)
    <3>1. proc' = [proc EXCEPT ![c] = [proc[c] EXCEPT !.life = "reaped"]]
      BY <2>2 DEF Reap
    <3>2. proc[c] \in Process
      BY <1>1 DEF IInv, TypeOK
    <3>3. /\ proc'[c] = [proc[c] EXCEPT !.life = "reaped"]
          /\ \A p \in Pids : p # c => proc'[p] = proc[p]
      BY <3>1, <1>1 DEF IInv, TypeOK
    <3>4. /\ proc'[c].life = "reaped"
          /\ proc'[c].code = proc[c].code
          /\ proc'[c].stopped = proc[c].stopped
      BY <3>3, <3>2 DEF Process
    <3>5. QED
      BY <3>1, <3>3, <3>4, <2>2, <1>1, <1>3, <1>4 DEF IInv, TypeOK, Reap
  <2>3. QED
    BY <2>1, <2>2 DEF StopReaps, StopWaited
<1>6. /\ status' = "Terminated" /\ child_pid' = NoPid /\ pc' = "idle"
      /\ UNCHANGED <<use_mocks, latest>>
      /\ exit_code' \in ExitCodes
      /\ ~auto_reap => exit_code' \in {proc[c].code, 137}
  BY <1>1, <1>2
  DEF IInv, TypeOK, Process, ExitCodes, StopReaps, StopNoSuchChild, StopWaited,
      Finish
<1>7. TypeOK'
  BY <1>5, <1>6 DEF IInv, TypeOK, AdapterStatus, StopPc
<1>8. Tracking'
  BY <1>1, <1>5, <1>6 DEF IInv, Tracking
<1>9. StopInProgress' /\ PidStaysOurs' /\ FrozenIsTracked'
  BY <1>5, <1>6 DEF StopInProgress, PidStaysOurs, FrozenIsTracked
<1>10. QED
  BY <1>7, <1>8, <1>9 DEF IInv

\* The kernel's and the application's own steps.
LEMMA ChildStepIInv ==
  ASSUME IInv, NEW p \in Pids, ChildSteps(p)
  PROVE  IInv'
<1> USE NoPidAssumption
<1>1. UNCHANGED <<status, exit_code, child_pid, use_mocks, pc, latest>>
      /\ auto_reap' = auto_reap
  BY DEF ChildSteps, ChildSetpgid, ChildExec, ChildExecFails, ChildTermDefault,
         ChildExits, ChildForksHelper, HelperExits, adapterVars
<1>2. proc[p] \in Process
  BY DEF IInv, TypeOK
<1>3. CASE ChildForksHelper(p) \/ HelperExits(p)
  <2>1. proc' = proc /\ helper' \in [Pids -> HelperState]
    BY <1>3 DEF IInv, TypeOK, HelperState, ChildForksHelper, HelperExits
  <2>2. QED
    BY <2>1, <1>1
    DEF IInv, TypeOK, Tracking, StopInProgress, PidStaysOurs, FrozenIsTracked,
        InGroup
<1>4. CASE ChildSetpgid(p) \/ ChildExec(p) \/ ChildExecFails(p)
             \/ ChildTermDefault(p) \/ ChildExits(p)
  <2>1. PICK r \in Process :
          /\ proc' = [proc EXCEPT ![p] = r]
          /\ r.life # "unborn"
          /\ r.life = "reaped" => auto_reap
          /\ ~r.stopped
    <3>1. CASE ChildSetpgid(p)
      <4> DEFINE r == [proc[p] EXCEPT !.life = "grouped"]
      <4>1. r \in Process /\ r.life = "grouped" /\ ~r.stopped
        BY <1>2, <3>1 DEF Process, Life, ChildSetpgid, CanStep
      <4>2. QED
        BY <4>1, <3>1 DEF ChildSetpgid
    <3>2. CASE ChildExec(p)
      <4> DEFINE r == [proc[p] EXCEPT !.life = "running"]
      <4>1. r \in Process /\ r.life = "running" /\ ~r.stopped
        BY <1>2, <3>2 DEF Process, Life, ChildExec, CanStep
      <4>2. QED
        BY <4>1, <3>2 DEF ChildExec
    <3>3. CASE ChildExecFails(p) \/ ChildTermDefault(p) \/ ChildExits(p)
      <4>1. PICK e \in ExitCodes : proc' = [proc EXCEPT ![p] = Ended(proc[p], e)]
        BY <3>3 DEF ChildExecFails, ChildTermDefault, ChildExits, ExitCodes
      <4>2. /\ Ended(proc[p], e) \in Process
            /\ Ended(proc[p], e).life \in {"zombie", "reaped"}
            /\ Ended(proc[p], e).life = "reaped" => auto_reap
            /\ ~Ended(proc[p], e).stopped
        BY DEF Ended, Process, Life
      <4>3. QED
        BY <4>1, <4>2
    <3>4. QED
      BY <1>4, <3>1, <3>2, <3>3
  <2>2. helper' = helper
    BY <1>4 DEF ChildSetpgid, ChildExec, ChildExecFails, ChildTermDefault,
                ChildExits
  <2>3. /\ proc' \in [Pids -> Process]
        /\ proc'[p] = r
        /\ \A q \in Pids : q # p => proc'[q] = proc[q]
    BY <2>1 DEF IInv, TypeOK
  <2>4. proc[p].life \in {"forked", "grouped", "running"}
    BY <1>4 DEF ChildSetpgid, ChildExec, ChildExecFails, ChildTermDefault,
                ChildExits, CanStep
  <2>5. TypeOK'
    BY <1>1, <2>2, <2>3 DEF IInv, TypeOK
  <2>6. Tracking' /\ StopInProgress' /\ PidStaysOurs'
    BY <1>1, <2>1, <2>3, <2>4
    DEF IInv, TypeOK, Tracking, StopInProgress, PidStaysOurs
  <2>7. FrozenIsTracked'
    BY <1>1, <2>1, <2>3 DEF IInv, FrozenIsTracked, InGroup
  <2>8. QED
    BY <2>5, <2>6, <2>7 DEF IInv
<1>5. QED
  BY <1>3, <1>4 DEF ChildSteps

LEMMA NextIInv == IInv /\ [Next]_vars => IInv'
<1> SUFFICES ASSUME IInv, [Next]_vars
             PROVE  IInv'
  OBVIOUS
<1>1. CASE UNCHANGED vars
  BY <1>1
  DEF IInv, TypeOK, Tracking, StopInProgress, PidStaysOurs, FrozenIsTracked,
      InGroup, vars, adapterVars, osVars
<1>2. CASE Calls
  BY <1>2, StatusStepIInv, ExecuteIInv, SuspendResumeIInv, StopSignalIInv
  DEF Calls
<1>3. CASE StopSteps
  BY <1>3, StopEndIInv, StopDeadlineIInv, StopSignalIInv DEF StopSteps
<1>4. CASE \E p \in Pids : ChildSteps(p)
  BY <1>4, ChildStepIInv
<1>5. QED
  BY <1>1, <1>2, <1>3, <1>4 DEF Next

-------------------------------------------------------------------------------
\* IInv is inductive: every call of the adapter, every step inside stop() and every step
\* of a child keeps it.
THEOREM Inductive == Spec => []IInv
BY InitIInv, NextIInv, PTL DEF Spec

\* Every variable of the adapter and of the kernel stays in its type.
THEOREM TypeCorrect == Spec => []TypeOK
<1>1. IInv => TypeOK
  BY DEF IInv
<1>2. QED
  BY <1>1, Inductive, PTL

\* However stop() ends, the last child forked is dead and collected.
THEOREM StopReapsChildAlways == Spec => []StopReapsChild
<1>1. IInv => StopReapsChild
  BY DEF IInv, Tracking, StopReapsChild
<1>2. QED
  BY <1>1, Inductive, PTL

\* The adapter never signals a group whose pid the kernel may have given away.
THEOREM PidStaysOursAlways == Spec => []PidStaysOurs
<1>1. IInv => PidStaysOurs
  BY DEF IInv
<1>2. QED
  BY <1>1, Inductive, PTL

\* No application is left frozen once the adapter is not Suspended.
THEOREM NoFrozenAppAlways == Spec => []NoFrozenApp
<1>1. IInv => NoFrozenApp
  BY DEF IInv, FrozenIsTracked, NoFrozenApp
<1>2. QED
  BY <1>1, Inductive, PTL

\* stop() reports the child's own exit code, or 137.
THEOREM ExitCodeIsChildsAlways == Spec => []ExitCodeIsChilds
<1>1. IInv => ExitCodeIsChilds
  BY DEF IInv, Tracking, ExitCodeIsChilds
<1>2. QED
  BY <1>1, Inductive, PTL

-------------------------------------------------------------------------------
\* KillTakesHelpers is not inductive either: a helper could be forked later, if
\* an application that SIGKILL ended were still running.
KilledGroup ==
  \A p \in Pids :
    proc[p].code = 137 =>
      /\ proc[p].life \in {"zombie", "reaped"}
      /\ helper[p] \notin {"alive", "stopped"}

\* A signal to a group takes nobody from the dead, and SIGKILL takes everybody.
LEMMA KillGroupKilledGroup ==
  ASSUME TypeOK, KilledGroup, NEW p \in Pids,
         NEW sig \in {"TERM", "KILL", "STOP", "CONT"}, KillGroup(p, sig)
  PROVE  KilledGroup'
<1>1. proc[p] \in Process
  BY DEF TypeOK
<1>2. /\ proc'[p] = IF InGroup(p) THEN Signalled(proc[p], sig) ELSE proc[p]
      /\ helper'[p] = HelperSignalled(helper[p], sig)
      /\ \A q \in Pids : q # p => proc'[q] = proc[q] /\ helper'[q] = helper[q]
  BY DEF KillGroup, TypeOK
<1>3. helper[p] \notin {"alive", "stopped"} => helper'[p] = helper[p]
  BY <1>2, Zenon DEF HelperSignalled
<1>4. CASE ~InGroup(p) \/ sig # "KILL"
  <2>1. proc'[p].code = proc[p].code /\ proc'[p].life = proc[p].life
    <3>1. CASE ~InGroup(p)
      BY <1>2, <3>1
    <3>2. CASE sig = "TERM" /\ InGroup(p)
      BY <1>1, <1>2, <3>2 DEF Signalled, Process
    <3>3. CASE sig = "STOP" /\ InGroup(p)
      BY <1>1, <1>2, <3>3 DEF Signalled, Process
    <3>4. CASE sig = "CONT" /\ InGroup(p)
      BY <1>1, <1>2, <3>4 DEF Signalled, Process
    <3>5. QED
      BY <1>4, <3>1, <3>2, <3>3, <3>4
  <2>2. QED
    BY <1>2, <1>3, <2>1 DEF KilledGroup
<1>5. CASE InGroup(p) /\ sig = "KILL"
  <2>1. proc'[p] = Ended(proc[p], 137)
    BY <1>2, <1>5 DEF Signalled
  <2>2. proc'[p].life \in {"zombie", "reaped"}
    BY <2>1 DEF Ended
  <2>3. helper'[p] \notin {"alive", "stopped"}
    BY <1>2, <1>3, <1>5 DEF HelperSignalled
  <2>4. QED
    BY <1>2, <2>2, <2>3 DEF KilledGroup
<1>6. QED
  BY <1>4, <1>5

LEMMA KilledGroupStep ==
  ASSUME IInv, KilledGroup, [Next]_vars
  PROVE  KilledGroup'
<1>1. CASE UNCHANGED <<proc, helper>>
  BY <1>1 DEF KilledGroup
<1>2. CASE Suspend \/ Resume \/ StopTerm \/ StopKill
  <2>1. CASE UNCHANGED osVars
    BY <2>1 DEF osVars, KilledGroup
  <2>2. CASE \E c \in Pids, sig \in {"TERM", "KILL", "STOP", "CONT"} :
               KillGroup(c, sig)
    BY <2>2, KillGroupKilledGroup DEF IInv
  <2>3. child_pid # NoPid \/ Suspend \/ Resume
    BY <1>2 DEF IInv, StopInProgress, StopTerm, StopKill
  <2>4. child_pid # NoPid => child_pid \in Pids
    BY DEF IInv, TypeOK
  <2>5. QED
    BY <1>2, <2>1, <2>2, <2>3, <2>4
    DEF Suspend, Resume, SignalChild, StopTerm, StopKill
<1>3. CASE \E p \in Pids : Execute(p)
  <2>1. PICK p \in Pids : Execute(p)
    BY <1>3
  <2>2. /\ proc'[p].code = proc[p].code
        /\ proc[p].life = "unborn"
        /\ helper' = helper
        /\ \A q \in Pids : q # p => proc'[q] = proc[q]
    BY <2>1 DEF IInv, TypeOK, Process, Execute
  <2>3. QED
    BY <2>2 DEF KilledGroup
<1>4. CASE StopReaps \/ StopWaited
  <2>1. Reap(child_pid) /\ child_pid \in Pids
    BY <1>4, NoPidAssumption
    DEF StopReaps, StopWaited, IInv, TypeOK, StopInProgress
  <2>2. /\ proc'[child_pid].code = proc[child_pid].code
        /\ proc'[child_pid].life = "reaped"
        /\ helper' = helper
        /\ \A q \in Pids : q # child_pid => proc'[q] = proc[q]
    BY <2>1 DEF IInv, TypeOK, Process, Reap
  <2>3. QED
    BY <2>2 DEF KilledGroup
<1>5. CASE \E p \in Pids : ChildSteps(p)
  <2>1. PICK p \in Pids : ChildSteps(p)
    BY <1>5
  <2>2. proc[p] \in Process
    BY DEF IInv, TypeOK
  <2>3. CASE ChildForksHelper(p) \/ HelperExits(p)
    BY <2>3 DEF IInv, TypeOK, KilledGroup, ChildForksHelper, HelperExits, CanStep
  <2>4. CASE ChildSetpgid(p) \/ ChildExec(p)
    <3>1. /\ proc[p].life \in {"forked", "grouped"}
          /\ proc'[p].code = proc[p].code
          /\ helper' = helper
          /\ \A q \in Pids : q # p => proc'[q] = proc[q]
      BY <2>2, <2>4
      DEF IInv, TypeOK, Process, ChildSetpgid, ChildExec, CanStep
    <3>2. QED
      BY <3>1 DEF KilledGroup
  <2>5. CASE ChildExecFails(p) \/ ChildTermDefault(p) \/ ChildExits(p)
    <3>1. PICK e \in ExitCodes \ {137} :
            proc' = [proc EXCEPT ![p] = Ended(proc[p], e)]
      BY <2>5 DEF ChildExecFails, ChildTermDefault, ChildExits, ExitCodes
    <3>2. /\ proc'[p].code # 137
          /\ \A q \in Pids : q # p => proc'[q] = proc[q]
      BY <3>1 DEF IInv, TypeOK, Ended
    <3>3. helper' = helper
      BY <2>5 DEF ChildExecFails, ChildTermDefault, ChildExits
    <3>4. QED
      BY <3>2, <3>3 DEF KilledGroup
  <2>6. QED
    BY <2>1, <2>3, <2>4, <2>5 DEF ChildSteps
<1>6. QED
  BY <1>1, <1>2, <1>3, <1>4, <1>5
  DEF Next, Calls, StopSteps, Initialize, Start, ExecuteFails, StopWithoutChild,
      StopNoSuchChild, StopDeadline, vars, osVars

\* When SIGKILL has ended an application, nobody of its group is left.
THEOREM KillTakesHelpersAlways == Spec => []KillTakesHelpers
<1>1. Init => KilledGroup
  BY DEF Init, Unborn, KilledGroup
<1>2. IInv /\ KilledGroup /\ [Next]_vars => KilledGroup'
  BY KilledGroupStep
<1>3. KilledGroup => KillTakesHelpers
  BY DEF KilledGroup, KillTakesHelpers
<1>4. QED
  BY <1>1, <1>2, <1>3, Inductive, PTL DEF Spec
-------------------------------------------------------------------------------
\* A stop() that is bound to return

\* What StopReturns starts from, and every stage that follows: the child is, or
\* was, in its group before SIGKILL, and dead from then on.
Returning ==
  \/ /\ pc \in {"polling", "killing"}
     /\ proc[child_pid].life \in {"grouped", "running", "zombie", "reaped"}
  \/ /\ pc = "waiting"
     /\ proc[child_pid].life \in {"zombie", "reaped"}

\* stop() is where it was, or one stage further.
Onwards ==
  \/ pc' = pc
  \/ pc = "polling" /\ pc' = "killing"
  \/ pc = "killing" /\ pc' = "waiting"

LEMMA StopStepReturning ==
  ASSUME IInv, Returning, StopSteps
  PROVE  (Returning' /\ Onwards) \/ pc' = "idle"
<1>1. CASE StopReaps \/ StopNoSuchChild \/ StopWaited
  BY <1>1 DEF StopReaps, StopNoSuchChild, StopWaited, Finish
<1>2. CASE StopDeadline
  BY <1>2 DEF StopDeadline, Returning, Onwards, osVars
<1>3. CASE StopKill
  <2>1. child_pid \in Pids /\ child_pid' = child_pid
    BY <1>3 DEF StopKill, IInv, TypeOK, StopInProgress
  <2>2. proc'[child_pid] =
          IF InGroup(child_pid) THEN Ended(proc[child_pid], 137) ELSE proc[child_pid]
    BY <1>3, <2>1 DEF StopKill, KillGroup, Signalled, IInv, TypeOK
  <2>3. proc'[child_pid].life \in {"zombie", "reaped"}
    BY <1>3, <2>2 DEF StopKill, Returning, InGroup, Ended
  <2> QED
    BY <1>3, <2>1, <2>3 DEF StopKill, Returning, Onwards
<1> QED
  BY <1>1, <1>2, <1>3 DEF StopSteps

LEMMA ChildStepReturning ==
  ASSUME IInv, Returning, NEW p \in Pids, ChildSteps(p)
  PROVE  Returning' /\ Onwards
<1>1. UNCHANGED <<pc, child_pid>> /\ child_pid \in Pids
  BY DEF ChildSteps, ChildSetpgid, ChildExec, ChildExecFails, ChildTermDefault,
         ChildExits, ChildForksHelper, HelperExits, adapterVars, IInv, TypeOK,
         StopInProgress, Returning
<1>2. CASE p # child_pid \/ proc' = proc
  <2>1. proc'[child_pid] = proc[child_pid]
    BY <1>1, <1>2
    DEF ChildSteps, ChildSetpgid, ChildExec, ChildExecFails, ChildTermDefault,
        ChildExits, ChildForksHelper, HelperExits, IInv, TypeOK
  <2> QED
    BY <1>1, <2>1 DEF Returning, Onwards
<1>3. CASE p = child_pid /\ proc' # proc
  <2>1. proc[p].life \notin {"forked", "zombie", "reaped"} /\ pc # "waiting"
    BY <1>3 DEF ChildSteps, ChildSetpgid, ChildExec, ChildExecFails,
         ChildTermDefault, ChildExits, ChildForksHelper, HelperExits, CanStep, Returning
  <2>2. proc'[p].life \in {"running", "zombie", "reaped"}
    BY <1>3, <2>1
    DEF ChildSteps, ChildSetpgid, ChildExec, ChildExecFails, ChildTermDefault,
        ChildExits, ChildForksHelper, HelperExits, CanStep, Ended, IInv, TypeOK,
        Process
  <2> QED
    BY <1>1, <1>3, <2>1, <2>2 DEF Returning, Onwards
<1> QED
  BY <1>2, <1>3

\* Once the child is in its group while stop() polls for it or is about to kill
\* it, no step of the kernel, of the application or of any earlier one brings
\* stop() back, and none leaves it in a wait for a child that lives (lines
\* 97-150).  That its steps are taken is what StopReturns adds, by fairness.
THEOREM StopStaysOnCourse ==
  Spec => [][Returning => (Returning' /\ Onwards) \/ pc' = "idle"]_vars
<1>1. IInv /\ [Next]_vars =>
        [Returning => (Returning' /\ Onwards) \/ pc' = "idle"]_vars
  <2> SUFFICES ASSUME IInv, Next, Returning
               PROVE  (Returning' /\ Onwards) \/ pc' = "idle"
    OBVIOUS
  <2>1. ~Calls
    BY DEF Calls, Initialize, Start, Execute, ExecuteFails, Suspend, Resume,
           StopWithoutChild, StopTerm, Returning
  <2> QED
    BY <2>1, StopStepReturning, ChildStepReturning DEF Next
<1> QED
  BY <1>1, Inductive, PTL DEF Spec

-------------------------------------------------------------------------------
\* The refinement.  AdapterLifecycle knows one application at a time, and execute()
\* does not ask whether there is one already; so the caller launches once.

OneLaunch == \A p, q \in Pids : p = q

\* What a step that leaves the caller's pid alone does to his view of it.
LEMMA ViewSteps ==
  ASSUME IInv, latest' = latest,
         latest \in Pids =>
           Alive(latest)' = Alive(latest) \/ (Alive(latest) /\ ~Alive(latest)')
  PROVE  AppView' = AppView \/ (AppView = "alive" /\ AppView' = "gone")
<1>1. CASE latest = NoPid
  BY <1>1, Zenon DEF AppView
<1>2. CASE latest # NoPid
  <2>1. latest \in Pids
    BY <1>2 DEF IInv, TypeOK
  <2>2. /\ AppView = IF Alive(latest) THEN "alive" ELSE "gone"
        /\ AppView' = IF Alive(latest)' THEN "alive" ELSE "gone"
    BY <1>2 DEF AppView
  <2>3. QED
    BY <2>1, <2>2
<1>3. QED
  BY <1>1, <1>2

\* A signal starts no application, and only SIGKILL ends one.
LEMMA KillGroupView ==
  ASSUME IInv, NEW p \in Pids, NEW sig \in {"TERM", "KILL", "STOP", "CONT"},
         KillGroup(p, sig), latest' = latest
  PROVE  /\ AppView' = AppView \/ (AppView = "alive" /\ AppView' = "gone")
         /\ sig # "KILL" => AppView' = AppView
<1>1. /\ proc[p] \in Process
      /\ proc'[p] = IF InGroup(p) THEN Signalled(proc[p], sig) ELSE proc[p]
      /\ \A q \in Pids : q # p => proc'[q] = proc[q]
  BY DEF KillGroup, IInv, TypeOK
<1>2. CASE InGroup(p) /\ sig = "KILL"
  <2>1. ~Alive(p)' /\ Alive(p)
    BY <1>1, <1>2 DEF Signalled, Ended, Alive, InGroup
  <2>2. latest \in Pids /\ latest # p => Alive(latest)' = Alive(latest)
    BY <1>1 DEF Alive
  <2>3. QED
    BY <1>2, <2>1, <2>2, ViewSteps
<1>3. CASE ~(InGroup(p) /\ sig = "KILL")
  <2>1. proc'[p].life = proc[p].life
    <3>1. CASE ~InGroup(p)
      BY <1>1, <3>1
    <3>2. CASE sig = "TERM" /\ InGroup(p)
      BY <1>1, <3>2 DEF Signalled, Process
    <3>3. CASE sig = "STOP" /\ InGroup(p)
      BY <1>1, <3>3 DEF Signalled, Process
    <3>4. CASE sig = "CONT" /\ InGroup(p)
      BY <1>1, <3>4 DEF Signalled, Process
    <3>5. QED
      BY <1>3, <3>1, <3>2, <3>3, <3>4
  <2>2. latest \in Pids => proc'[latest].life = proc[latest].life
    BY <1>1, <2>1
  <2>3. AppView' = AppView
    <3>1. CASE latest = NoPid
      BY <3>1, Zenon DEF AppView
    <3>2. CASE latest # NoPid
      <4>1. latest \in Pids
        BY <3>2 DEF IInv, TypeOK
      <4>2. QED
        BY <2>2, <3>2, <4>1 DEF AppView, Alive
    <3>3. QED
      BY <3>1, <3>2
  <2>4. QED
    BY <2>3
<1>4. QED
  BY <1>2, <1>3

\* A call of the adapter is the call of the same name in the contract; the signal that
\* begins stop() changes nothing there.
LEMMA CallsImplement ==
  ASSUME IInv, OneLaunch, Calls
  PROVE  [Lifecycle!Next]_(Lifecycle!vars)
<1>1. CASE Initialize \/ Start \/ ExecuteFails
  <2>1. AppView' = AppView
    BY <1>1, Zenon DEF AppView, Alive, Initialize, Start, ExecuteFails, osVars
  <2>2. Lifecycle!Initialize \/ Lifecycle!Start \/ Lifecycle!Fail
    BY <1>1, <2>1 DEF Initialize, Start, ExecuteFails, Lifecycle!Initialize,
       Lifecycle!Start, Lifecycle!Fail
  <2>3. QED
    BY <2>2 DEF Lifecycle!Next
<1>2. CASE \E p \in Pids : Execute(p)
  <2>1. PICK p \in Pids : Execute(p)
    BY <1>2
  <2>2. latest = NoPid
    BY <2>1 DEF OneLaunch, IInv, TypeOK, Tracking, Execute
  <2>3. AppView = "absent"
    BY <2>2 DEF AppView
  <2>4. latest' = p /\ p # NoPid /\ proc'[p].life = "forked"
    BY <2>1, NoPidAssumption DEF Execute, IInv, TypeOK, Process
  <2>5. AppView' = "alive"
    BY <2>4 DEF AppView, Alive
  <2>6. status = "Running" /\ status' = status
    BY <2>1 DEF Execute
  <2>7. Lifecycle!Launch
    BY <2>3, <2>5, <2>6 DEF Lifecycle!Launch
  <2>8. QED
    BY <2>7 DEF Lifecycle!Next
<1>3. CASE Suspend \/ Resume
  <2>1. latest' = latest
    BY <1>3 DEF Suspend, Resume
  <2>2. AppView' = AppView
    <3>1. CASE UNCHANGED osVars
      BY <2>1, <3>1, Zenon DEF AppView, Alive, osVars
    <3>2. CASE child_pid # NoPid /\ ~UNCHANGED osVars
      <4>1. child_pid \in Pids
        BY <3>2 DEF IInv, TypeOK
      <4>2. PICK sig \in {"STOP", "CONT"} : KillGroup(child_pid, sig)
        BY <1>3, <3>2 DEF Suspend, Resume, SignalChild
      <4>3. QED
        BY <2>1, <4>1, <4>2, KillGroupView
    <3>3. QED
      BY <1>3, <3>1, <3>2 DEF Suspend, Resume, SignalChild
  <2>3. Lifecycle!Suspend \/ Lifecycle!Resume
    BY <1>3, <2>2 DEF Suspend, Resume, Lifecycle!Suspend, Lifecycle!Resume
  <2>4. QED
    BY <2>3 DEF Lifecycle!Next
<1>4. CASE StopWithoutChild
  <2>1. latest = NoPid /\ latest' = latest
    BY <1>4 DEF IInv, Tracking, StopWithoutChild
  <2>2. AppView = "absent" /\ AppView' = "absent"
    BY <2>1 DEF AppView
  <2>3. Lifecycle!Stop
    BY <1>4, <2>2 DEF StopWithoutChild, Lifecycle!Stop
  <2>4. QED
    BY <2>3 DEF Lifecycle!Next
<1>5. CASE StopTerm
  <2>1. child_pid \in Pids /\ latest' = latest
    BY <1>5 DEF IInv, TypeOK, StopTerm
  <2>2. KillGroup(child_pid, "TERM") /\ status' = status
    BY <1>5 DEF StopTerm
  <2>3. AppView' = AppView
    BY <2>1, <2>2, KillGroupView
  <2>4. QED
    BY <2>2, <2>3 DEF Lifecycle!vars
<1>6. QED
  BY <1>1, <1>2, <1>3, <1>4, <1>5 DEF Calls

\* stop() reports Terminated in one step of the contract, SIGKILL may end the application.
LEMMA StopStepsImplement ==
  ASSUME IInv, StopSteps
  PROVE  [Lifecycle!Next]_(Lifecycle!vars)
<1>1. /\ child_pid \in Pids
      /\ latest = child_pid
      /\ latest # NoPid
      /\ status \in {"Running", "Suspended"}
      /\ latest' = latest
  BY DEF StopSteps, StopReaps, StopNoSuchChild, StopDeadline, StopKill,
         StopWaited, Finish, IInv, TypeOK, Tracking, StopInProgress
<1>2. CASE StopReaps \/ StopNoSuchChild \/ StopWaited
  <2>1. proc[latest].life \in {"zombie", "reaped"}
    BY <1>1, <1>2 DEF StopReaps, StopNoSuchChild, StopWaited
  <2>2. proc'[latest].life = "reaped"
    BY <1>1, <1>2 DEF StopReaps, StopNoSuchChild, StopWaited, Reap, osVars,
       IInv, TypeOK, Process
  <2>3. AppView = "gone" /\ AppView' = "gone"
    BY <1>1, <2>1, <2>2 DEF AppView, Alive
  <2>4. status' = "Terminated"
    BY <1>2 DEF StopReaps, StopNoSuchChild, StopWaited, Finish
  <2>5. Lifecycle!Stop
    BY <1>1, <2>3, <2>4 DEF Lifecycle!Stop
  <2>6. QED
    BY <2>5 DEF Lifecycle!Next
<1>3. CASE StopDeadline
  <2>1. AppView' = AppView /\ status' = status
    BY <1>3, Zenon DEF AppView, Alive, StopDeadline, osVars
  <2>2. QED
    BY <2>1 DEF Lifecycle!vars
<1>4. CASE StopKill
  <2>1. KillGroup(child_pid, "KILL") /\ status' = status
    BY <1>4 DEF StopKill
  <2>2. AppView' = AppView \/ (AppView = "alive" /\ AppView' = "gone")
    BY <1>1, <2>1, KillGroupView
  <2>3. QED
    BY <2>1, <2>2 DEF Lifecycle!AppEnds, Lifecycle!Next, Lifecycle!vars
<1>5. QED
  BY <1>2, <1>3, <1>4 DEF StopSteps

\* What the child does is, for the caller, the end of the application or nothing.
LEMMA ChildStepsImplement ==
  ASSUME IInv, NEW p \in Pids, ChildSteps(p)
  PROVE  [Lifecycle!Next]_(Lifecycle!vars)
<1>1. status' = status /\ latest' = latest
  BY DEF ChildSteps, ChildSetpgid, ChildExec, ChildExecFails, ChildTermDefault,
         ChildExits, ChildForksHelper, HelperExits, adapterVars
<1>2. proc[p] \in Process
  BY DEF IInv, TypeOK
<1>3. \A q \in Pids :
        Alive(q)' = Alive(q) \/ (Alive(q) /\ ~Alive(q)')
  <2>1. CASE ChildForksHelper(p) \/ HelperExits(p)
    BY <2>1 DEF ChildForksHelper, HelperExits, Alive
  <2>2. CASE ChildSetpgid(p) \/ ChildExec(p)
    <3>1. /\ proc[p].life \in {"forked", "grouped"}
          /\ proc'[p].life \in {"grouped", "running"}
          /\ \A q \in Pids : q # p => proc'[q] = proc[q]
      BY <1>2, <2>2 DEF ChildSetpgid, ChildExec, CanStep, IInv, TypeOK, Process
    <3>2. QED
      BY <3>1 DEF Alive
  <2>3. CASE ChildExecFails(p) \/ ChildTermDefault(p) \/ ChildExits(p)
    <3>1. /\ proc[p].life \in {"grouped", "running"}
          /\ \E c \in ExitCodes : proc' = [proc EXCEPT ![p] = Ended(@, c)]
      BY <2>3 DEF ChildExecFails, ChildTermDefault, ChildExits, CanStep, ExitCodes
    <3>2. /\ proc'[p].life \in {"zombie", "reaped"}
          /\ \A q \in Pids : q # p => proc'[q] = proc[q]
      BY <3>1 DEF Ended, IInv, TypeOK
    <3>3. QED
      BY <3>1, <3>2 DEF Alive
  <2>4. QED
    BY <2>1, <2>2, <2>3 DEF ChildSteps
<1>4. AppView' = AppView \/ (AppView = "alive" /\ AppView' = "gone")
  BY <1>1, <1>3, ViewSteps
<1>5. QED
  BY <1>1, <1>4 DEF Lifecycle!AppEnds, Lifecycle!Next, Lifecycle!vars

\* For a caller that executes at most once per adapter, as execute_plan does,
\* the adapter with its processes implements the contract of every adapter:
\* Terminated is never reported over a living application, and a status changes
\* only by the call that may change it, however the kernel and the child race.
THEOREM ImplementsLifecycleAlways ==
  ASSUME OneLaunch PROVE Spec => ImplementsLifecycle
<1>1. Init => Lifecycle!Init
  <2>1. Init => AppView = "absent"
    BY DEF Init, AppView
  <2>2. QED
    BY <2>1 DEF Init, Lifecycle!Init
<1>2. IInv /\ [Next]_vars => [Lifecycle!Next]_(Lifecycle!vars)
  <2>1. CASE UNCHANGED vars
    <3>1. AppView' = AppView /\ status' = status
      BY <2>1, Zenon DEF vars, adapterVars, osVars, AppView, Alive
    <3>2. QED
      BY <3>1 DEF Lifecycle!vars
  <2>2. QED
    BY <2>1, CallsImplement, StopStepsImplement, ChildStepsImplement DEF Next
<1>3. QED
  BY <1>1, <1>2, Inductive, PTL DEF Spec, ImplementsLifecycle, Lifecycle!Spec
===============================================================================
