---------------------------- MODULE ElectronAdapter ----------------------------
(***************************************************************************)
(* The Electron adapter's lifecycle and the processes behind it            *)
(* (platform/adapters/electron_adapter.cpp): initialize, start, execute,   *)
(* suspend, resume, stop, and what the kernel and the child do between the *)
(* adapter's system calls.                                                 *)
(*                                                                         *)
(* execute() forks; the CHILD makes itself a group leader with setpgid and *)
(* then calls execvp, while the parent goes on without waiting for either. *)
(* suspend(), resume() and stop() signal the GROUP, kill(-child_pid_, ..), *)
(* which reaches nobody while the child has not called setpgid yet.        *)
(* stop() sends SIGTERM, polls waitpid(WNOHANG) for 200ms, then sends      *)
(* SIGKILL and waits without a timeout.  The application forks helpers     *)
(* (renderers, a GPU process) that live in the same group.                 *)
(*                                                                         *)
(* What execute() does before fork() - resolving the runtime, extracting   *)
(* the asar, staging the native modules - touches no process of this       *)
(* module; it is here only as success or failure.  Calls the code refuses  *)
(* (a wrong status) only write a log line: they are stuttering steps.      *)
(***************************************************************************)
EXTENDS Naturals, FiniteSets

CONSTANTS
  Pids,    \* the pids fork() may return, each used once; bounds the launches
  NoPid    \* child_pid_ = 0

ASSUME NoPidAssumption == NoPid \notin Pids

VARIABLES
  status,      \* status_
  exit_code,   \* exit_code_
  child_pid,   \* child_pid_
  use_mocks,   \* use_mocks_: no process is ever forked, no signal sent
  pc,          \* where the caller's thread is inside stop()
  latest,      \* history: the pid of the last successful fork()
  proc,        \* the kernel's view of each launched application
  helper,      \* the other processes of each application's group
  auto_reap    \* SIGCHLD is ignored: the kernel reaps children by itself

adapterVars == <<status, exit_code, child_pid, use_mocks, pc, latest>>
osVars == <<proc, helper, auto_reap>>
vars == <<adapterVars, osVars>>

-------------------------------------------------------------------------------
\* Types

AdapterStatus ==
  {"Uninitialized", "Ready", "Running", "Suspended", "Terminated", "Error"}

\* "polling": SIGTERM sent, inside the 200ms loop; "killing": the loop ended
\* without the child; "waiting": SIGKILL sent, inside the blocking waitpid.
StopPc == {"idle", "polling", "killing", "waiting"}

\* "forked": not yet a group leader; "grouped": after setpgid, before execvp.
Life == {"unborn", "forked", "grouped", "running", "zombie", "reaped"}

\* A normal exit, a crash, a failed execvp, death by SIGKILL and by SIGTERM.
ExitCodes == {0, 1, 127, 137, 143}

\* term: a SIGTERM is pending, or the application is handling it.
Process ==
  [life: Life, stopped: BOOLEAN, term: BOOLEAN, code: ExitCodes]

HelperState == {"none", "alive", "stopped", "dead"}

Unborn == [life |-> "unborn", stopped |-> FALSE, term |-> FALSE, code |-> 0]

-------------------------------------------------------------------------------
\* The kernel

InGroup(p) == proc[p].life \in {"grouped", "running"}

Alive(p) == proc[p].life \in {"forked", "grouped", "running"}

\* The process after it ended with code c.
Ended(r, c) ==
  [life |-> IF auto_reap THEN "reaped" ELSE "zombie",
   stopped |-> FALSE, term |-> FALSE, code |-> c]

\* What a signal does to a leader that is in its group.
Signalled(r, sig) ==
  CASE sig = "KILL" -> Ended(r, 137)
    [] sig = "TERM" -> [r EXCEPT !.term = TRUE]
    [] sig = "STOP" -> [r EXCEPT !.stopped = TRUE]
    [] OTHER -> [r EXCEPT !.stopped = FALSE]    \* "CONT"

\* What it does to a helper.  On SIGTERM a helper may or may not go away.
HelperSignalled(h, sig) ==
  IF h \notin {"alive", "stopped"} THEN h
    ELSE CASE sig = "KILL" -> "dead"
           [] sig = "STOP" -> "stopped"
           [] sig = "CONT" -> "alive"
           [] OTHER -> h

\* kill(-p, sig): every member of group p, nobody when there is none (ESRCH,
\* which the code ignores).
KillGroup(p, sig) ==
  /\ proc' = [proc EXCEPT ![p] = IF InGroup(p) THEN Signalled(@, sig) ELSE @]
  /\ helper' = [helper EXCEPT ![p] = HelperSignalled(@, sig)]
  /\ UNCHANGED auto_reap

\* waitpid() collects p.
Reap(p) ==
  /\ proc' = [proc EXCEPT ![p].life = "reaped"]
  /\ UNCHANGED <<helper, auto_reap>>

-------------------------------------------------------------------------------
Init ==
  /\ status = "Uninitialized"
  /\ exit_code = 0
  /\ child_pid = NoPid
  /\ use_mocks \in BOOLEAN
  /\ pc = "idle"
  /\ latest = NoPid
  /\ proc = [p \in Pids |-> Unborn]
  /\ helper = [p \in Pids |-> "none"]
  /\ auto_reap \in BOOLEAN

-------------------------------------------------------------------------------
\* The adapter's operations.  They are called from one thread: none starts
\* while stop() is in progress.

\* initialize(): is_supported() decides.
Initialize ==
  /\ pc = "idle"
  /\ status = "Uninitialized"
  /\ status' \in {"Ready", "Error"}
  /\ UNCHANGED <<exit_code, child_pid, use_mocks, pc, latest, osVars>>

Start ==
  /\ pc = "idle"
  /\ status = "Ready"
  /\ status' = "Running"
  /\ UNCHANGED <<exit_code, child_pid, use_mocks, pc, latest, osVars>>

\* execute() up to and including a successful fork().  Nothing asks whether
\* an earlier child is still there.
Execute(p) ==
  /\ pc = "idle"
  /\ status = "Running"
  /\ ~use_mocks
  /\ proc[p].life = "unborn"
  /\ proc' = [proc EXCEPT ![p].life = "forked"]
  /\ child_pid' = p
  /\ latest' = p
  /\ UNCHANGED <<status, exit_code, use_mocks, pc, helper, auto_reap>>

\* execute() fails: no runtime, extraction, staging, a Darwin module, fork().
ExecuteFails ==
  /\ pc = "idle"
  /\ status = "Running"
  /\ status' = "Error"
  /\ UNCHANGED <<exit_code, child_pid, use_mocks, pc, latest, osVars>>

\* The signal of suspend() and resume().
SignalChild(sig) ==
  IF child_pid # NoPid /\ ~use_mocks
    THEN KillGroup(child_pid, sig)
    ELSE UNCHANGED osVars

Suspend ==
  /\ pc = "idle"
  /\ status = "Running"
  /\ SignalChild("STOP")
  /\ status' = "Suspended"
  /\ UNCHANGED <<exit_code, child_pid, use_mocks, pc, latest>>

\* Seeded bug: resume() without SIGCONT.
ResumeWithoutSignal ==
  /\ pc = "idle"
  /\ status = "Suspended"
  /\ status' = "Running"
  /\ UNCHANGED <<exit_code, child_pid, use_mocks, pc, latest, osVars>>

Resume ==
  /\ pc = "idle"
  /\ status = "Suspended"
  /\ SignalChild("CONT")
  /\ status' = "Running"
  /\ UNCHANGED <<exit_code, child_pid, use_mocks, pc, latest>>

\* stop() with no child.
StopWithoutChild ==
  /\ pc = "idle"
  /\ status \in {"Running", "Suspended"}
  /\ child_pid = NoPid
  /\ status' = "Terminated"
  /\ exit_code' = 0
  /\ UNCHANGED <<child_pid, use_mocks, pc, latest, osVars>>

\* Seeded bug: stop() does not wait for the child.
StopTermDoesNotWait ==
  /\ pc = "idle"
  /\ status \in {"Running", "Suspended"}
  /\ child_pid # NoPid
  /\ KillGroup(child_pid, "TERM")
  /\ status' = "Terminated"
  /\ child_pid' = NoPid
  /\ UNCHANGED <<exit_code, use_mocks, pc, latest>>

\* stop() with a child: SIGTERM to the group, then the 200ms loop.
StopTerm ==
  /\ pc = "idle"
  /\ status \in {"Running", "Suspended"}
  /\ child_pid # NoPid
  /\ KillGroup(child_pid, "TERM")
  /\ pc' = "polling"
  /\ UNCHANGED <<status, exit_code, child_pid, use_mocks, latest>>

\* Seeded bug: the pid is not forgotten.
FinishKeepsPid(code) ==
  /\ exit_code' = code
  /\ status' = "Terminated"
  /\ pc' = "idle"
  /\ UNCHANGED <<child_pid, use_mocks, latest>>

\* Seeded bug: the raw wait status is stored, not WEXITSTATUS of it.
FinishRawStatus(code) ==
  /\ exit_code' = 256 * code
  /\ status' = "Terminated"
  /\ child_pid' = NoPid
  /\ pc' = "idle"
  /\ UNCHANGED <<use_mocks, latest>>

\* The last lines of stop().
Finish(code) ==
  /\ exit_code' = code
  /\ status' = "Terminated"
  /\ child_pid' = NoPid
  /\ pc' = "idle"
  /\ UNCHANGED <<use_mocks, latest>>

\* Seeded bug: no WIFSIGNALED branch, exit_code_ keeps its old value.
StopReapsExitedOnly ==
  /\ pc = "polling"
  /\ proc[child_pid].life = "zombie"
  /\ Reap(child_pid)
  /\ Finish(IF proc[child_pid].code < 128 THEN proc[child_pid].code ELSE exit_code)

\* A poll finds the child dead: its own exit code is kept.
StopReaps ==
  /\ pc = "polling"
  /\ proc[child_pid].life = "zombie"
  /\ Reap(child_pid)
  /\ Finish(proc[child_pid].code)

\* A poll finds there is no such child any more (ECHILD): 0.
StopNoSuchChild ==
  /\ pc = "polling"
  /\ proc[child_pid].life = "reaped"
  /\ Finish(0)
  /\ UNCHANGED osVars

\* Seeded bug: no escalation after the deadline.
StopDeadlineGivesUp ==
  /\ pc = "polling"
  /\ Finish(137)
  /\ UNCHANGED osVars

\* The deadline passes; the last poll, if there was one, found the child alive.
\* It may have died since: the loop does not look again.
StopDeadline ==
  /\ pc = "polling"
  /\ pc' = "killing"
  /\ UNCHANGED <<status, exit_code, child_pid, use_mocks, latest, osVars>>

\* Seeded bug: SIGKILL for the leader alone, kill(pid, SIGKILL).
StopKillLeaderOnly ==
  /\ pc = "killing"
  /\ proc' = [proc EXCEPT ![child_pid] =
                IF Alive(child_pid) THEN Signalled(@, "KILL") ELSE @]
  /\ pc' = "waiting"
  /\ UNCHANGED <<status, exit_code, child_pid, use_mocks, latest, helper, auto_reap>>

\* Seeded bug: the escalation repeats SIGTERM.
StopKillSendsTerm ==
  /\ pc = "killing"
  /\ KillGroup(child_pid, "TERM")
  /\ pc' = "waiting"
  /\ UNCHANGED <<status, exit_code, child_pid, use_mocks, latest>>

StopKill ==
  /\ pc = "killing"
  /\ KillGroup(child_pid, "KILL")
  /\ pc' = "waiting"
  /\ UNCHANGED <<status, exit_code, child_pid, use_mocks, latest>>

\* The blocking waitpid returns; 137 whatever the child's own code was.
StopWaited ==
  /\ pc = "waiting"
  /\ proc[child_pid].life \in {"zombie", "reaped"}
  /\ Reap(child_pid)
  /\ Finish(137)

-------------------------------------------------------------------------------
\* The launched application.  A stopped process takes no step of its own.

CanStep(p, life) == proc[p].life = life /\ ~proc[p].stopped

\* setpgid(0, 0) in the child.
ChildSetpgid(p) ==
  /\ CanStep(p, "forked")
  /\ proc' = [proc EXCEPT ![p].life = "grouped"]
  /\ UNCHANGED <<adapterVars, helper, auto_reap>>

\* execvp succeeds.
ChildExec(p) ==
  /\ CanStep(p, "grouped")
  /\ ~proc[p].term
  /\ proc' = [proc EXCEPT ![p].life = "running"]
  /\ UNCHANGED <<adapterVars, helper, auto_reap>>

\* execvp fails: _exit(127).
ChildExecFails(p) ==
  /\ CanStep(p, "grouped")
  /\ ~proc[p].term
  /\ proc' = [proc EXCEPT ![p] = Ended(@, 127)]
  /\ UNCHANGED <<adapterVars, helper, auto_reap>>

\* Before execvp nothing handles SIGTERM.
ChildTermDefault(p) ==
  /\ CanStep(p, "grouped")
  /\ proc[p].term
  /\ proc' = [proc EXCEPT ![p] = Ended(@, 143)]
  /\ UNCHANGED <<adapterVars, helper, auto_reap>>

\* The application ends: closed by its user, crashed, or on SIGTERM.
ChildExits(p) ==
  /\ CanStep(p, "running")
  /\ \E c \in {0, 1} \cup (IF proc[p].term THEN {143} ELSE {}) :
       proc' = [proc EXCEPT ![p] = Ended(@, c)]
  /\ UNCHANGED <<adapterVars, helper, auto_reap>>

\* The application starts its helpers (one stands for all of them).
ChildForksHelper(p) ==
  /\ CanStep(p, "running")
  /\ helper[p] = "none"
  /\ helper' = [helper EXCEPT ![p] = "alive"]
  /\ UNCHANGED <<adapterVars, proc, auto_reap>>

HelperExits(p) ==
  /\ helper[p] = "alive"
  /\ helper' = [helper EXCEPT ![p] = "dead"]
  /\ UNCHANGED <<adapterVars, proc, auto_reap>>

-------------------------------------------------------------------------------
Calls ==
  \/ Initialize
  \/ Start
  \/ \E p \in Pids : Execute(p)
  \/ ExecuteFails
  \/ Suspend
  \/ Resume
  \/ StopWithoutChild
  \/ StopTerm

StopSteps ==
  \/ StopReaps
  \/ StopNoSuchChild
  \/ StopDeadline
  \/ StopKill
  \/ StopWaited

ChildSteps(p) ==
  \/ ChildSetpgid(p)
  \/ ChildExec(p)
  \/ ChildExecFails(p)
  \/ ChildTermDefault(p)
  \/ ChildExits(p)
  \/ ChildForksHelper(p)
  \/ HelperExits(p)

Next ==
  \/ Calls
  \/ StopSteps
  \/ \E p \in Pids : ChildSteps(p)

Spec == Init /\ [][Next]_vars

\* The thread inside stop() runs, and so does a child on its way to execvp and
\* one a default SIGTERM kills.  An application need never exit.
Fairness ==
  /\ WF_vars(StopSteps)
  /\ \A p \in Pids :
       WF_vars(ChildSetpgid(p) \/ ChildExec(p) \/ ChildTermDefault(p))

FairSpec == Spec /\ Fairness

-------------------------------------------------------------------------------
\* Properties

TypeOK ==
  /\ status \in AdapterStatus
  /\ exit_code \in ExitCodes
  /\ child_pid \in Pids \cup {NoPid}
  /\ use_mocks \in BOOLEAN
  /\ pc \in StopPc
  /\ latest \in Pids \cup {NoPid}
  /\ proc \in [Pids -> Process]
  /\ helper \in [Pids -> HelperState]
  /\ auto_reap \in BOOLEAN

\* Whichever way stop() returns - polled, no such child, escalated - and in
\* whatever state it found the child, the child execute() last forked is dead
\* and collected: no zombie, no process.
StopReapsChild ==
  status = "Terminated" /\ latest # NoPid => proc[latest].life = "reaped"

\* While child_pid_ names a process, that process is not collected, so the
\* kernel cannot have given its pid, and its group, to somebody else: the
\* signals of suspend, resume and stop reach this application or nobody.
\* (The kernel may break this by itself when SIGCHLD is ignored.)
PidStaysOurs ==
  child_pid # NoPid /\ ~auto_reap => proc[child_pid].life # "reaped"

\* The only status under which an application may sit frozen by SIGSTOP is
\* Suspended: after any resume, failure or stop, of this child or an earlier
\* one, no application is left stopped with nobody to continue it.
NoFrozenApp ==
  \A p \in Pids : proc[p].stopped => status = "Suspended"

\* After stop() the exit code is 137 or the one the child ended with: a child
\* that failed is never reported as a success, whoever won the race between
\* its exit, the 200ms deadline and SIGKILL.
ExitCodeIsChilds ==
  status = "Terminated" /\ latest # NoPid /\ ~auto_reap =>
    exit_code \in {proc[latest].code, 137}

\* stop() returns if the child becomes the leader of its group before the
\* escalation to SIGKILL, even when it is frozen or ignores SIGTERM.
StopReturns ==
  (pc \in {"polling", "killing"} /\ InGroup(child_pid)) ~> (pc = "idle")

\* The escalation is complete: nobody of the group of an application that died
\* of SIGKILL is left, not a frozen helper and not one forked at the last moment.
KillTakesHelpers ==
  \A p \in Pids : proc[p].code = 137 => helper[p] \notin {"alive", "stopped"}

\* The caller's view of the application: the last one launched.
AppView ==
  CASE latest = NoPid -> "absent"
    [] latest # NoPid /\ Alive(latest) -> "alive"
    [] OTHER -> "gone"

Lifecycle == INSTANCE AdapterLifecycle WITH status <- status, app <- AppView

\* The adapter implements the contract of all adapters, for a caller that
\* executes once per adapter, as execute_plan does.
ImplementsLifecycle == Lifecycle!Spec

-------------------------------------------------------------------------------
\* What a comment of the code says, and the code does not do

\* electron_adapter.cpp:111, "child set itself as group leader": the signals
\* of stop() reach the child, so stop() returns.
StopAlwaysReturns == (pc # "idle") ~> (pc = "idle")
===============================================================================
