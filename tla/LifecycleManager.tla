---------------------------- MODULE LifecycleManager ---------------------------
(***************************************************************************)
(* The substrate lifecycle manager (runtime/common/lifecycle.cpp): for     *)
(* Darling, QEMU, Electron and WebKitGTK a state that follows from probes  *)
(* of the file system, and the pids of the processes that adapters have    *)
(* started, to be terminated with the substrates.  One thread calls it;    *)
(* beside it, substrates are installed and removed and processes end.      *)
(*                                                                         *)
(* No operation sets the states Acquired, Running and Suspended, or the    *)
(* path of a binary.  The tests are its only callers.                      *)
(***************************************************************************)
EXTENDS FiniteSets

CONSTANTS
  Substrates,
  Pids        \* each used once

VARIABLES
  state,      \* states_[id].state
  path,       \* states_[id].binary_path is not empty
  registered, \* registered_pids_
  installed,  \* the substrates whose probe finds something
  alive,      \* the registered processes that have not ended
  signalled   \* history: the processes that were sent SIGTERM

vars == <<state, path, registered, installed, alive, signalled>>

LifecycleState ==
  {"unknown", "unavailable", "acquired", "initialized", "running", "suspended",
   "failed", "terminated"}

TypeOK ==
  /\ state \in [Substrates -> LifecycleState]
  /\ path \in [Substrates -> BOOLEAN]
  /\ registered \subseteq Pids
  /\ installed \subseteq Substrates
  /\ alive \subseteq Pids
  /\ signalled \subseteq Pids

-------------------------------------------------------------------------------
\* Queries

InitializedStates == {"initialized", "running"}

\* is_initialized, and the availability that get_version reports.
Available(id) == state[id] \in InitializedStates

\* check_health; it does not look at the state.
Healthy(id) == id \in installed

\* provision(id).ready
Ready(id) == Available(id) /\ path[id]

-------------------------------------------------------------------------------
\* Operations

Init ==
  /\ state = [id \in Substrates |-> "unknown"]
  /\ path = [id \in Substrates |-> FALSE]
  /\ registered = {} /\ alive = {} /\ signalled = {}
  /\ installed \in SUBSET Substrates

\* initialize; a substrate that failed may be initialized again.
Initialize(id) ==
  /\ ~Available(id)
  /\ state' = [state EXCEPT ![id] = IF Healthy(id) THEN "initialized" ELSE "unavailable"]
  /\ UNCHANGED <<path, registered, installed, alive, signalled>>

RecordFailure(id) ==
  /\ state' = [state EXCEPT ![id] = "failed"]
  /\ UNCHANGED <<path, registered, installed, alive, signalled>>

TornDown(s) ==
  IF s \in {"running", "initialized", "failed", "unavailable"} THEN "terminated" ELSE s

\* The effect of teardown on the substrates of a set: whoever is running has all
\* registered processes signalled, those of the other substrates, too.
TearDown(ids) ==
  /\ signalled' = IF \E id \in ids : state[id] = "running"
                  THEN signalled \cup registered ELSE signalled
  /\ state' = [id \in Substrates |-> IF id \in ids THEN TornDown(state[id]) ELSE state[id]]
  /\ path' = [id \in Substrates |->
                IF id \in ids /\ TornDown(state[id]) = "terminated" /\ state[id] # "terminated"
                THEN FALSE ELSE path[id]]

Teardown(id) ==
  /\ TearDown({id})
  /\ UNCHANGED <<registered, installed, alive>>

TeardownAll ==
  /\ TearDown(Substrates)
  /\ registered' = {}
  /\ UNCHANGED <<installed, alive>>

\* register_child_pid, by an adapter that has just started the process.
Register(p) ==
  /\ p \notin alive \cup registered \cup signalled
  /\ registered' = registered \cup {p}
  /\ alive' = alive \cup {p}
  /\ UNCHANGED <<state, path, installed, signalled>>

\* The world around it.
ProcessEnds(p) ==
  /\ p \in alive
  /\ alive' = alive \ {p}
  /\ UNCHANGED <<state, path, registered, installed, signalled>>

InstallOrRemove(id) ==
  /\ installed' = IF id \in installed THEN installed \ {id} ELSE installed \cup {id}
  /\ UNCHANGED <<state, path, registered, alive, signalled>>

Next ==
  \/ \E id \in Substrates :
       Initialize(id) \/ RecordFailure(id) \/ Teardown(id) \/ InstallOrRemove(id)
  \/ TeardownAll
  \/ \E p \in Pids : Register(p) \/ ProcessEnds(p)

Spec == Init /\ [][Next]_vars

-------------------------------------------------------------------------------
\* Properties

\* lifecycle.hpp:197 says "adapters register PIDs for cleanup", and lifecycle.cpp:321
\* "active process cleanup (SIGTERM/SIGKILL sequence)".  What teardown_all does: whoever
\* runs goes on running, nobody was ever told to end, and no pid is kept.
TeardownForgets ==
  [][TeardownAll => alive' = alive /\ registered' = {} /\ signalled' = {}]_vars

\* lifecycle.hpp:167, "substrate readiness for execution": no substrate ever is.
NeverReady == \A id \in Substrates : ~Ready(id)

===============================================================================
