------------------------ MODULE LifecycleManager_proofs -------------------------
(***************************************************************************)
(* Proofs about LifecycleManager, for any substrates and processes: the    *)
(* states that no operation sets are never reached, so that no substrate   *)
(* is ever ready for execution and no process is ever told to end.         *)
(***************************************************************************)
EXTENDS LifecycleManager, TLAPS

-------------------------------------------------------------------------------
\* Types

\* The variables of the substrate lifecycle manager keep their types under every
\* operation of lifecycle.cpp.
THEOREM TypeCorrect == Spec => []TypeOK
<1>1. Init => TypeOK
  BY DEF Init, TypeOK, LifecycleState
<1>2. ASSUME TypeOK, [Next]_vars PROVE TypeOK'
  <2> USE <1>2 DEF TypeOK
  <2>1. ASSUME NEW id \in Substrates, Initialize(id) PROVE TypeOK'
    BY <2>1 DEF Initialize, LifecycleState
  <2>2. ASSUME NEW id \in Substrates, RecordFailure(id) PROVE TypeOK'
    BY <2>2 DEF RecordFailure, LifecycleState
  <2>3. ASSUME NEW ids \in SUBSET Substrates, TearDown(ids)
        PROVE /\ state' \in [Substrates -> LifecycleState]
              /\ path' \in [Substrates -> BOOLEAN]
              /\ signalled' \subseteq Pids
    <3>1. \A s \in LifecycleState : TornDown(s) \in LifecycleState
      BY DEF TornDown, LifecycleState
    <3>2. QED
      BY <2>3, <3>1 DEF TearDown
  <2>4. ASSUME NEW id \in Substrates, Teardown(id) PROVE TypeOK'
    BY <2>3, <2>4 DEF Teardown
  <2>5. CASE TeardownAll
    BY <2>3, <2>5 DEF TeardownAll
  <2>6. ASSUME NEW p \in Pids, Register(p) PROVE TypeOK'
    BY <2>6 DEF Register
  <2>7. ASSUME NEW p \in Pids, ProcessEnds(p) PROVE TypeOK'
    BY <2>7 DEF ProcessEnds
  <2>8. ASSUME NEW id \in Substrates, InstallOrRemove(id) PROVE TypeOK'
    BY <2>8 DEF InstallOrRemove
  <2>9. CASE UNCHANGED vars
    BY <2>9 DEF vars
  <2> QED
    BY <1>2, <2>1, <2>2, <2>4, <2>5, <2>6, <2>7, <2>8, <2>9 DEF Next
<1> QED
  BY <1>1, <1>2, PTL DEF Spec

-------------------------------------------------------------------------------
\* What is never reached

\* A reader of lifecycle.hpp expects all of LifecycleState to occur.
Unreached == {"acquired", "running", "suspended"}

Idle ==
  /\ \A id \in Substrates : state[id] \notin Unreached /\ path[id] = FALSE
  /\ signalled = {}

\* lifecycle.cpp sets neither Acquired, Running nor Suspended, nor the path of a
\* binary; and so teardown, which signals only what is Running, signals nobody.
THEOREM IdleAlways == Spec => []Idle
<1>1. Init => Idle
  BY DEF Init, Idle, Unreached
<1>2. ASSUME TypeOK, Idle, [Next]_vars PROVE Idle'
  <2> USE <1>2 DEF TypeOK, Idle, Unreached
  <2>1. ASSUME NEW id \in Substrates, Initialize(id) PROVE Idle'
    BY <2>1 DEF Initialize
  <2>2. ASSUME NEW id \in Substrates, RecordFailure(id) PROVE Idle'
    BY <2>2 DEF RecordFailure
  <2>3. ASSUME NEW ids \in SUBSET Substrates, TearDown(ids) PROVE Idle'
    <3>1. signalled' = {}
      BY <2>3 DEF TearDown
    <3>2. ASSUME NEW id \in Substrates
          PROVE state'[id] \notin Unreached /\ path'[id] = FALSE
      BY <2>3, <3>2 DEF TearDown, TornDown
    <3> QED
      BY <3>1, <3>2
  <2>4. ASSUME NEW id \in Substrates, Teardown(id) PROVE Idle'
    BY <2>3, <2>4 DEF Teardown
  <2>5. CASE TeardownAll
    BY <2>3, <2>5 DEF TeardownAll
  <2>6. ASSUME NEW p \in Pids, Register(p) PROVE Idle'
    BY <2>6 DEF Register
  <2>7. ASSUME NEW p \in Pids, ProcessEnds(p) PROVE Idle'
    BY <2>7 DEF ProcessEnds
  <2>8. ASSUME NEW id \in Substrates, InstallOrRemove(id) PROVE Idle'
    BY <2>8 DEF InstallOrRemove
  <2>9. CASE UNCHANGED vars
    BY <2>9 DEF vars
  <2> QED
    BY <1>2, <2>1, <2>2, <2>4, <2>5, <2>6, <2>7, <2>8, <2>9 DEF Next
<1> QED
  BY <1>1, <1>2, TypeCorrect, PTL DEF Spec

\* After any run of the manager's operations, teardown_all forgets every process that
\* was registered, and none was signalled: lifecycle.cpp:328 waits for a state that
\* nothing sets.
THEOREM TeardownForgetsAlways == Spec => TeardownForgets
<1>1. ASSUME Idle', TeardownAll
      PROVE  alive' = alive /\ registered' = {} /\ signalled' = {}
  BY <1>1 DEF Idle, TeardownAll
<1> QED
  BY <1>1, IdleAlways, PTL DEF TeardownForgets

\* lifecycle.hpp:167, "substrate readiness for execution": provision never
\* answers that a substrate is ready.
THEOREM NeverReadyAlways == Spec => []NeverReady
<1>1. Idle => NeverReady
  BY DEF Idle, NeverReady, Ready
<1> QED
  BY <1>1, IdleAlways, PTL

===============================================================================
