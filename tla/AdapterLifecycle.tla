--------------------------- MODULE AdapterLifecycle ---------------------------
(***************************************************************************)
(* What every adapter of platform/adapters promises to its caller: the     *)
(* ILifecycle contract of interfaces.hpp, as the status machine the four   *)
(* adapters share, plus the one thing the status is supposed to say about  *)
(* the outside world - whether the application behind the adapter is       *)
(* alive.                                                                  *)
(*                                                                         *)
(* The Darling, QEMU and WebKit adapters are this machine with an app that *)
(* never leaves "absent": their start, suspend, resume and stop only move  *)
(* the status.  The Electron adapter has processes behind it;              *)
(* ElectronAdapter implements this module under the refinement mapping     *)
(* stated there.                                                           *)
(***************************************************************************)

VARIABLES
  status,   \* AdapterStatus
  app       \* the application behind the adapter

vars == <<status, app>>

\* enum class AdapterStatus of interfaces.hpp.
AdapterStatus ==
  {"Uninitialized", "Ready", "Running", "Suspended", "Terminated", "Error"}

AppStates == {"absent", "alive", "gone"}

Init ==
  /\ status = "Uninitialized"
  /\ app = "absent"

\* initialize(): Ready, or Error when the host lacks what the tier needs.
Initialize ==
  /\ status = "Uninitialized"
  /\ status' \in {"Ready", "Error"}
  /\ UNCHANGED app

Start ==
  /\ status = "Ready"
  /\ status' = "Running"
  /\ UNCHANGED app

\* The adapter starts an application.  One at a time: that is the promise.
Launch ==
  /\ status = "Running"
  /\ app # "alive"
  /\ app' = "alive"
  /\ UNCHANGED status

\* An operation on the running adapter failed for good.
Fail ==
  /\ status = "Running"
  /\ status' = "Error"
  /\ UNCHANGED app

Suspend ==
  /\ status = "Running"
  /\ status' = "Suspended"
  /\ UNCHANGED app

Resume ==
  /\ status = "Suspended"
  /\ status' = "Running"
  /\ UNCHANGED app

\* The application ends: on its own account or because the adapter ends it.
AppEnds ==
  /\ app = "alive"
  /\ app' = "gone"
  /\ UNCHANGED status

\* stop() may report Terminated only once the application is not alive.
Stop ==
  /\ status \in {"Running", "Suspended"}
  /\ app # "alive"
  /\ status' = "Terminated"
  /\ UNCHANGED app

Next ==
  \/ Initialize
  \/ Start
  \/ Launch
  \/ Fail
  \/ Suspend
  \/ Resume
  \/ AppEnds
  \/ Stop

Spec == Init /\ [][Next]_vars
===============================================================================
