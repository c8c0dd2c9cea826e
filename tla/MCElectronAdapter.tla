--------------------------- MODULE MCElectronAdapter ---------------------------
(***************************************************************************)
(* Instances of ElectronAdapter for TLC.  Pids bounds the launches of one  *)
(* adapter: one, as the command line does it, and two, which the interface *)
(* allows.  The fork that comes first may return either pid; which one is  *)
(* immaterial, so Symmetry is sound for the runs without liveness.  *)
(***************************************************************************)
EXTENDS ElectronAdapter, TLC

CONSTANTS p1, p2

Symmetry == Permutations({p1, p2})
===============================================================================
