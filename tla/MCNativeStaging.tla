---------------------------- MODULE MCNativeStaging ----------------------------
(***************************************************************************)
(* Instances of NativeStaging for TLC.  Modules are interchangeable.       *)
(***************************************************************************)
EXTENDS NativeStaging, TLC

CONSTANTS m1, m2

Symmetry == Permutations({m1, m2})
===============================================================================
