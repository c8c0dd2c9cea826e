----------------------------- MODULE MCNativeCache -----------------------------
(***************************************************************************)
(* Instances of NativeCache for TLC.  No symmetry: most runs check         *)
(* liveness, and all are small.                                            *)
(***************************************************************************)
EXTENDS NativeCache

CONSTANTS w1, w2, l1, e1
===============================================================================
