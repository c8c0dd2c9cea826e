---------------------------- MODULE MCCompatDatabase ---------------------------
(***************************************************************************)
(* Instances of CompatDatabase for TLC: two bundles, two identifiers that  *)
(* clash, and one file of each kind that is refused.                       *)
(***************************************************************************)
EXTENDS CompatDatabase

Sound(id, bundle) ==
  [id |-> id, bundle |-> bundle, tier |-> "native-substitution",
   state |-> "functional", issues |-> {}, category |-> NoText, shims |-> FALSE,
   policyOrdered |-> TRUE, wellFormed |-> TRUE]

Critical == [named |-> TRUE, described |-> TRUE, critical |-> TRUE, resolved |-> FALSE]

File(w) == [kind |-> "record", rec |-> w]

MCContents ==
  {NotJson, TypeError,
   File(Sound("x", "app")), File(Sound("y", "app")),
   File([Sound("x", "other") EXCEPT !.tier = "native"]),
   File([Sound("y", "app") EXCEPT !.state = "verified", !.issues = {Critical}])}
===============================================================================
