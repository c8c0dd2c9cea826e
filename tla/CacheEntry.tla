------------------------------- MODULE CacheEntry ------------------------------
(***************************************************************************)
(* What the lock of the native module cache promises about an entry: one   *)
(* holder at a time changes it, and it changes in one piece.  A writer     *)
(* that gets through leaves its own build, an evictor nothing; a holder    *)
(* that fails or dies leaves an entry that nothing is known about until    *)
(* the next holder is done.  While nobody holds the lock it stays as it    *)
(* is.                                                                     *)
(***************************************************************************)
CONSTANTS
  Writers,    \* each with a build of its own
  Removers,
  Nobody,     \* nobody holds the lock
  Nothing,    \* there is no entry
  Changing,   \* the holder is at work
  Damaged     \* left by a holder that did not get through

VARIABLES holder, entry

vars == <<holder, entry>>

Init == holder = Nobody /\ entry = Nothing

Begin(p) ==
  /\ holder = Nobody /\ holder' = p
  /\ entry' = Changing

Commit(w) ==
  /\ holder = w /\ holder' = Nobody
  /\ entry' = w

Remove(e) ==
  /\ holder = e /\ holder' = Nobody
  /\ entry' = Nothing

Abandon(p) ==
  /\ holder = p /\ holder' = Nobody
  /\ entry' = Damaged

Next ==
  \/ \E p \in Writers \cup Removers : Begin(p) \/ Abandon(p)
  \/ \E w \in Writers : Commit(w)
  \/ \E e \in Removers : Remove(e)

Spec == Init /\ [][Next]_vars
===============================================================================
