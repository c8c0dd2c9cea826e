-------------------------- MODULE VersionNegotiation ---------------------------
(***************************************************************************)
(* The three questions about versions that macRun answers without doing    *)
(* anything: which cached Electron runs an application                     *)
(* (ElectronAdapter::resolve_runtime_binary), which ABI a version has      *)
(* (ABIDatabase::resolve) and which governed build of a native module fits *)
(* it (NativeRegistry::find_replacement).  Pure operators; Provision asks  *)
(* them on both sides, when it builds a module and when it launches.       *)
(*                                                                         *)
(* A version is the sequence of the numbers it is written with, so that    *)
(* "28.3" is <<28, 3>> and "28.3.0" is <<28, 3, 0>>: different texts, which*)
(* is what a cache key sees, of equal versions, which is what the          *)
(* negotiation sees.  AutoVersion stands for "auto" and for no text at all.*)
(***************************************************************************)
EXTENDS Naturals, Sequences, FiniteSets

AutoVersion == <<>>
IsVersion(v) == v \in Seq(Nat) /\ Len(v) <= 3

-------------------------------------------------------------------------------
\* Versions

\* SemanticVersion::parse: what is missing is 0.
Parse(v) == [i \in 1..3 |-> IF i <= Len(v) THEN v[i] ELSE 0]

Same(v, w) == Parse(v) = Parse(w)

\* operator<
Older(v, w) ==
  \E i \in 1..3 :
    /\ Parse(v)[i] < Parse(w)[i]
    /\ \A j \in 1..(i - 1) : Parse(v)[j] = Parse(w)[j]

Major(v) == Parse(v)[1]

\* The ends of a sorted list; versions that compare equal may come in any order.
Newest(V) == {v \in V : \A w \in V : ~Older(v, w)}
Oldest(V) == {v \in V : \A w \in V : ~Older(w, v)}

-------------------------------------------------------------------------------
\* Runtimes

\* Seeded bug: the same major version is not tried before a higher one.
RuntimesAnyMajor(wanted, cached) ==
  LET exact == {v \in cached : Same(v, wanted)}
      higher == {v \in cached : Older(wanted, v)}
  IN CASE wanted # AutoVersion /\ exact # {} -> exact
       [] wanted # AutoVersion /\ exact = {} /\ higher # {} -> Oldest(higher)
       [] OTHER -> Newest(cached)

\* The cached versions that may be chosen: the first exact match in directory
\* order, else the newest of the same major version, else the next higher one,
\* else the newest of all.
Runtimes(wanted, cached) ==
  LET exact == {v \in cached : Same(v, wanted)}
      major == {v \in cached : Major(v) = Major(wanted)}
      higher == {v \in cached : Older(wanted, v)}
  IN IF wanted = AutoVersion THEN Newest(cached)
     ELSE IF exact # {} THEN exact
     ELSE IF major # {} THEN Newest(major)
     ELSE IF higher # {} THEN Oldest(higher)
     ELSE Newest(cached)

-------------------------------------------------------------------------------
\* The ABI map, a function from major versions to NODE_MODULE_VERSIONs

Unknown == 0

Nmv(map, v) == IF v # AutoVersion /\ Major(v) \in DOMAIN map THEN map[Major(v)] ELSE Unknown

\* Above every distance: the initial 0xFFFFFFFF.  No NODE_MODULE_VERSION comes
\* near it.
Far == 65536

Distance(m, n) == IF m > n THEN m - n ELSE n - m

-------------------------------------------------------------------------------
\* The registry: for each module it governs the sequence of its versions, in
\* the order of their keys

IsGoverned(g) ==
  /\ {"electrons", "bad", "nmv"} \subseteq DOMAIN g
  /\ g.electrons \subseteq Nat \ {0}   \* electron_abi.electron_versions
  /\ g.bad \subseteq Nat               \* known_bad_on; 0 when the entry names none
  /\ g.nmv \in 0..(Far - 1)            \* electron_abi.node_module_version

NoneFits == 0

\* target_major; it is 0 for a text without digits.
TargetMajor(v) == IF v = AutoVersion THEN 0 ELSE Major(v)

\* Seeded bug: min_delta is not updated, and the last version wins.
ConsiderWithoutMinimum(best, governed, i, target) ==
  IF target # Unknown /\ governed[i].nmv # Unknown THEN [best EXCEPT !.at = i]
  ELSE IF best.at = NoneFits THEN [best EXCEPT !.at = i] ELSE best

\* One round of the loop of phase 2 over the versions.
Consider(best, governed, i, target) ==
  LET g == governed[i]
      delta == Distance(g.nmv, target)
  IN IF target # Unknown /\ g.nmv # Unknown
     THEN IF delta < best.delta THEN [at |-> i, delta |-> delta] ELSE best
     ELSE IF best.at = NoneFits THEN [best EXCEPT !.at = i] ELSE best

\* Seeded bug: phase 2 does not look at known_bad_on.
ReplacementIgnoringBad(governed, v, map) ==
  LET usable == {i \in DOMAIN governed : TargetMajor(v) \notin governed[i].bad}
      exact == {i \in usable : TargetMajor(v) \in governed[i].electrons}
      best[i \in 0..Len(governed)] ==
        IF i = 0 THEN [at |-> NoneFits, delta |-> Far]
        ELSE Consider(best[i - 1], governed, i, Nmv(map, v))
  IN IF exact # {} THEN CHOOSE i \in exact : \A j \in exact : i <= j
     ELSE best[Len(governed)].at

\* find_replacement: the first version that lists the major version and is not
\* known to be bad on it, else the one found by phase 2, else NoneFits.
Replacement(governed, v, map) ==
  LET usable == {i \in DOMAIN governed : TargetMajor(v) \notin governed[i].bad}
      exact == {i \in usable : TargetMajor(v) \in governed[i].electrons}
      best[i \in 0..Len(governed)] ==
        IF i = 0 THEN [at |-> NoneFits, delta |-> Far]
        ELSE IF i \in usable THEN Consider(best[i - 1], governed, i, Nmv(map, v))
        ELSE best[i - 1]
  IN IF exact # {} THEN CHOOSE i \in exact : \A j \in exact : i <= j
     ELSE best[Len(governed)].at

-------------------------------------------------------------------------------
\* Reference definitions

\* Version i is a better answer than version j for Electron v: one tested with
\* v's major version before one that is not, then the nearest known ABI, then
\* any at all.
Closer(governed, i, j, v, map) ==
  LET tested(k) == TargetMajor(v) \in governed[k].electrons
      known(k) == Nmv(map, v) # Unknown /\ governed[k].nmv # Unknown
      distance(k) == Distance(governed[k].nmv, Nmv(map, v))
  IN \/ tested(i) /\ ~tested(j)
     \/ /\ tested(i) <=> tested(j)
        /\ ~tested(i)
        /\ \/ known(i) /\ ~known(j)
           \/ known(i) /\ known(j) /\ distance(i) < distance(j)

===============================================================================
