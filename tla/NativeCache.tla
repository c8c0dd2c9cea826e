------------------------------ MODULE NativeCache ------------------------------
(***************************************************************************)
(* One entry of the native module cache, ~/.cache/macrun/native            *)
(* (platform/native/native_cache.cpp), shared by the processes that use    *)
(* it: `macrun provision' (tooling/macrun-cli/provision.cpp), launches     *)
(* (electron_adapter.cpp) and evictions.                                   *)
(*                                                                         *)
(* An entry is three files: the binary, the SHA-256 recorded for it, and   *)
(* manifest.json.  write_to_cache and evict_if_needed hold an exclusive    *)
(* flock on .lock; probe_cache and stage_from_cache take no lock.  The     *)
(* files are rewritten in place: opened with truncation, then filled.  A   *)
(* process may die between any two steps, which releases its flock, and    *)
(* the system calls of write_to_cache and evict_if_needed may fail.        *)
(*                                                                         *)
(* A probe's two existence tests are one step, and so is reading a file:   *)
(* what a read that overlaps a rewrite returns is Partial, as in the       *)
(* middle of the rewrite.  Every build has contents of its own (named      *)
(* after the provisioner that made it): nothing in the code makes two      *)
(* builds of a module byte-identical.                                      *)
(***************************************************************************)
EXTENDS Naturals, FiniteSets

CONSTANTS
  Provisioners,   \* processes running `macrun provision', one module each
  Launches,       \* processes launching an application that needs the module
  Evictors,       \* callers of evict_if_needed (the command line has none)
  Faults,         \* the system calls on the lock and under it that may fail
  NoFile,         \* no file under that name
  Partial,        \* a file truncated, or not written to the end
  Nobody          \* nobody holds the flock

Procs == Provisioners \cup Launches \cup Evictors

FaultPoints ==
  {"lock", "open", "copy", "sha_open", "sha_write", "manifest", "remove"}

ASSUME ProcsAssumption ==
  /\ Provisioners \cap Launches = {}
  /\ Evictors \cap (Provisioners \cup Launches) = {}
  /\ Nobody \notin Procs
ASSUME ContentsAssumption ==
  NoFile # Partial /\ {NoFile, Partial} \cap Provisioners = {}
ASSUME FaultsAssumption == Faults \subseteq FaultPoints

VARIABLES
  bin,        \* contents of <key>.node
  sha,        \* what <key>.node.sha256 is the digest of
  manifest,   \* manifest.json exists; nothing on these paths reads it
  lock,       \* holder of the exclusive flock
  pc,
  force,      \* provision --force
  expected,   \* probe_cache's expected_sha256
  seen,       \* history: the contents a probe reported as a hit
  digest,     \* what write_to_cache read back and is about to record
  staged,     \* what stage_from_cache put into the application
  clean       \* history: since the lock was last taken its holder neither
              \* failed nor died holding it

files == <<bin, sha, manifest>>
locals == <<force, expected, seen, digest, staged>>
vars == <<bin, sha, manifest, lock, pc, force, expected, seen, digest, staged,
          clean>>

-------------------------------------------------------------------------------
Contents == Provisioners \cup {NoFile, Partial}

ProbePc == {"probe", "probe_sha", "probe_compare"}

\* The steps of write_to_cache, with the lock held.
WritePc == {"open", "copy", "hash", "sha_write", "manifest", "unlock"}

\* skipped, failed, ok: what provision prints; stubbed, broken, staged: what
\* becomes of the module in a launch.
FinalPc == {"skipped", "failed", "ok", "stubbed", "broken", "staged",
            "evicted", "crashed"}

Pc == ProbePc \cup WritePc \cup FinalPc
        \cup {"build", "acquire", "hit", "evict", "removing"}

TypeOK ==
  /\ bin \in Contents
  /\ sha \in Contents
  /\ manifest \in BOOLEAN
  /\ lock \in Procs \cup {Nobody}
  /\ pc \in [Procs -> Pc]
  /\ force \in [Provisioners -> BOOLEAN]
  /\ expected \in [Procs -> Contents]
  /\ seen \in [Procs -> Contents]
  /\ digest \in [Provisioners -> Contents]
  /\ staged \in [Launches -> Contents]
  /\ clean \in BOOLEAN

Init ==
  /\ bin = NoFile
  /\ sha = NoFile
  /\ manifest = FALSE
  /\ lock = Nobody
  /\ pc = [p \in Procs |-> IF p \in Evictors THEN "evict" ELSE "probe"]
  /\ force \in [Provisioners -> BOOLEAN]
  /\ expected = [p \in Procs |-> NoFile]
  /\ seen = [p \in Procs |-> NoFile]
  /\ digest = [p \in Provisioners |-> NoFile]
  /\ staged = [l \in Launches |-> NoFile]
  /\ clean = TRUE

Goto(p, from, to) ==
  /\ pc[p] = from
  /\ pc' = [pc EXCEPT ![p] = to]

-------------------------------------------------------------------------------
\* probe_cache, run by provisioners and launches, without the lock

\* A miss makes provision build, and a launch fall back to a stub.
AfterMiss(p) == IF p \in Launches THEN "stubbed" ELSE "build"

AfterHit(p) ==
  CASE p \in Launches -> "hit"
    [] p \in Provisioners /\ force[p] -> "build"
    [] OTHER -> "skipped"

Present == bin # NoFile /\ manifest

ProbeAbsent(p) ==
  /\ ~Present
  /\ Goto(p, "probe", AfterMiss(p))
  /\ UNCHANGED <<files, lock, locals, clean>>

ProbePresent(p) ==
  /\ Present
  /\ Goto(p, "probe", "probe_sha")
  /\ UNCHANGED <<files, lock, locals, clean>>

\* No recorded digest: a hit, with nothing verified.
ProbeUnrecorded(p) ==
  /\ sha = NoFile
  /\ Goto(p, "probe_sha", AfterHit(p))
  /\ seen' = [seen EXCEPT ![p] = bin]
  /\ UNCHANGED <<files, lock, force, expected, digest, staged, clean>>

\* Seeded bug: the recorded digest is not read.
ProbeRecordedUnread(p) ==
  /\ sha # NoFile
  /\ Goto(p, "probe_sha", "probe_compare")
  /\ UNCHANGED <<files, lock, locals, clean>>

ProbeRecorded(p) ==
  /\ sha # NoFile
  /\ Goto(p, "probe_sha", "probe_compare")
  /\ expected' = [expected EXCEPT ![p] = sha]
  /\ UNCHANGED <<files, lock, force, seen, digest, staged, clean>>

\* Seeded bug: the digests are not compared.
MatchesAnything(p) == bin # NoFile

\* The digest of the binary is the recorded one.  A digest file cut short
\* matches nothing.
Matches(p) == bin = expected[p] /\ bin \in Provisioners

ProbeMatch(p) ==
  /\ Matches(p)
  /\ Goto(p, "probe_compare", AfterHit(p))
  /\ seen' = [seen EXCEPT ![p] = bin]
  /\ UNCHANGED <<files, lock, force, expected, digest, staged, clean>>

ProbeMismatch(p) ==
  /\ ~Matches(p)
  /\ Goto(p, "probe_compare", AfterMiss(p))
  /\ UNCHANGED <<files, lock, locals, clean>>

Probe(p) ==
  \/ ProbeAbsent(p)
  \/ ProbePresent(p)
  \/ ProbeUnrecorded(p)
  \/ ProbeRecorded(p)
  \/ ProbeMatch(p)
  \/ ProbeMismatch(p)

-------------------------------------------------------------------------------
\* stage_from_cache, in a launch whose probe hit: copies whatever the file
\* holds by now

Stage(l) ==
  /\ bin # NoFile
  /\ Goto(l, "hit", "staged")
  /\ staged' = [staged EXCEPT ![l] = bin]
  /\ UNCHANGED <<files, lock, force, expected, seen, digest, clean>>

\* copy_file fails: the launch ends in status Error.
StageFails(l) ==
  /\ bin = NoFile
  /\ Goto(l, "hit", "broken")
  /\ UNCHANGED <<files, lock, locals, clean>>

-------------------------------------------------------------------------------
\* provision: the build, and write_to_cache

Build(p) ==
  /\ \E to \in {"acquire", "failed"} : Goto(p, "build", to)
  /\ UNCHANGED <<files, lock, locals, clean>>

\* Seeded bug: a shared flock.
AcquireShared(p) ==
  /\ lock' = p
  /\ clean' = TRUE
  /\ Goto(p, "acquire", "open")
  /\ UNCHANGED <<files, locals>>

\* flock(LOCK_EX).
Acquire(p) ==
  /\ lock = Nobody
  /\ lock' = p
  /\ clean' = TRUE
  /\ Goto(p, "acquire", "open")
  /\ UNCHANGED <<files, locals>>

\* open() of the lock file, or flock, fails: false, which provision ignores.
AcquireFails(p) ==
  /\ "lock" \in Faults
  /\ Goto(p, "acquire", "ok")
  /\ UNCHANGED <<files, lock, locals, clean>>

\* copy_file opens its destination, truncating what was there.
OpenBinary(p) ==
  /\ Goto(p, "open", "copy")
  /\ bin' = Partial
  /\ UNCHANGED <<sha, manifest, lock, locals, clean>>

CopyBinary(p) ==
  /\ Goto(p, "copy", "hash")
  /\ bin' = p
  /\ UNCHANGED <<sha, manifest, lock, locals, clean>>

\* Seeded bug: after a failed copy the provisioner tries again.
WriteFailsAndRetries(p) ==
  /\ \/ "open" \in Faults /\ Goto(p, "open", "acquire")
     \/ "copy" \in Faults /\ Goto(p, "copy", "acquire")
  /\ lock' = Nobody
  /\ clean' = FALSE
  /\ UNCHANGED <<files, locals>>

\* create_directories or copy_file fails: unlock and return false; provision
\* prints OK all the same.
WriteFails(p) ==
  /\ \/ "open" \in Faults /\ Goto(p, "open", "ok")
     \/ "copy" \in Faults /\ Goto(p, "copy", "ok")
  /\ lock' = Nobody
  /\ clean' = FALSE
  /\ UNCHANGED <<files, locals>>

\* Reads the binary back and opens the digest file, truncating it.
OpenSha(p) ==
  /\ Goto(p, "hash", "sha_write")
  /\ digest' = [digest EXCEPT ![p] = bin]
  /\ sha' = Partial
  /\ UNCHANGED <<bin, manifest, lock, force, expected, seen, staged, clean>>

WriteSha(p) ==
  /\ Goto(p, "sha_write", "manifest")
  /\ sha' = digest[p]
  /\ UNCHANGED <<bin, manifest, lock, locals, clean>>

\* The stream's failure to open or to write is not looked at.
ShaFails(p) ==
  /\ \/ "sha_open" \in Faults /\ Goto(p, "hash", "manifest")
     \/ "sha_write" \in Faults /\ Goto(p, "sha_write", "manifest")
  /\ clean' = FALSE
  /\ UNCHANGED <<files, lock, locals>>

WriteManifest(p) ==
  /\ Goto(p, "manifest", "unlock")
  /\ manifest' = TRUE
  /\ UNCHANGED <<bin, sha, lock, locals, clean>>

ManifestFails(p) ==
  /\ "manifest" \in Faults
  /\ Goto(p, "manifest", "unlock")
  /\ clean' = FALSE
  /\ UNCHANGED <<files, lock, locals>>

Unlock(p) ==
  /\ Goto(p, "unlock", "ok")
  /\ lock' = Nobody
  /\ UNCHANGED <<files, locals, clean>>

Provision(p) ==
  \/ Build(p)
  \/ Acquire(p)
  \/ OpenBinary(p)
  \/ CopyBinary(p)
  \/ WriteFails(p)
  \/ OpenSha(p)
  \/ WriteSha(p)
  \/ ShaFails(p)
  \/ WriteManifest(p)
  \/ ManifestFails(p)
  \/ Unlock(p)

-------------------------------------------------------------------------------
\* evict_if_needed, when the sizes make this entry go: remove_all deletes the
\* files in the order the directory lists them

EvictAcquire(e) ==
  /\ lock = Nobody
  /\ lock' = e
  /\ clean' = TRUE
  /\ Goto(e, "evict", "removing")
  /\ UNCHANGED <<files, locals>>

\* open() of the lock file, or flock, fails: nothing is evicted.
EvictAcquireFails(e) ==
  /\ "lock" \in Faults
  /\ Goto(e, "evict", "evicted")
  /\ UNCHANGED <<files, lock, locals, clean>>

RemoveBinary(e) ==
  /\ pc[e] = "removing"
  /\ bin # NoFile
  /\ bin' = NoFile
  /\ UNCHANGED <<sha, manifest, lock, pc, locals, clean>>

RemoveSha(e) ==
  /\ pc[e] = "removing"
  /\ sha # NoFile
  /\ sha' = NoFile
  /\ UNCHANGED <<bin, manifest, lock, pc, locals, clean>>

RemoveManifest(e) ==
  /\ pc[e] = "removing"
  /\ manifest
  /\ manifest' = FALSE
  /\ UNCHANGED <<bin, sha, lock, pc, locals, clean>>

\* Seeded bug: the lock is released once the binary is gone.
EvictDoneEarly(e) ==
  /\ bin = NoFile
  /\ Goto(e, "removing", "evicted")
  /\ lock' = Nobody
  /\ UNCHANGED <<files, locals, clean>>

\* Seeded bug: the lock is not released.
EvictDoneLocked(e) ==
  /\ bin = NoFile /\ sha = NoFile /\ ~manifest
  /\ Goto(e, "removing", "evicted")
  /\ UNCHANGED <<files, lock, locals, clean>>

EvictDone(e) ==
  /\ bin = NoFile /\ sha = NoFile /\ ~manifest
  /\ Goto(e, "removing", "evicted")
  /\ lock' = Nobody
  /\ UNCHANGED <<files, locals, clean>>

\* remove_all fails before it has removed everything: the error decides only what
\* is subtracted from the total.
EvictFails(e) ==
  /\ "remove" \in Faults
  /\ Goto(e, "removing", "evicted")
  /\ lock' = Nobody
  /\ clean' = FALSE
  /\ UNCHANGED <<files, locals>>

Evict(e) ==
  \/ EvictAcquire(e)
  \/ RemoveBinary(e)
  \/ RemoveSha(e)
  \/ RemoveManifest(e)
  \/ EvictDone(e)
  \/ EvictFails(e)

-------------------------------------------------------------------------------
\* The process dies: the kernel drops its flock, the files stay as they are.
Crash(p) ==
  /\ pc[p] \notin FinalPc
  /\ pc' = [pc EXCEPT ![p] = "crashed"]
  /\ lock' = IF lock = p THEN Nobody ELSE lock
  /\ clean' = (clean /\ lock # p)
  /\ UNCHANGED <<files, locals>>

\* What process p does next, short of dying.
Step(p) ==
  \/ p \in Provisioners \cup Launches /\ Probe(p)
  \/ p \in Provisioners /\ Provision(p)
  \/ p \in Launches /\ (Stage(p) \/ StageFails(p))
  \/ p \in Evictors /\ Evict(p)

LockFails(p) ==
  \/ p \in Provisioners /\ AcquireFails(p)
  \/ p \in Evictors /\ EvictAcquireFails(p)

Next == \E p \in Procs : Step(p) \/ Crash(p) \/ LockFails(p)

Spec == Init /\ [][Next]_vars

\* The scheduler runs every process, and flock serves a waiter once it is free.
\* Nobody may count on a flock that fails.
Fairness == \A p \in Procs : WF_vars(Step(p))

FairSpec == Spec /\ Fairness

-------------------------------------------------------------------------------
\* Properties

Sound == bin \in Provisioners /\ sha = bin /\ manifest

Absent == bin = NoFile /\ sha = NoFile /\ ~manifest

\* Whatever writers and evictors contended for the lock, and whoever failed or
\* died before: once the last holder got through, the entry is either a
\* complete build with the digest of that build, or not there at all.
QuiescentEntrySound == lock = Nobody /\ clean => Sound \/ Absent

\* Whoever contends for the lock, fails or dies: the entry changes only between
\* the moment a process takes the lock and the moment it lets go, in one piece as
\* far as those can see who wait for the lock, and what a writer leaves that got
\* through is the build that this writer made, with its digest.
EntryAtRest ==
  IF Absent THEN "absent" ELSE IF Sound THEN bin ELSE "torn"

Entry == INSTANCE CacheEntry
           WITH Writers <- Provisioners, Removers <- Evictors,
                Nothing <- "absent", Changing <- "changing", Damaged <- "damaged",
                holder <- lock,
                entry <- IF lock # Nobody THEN "changing"
                         ELSE IF clean THEN EntryAtRest ELSE "damaged"

EntryChangesInOnePiece == Entry!Spec

\* A probe never takes a binary for cached whose bytes were not all there when
\* it looked, although it takes no lock and writers die or run out of space in
\* the middle of a rewrite.  (This needs every digest file to have been
\* created: see the README on "sha_open" and on eviction.)
HitIsComplete == \A p \in Procs : seen[p] # Partial

\* How far a process is from its end: for an evictor at work, one more than the
\* number of files it has still to remove.
StepsToGo ==
  [probe |-> 13, probe_sha |-> 12, probe_compare |-> 11, hit |-> 10, build |-> 10,
   acquire |-> 9, open |-> 8, copy |-> 7, hash |-> 6, sha_write |-> 5, manifest |-> 4,
   unlock |-> 3, evict |-> 5]

FilesLeft ==
  (IF bin = NoFile THEN 0 ELSE 1) + (IF sha = NoFile THEN 0 ELSE 1)
    + (IF manifest THEN 1 ELSE 0)

ToGo(p) ==
  IF pc[p] \in FinalPc THEN 0
  ELSE IF pc[p] = "removing" THEN 1 + FilesLeft
  ELSE StepsToGo[pc[p]]

\* Every step is some process's own and takes it nearer to its end, and none
\* sends another one back: no write starts again for what somebody else does,
\* and what an evictor has to remove does not grow under its hands.
EveryoneAdvances ==
  [][\E p \in Procs :
       /\ ToGo(p)' < ToGo(p)
       /\ \A q \in Procs \ {p} : ToGo(q)' = ToGo(q)]_vars

\* Nobody waits for the cache lock for ever, even if its holders fail or die.
EveryoneFinishes == \A p \in Procs : <>(pc[p] \in FinalPc)

\* A launch that begins when the entry is sound and nobody works on it any
\* more stages the cached build; it does not fall back to a stub.
ProvisionedIsUsed ==
  \A l \in Launches :
    (/\ Sound
     /\ pc[l] = "probe"
     /\ \A p \in Provisioners \cup Evictors : pc[p] \in FinalPc)
      ~> (pc[l] = "crashed" \/ (pc[l] = "staged" /\ staged[l] = bin))

-------------------------------------------------------------------------------
\* What the comments of the code say, and the code does not do

\* native_types.hpp:57, "Copy cached .node to staging", and native_builder.cpp:10,
\* "flok on cache writes": what a launch stages into the application is a
\* complete build.  The code does not do that: a launch that probed while one
\* provision had just finished copies the file while the next one, which waited
\* for the lock, truncates it.
StagedIsComplete == \A l \in Launches : staged[l] # Partial
===============================================================================
