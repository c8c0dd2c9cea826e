--------------------------- MODULE NativeCache_proofs ---------------------------
(***************************************************************************)
(* Proofs about NativeCache for any number of provisioners, launches and   *)
(* evictors.                                                               *)
(*                                                                         *)
(* QuiescentEntrySound is about the moments when nobody holds the lock;    *)
(* to carry it over a rewrite, WrittenSoFar says what the holder has put   *)
(* into the entry at each of its steps, and Exclusive that there is one    *)
(* holder, who is the only one to write.  The same invariant gives the     *)
(* refinement of CacheEntry and the two progress results: what a step of   *)
(* one process does to the way that the others have still to go.           *)
(***************************************************************************)
EXTENDS NativeCache, TLAPS

\* The processes inside the critical section are the holder of the lock.
Exclusive ==
  \A p \in Procs : pc[p] \in WritePc \cup {"removing"} <=> lock = p

\* Provisioners write, evictors remove.
Roles ==
  \A p \in Procs :
    /\ pc[p] \in WritePc => p \in Provisioners
    /\ pc[p] = "removing" => p \in Evictors

\* What a holder that met no failure has written.
WrittenSoFar ==
  clean =>
    \A p \in Provisioners :
      /\ pc[p] \in {"hash", "sha_write", "manifest", "unlock"} => bin = p
      /\ pc[p] = "sha_write" => digest[p] = p
      /\ pc[p] \in {"manifest", "unlock"} => sha = p
      /\ pc[p] = "unlock" => manifest

IInv ==
  /\ TypeOK
  /\ Exclusive
  /\ Roles
  /\ WrittenSoFar
  /\ QuiescentEntrySound

-------------------------------------------------------------------------------
LEMMA GotoEffect ==
  ASSUME TypeOK, NEW p \in Procs, NEW from, NEW to \in Pc, Goto(p, from, to)
  PROVE  /\ pc' \in [Procs -> Pc]
         /\ pc[p] = from
         /\ pc'[p] = to
         /\ \A q \in Procs : q # p => pc'[q] = pc[q]
BY DEF TypeOK, Goto

LEMMA InitIInv == Init => IInv
<1> SUFFICES ASSUME Init
             PROVE  IInv
  OBVIOUS
<1>1. TypeOK
  BY DEF Init, TypeOK, Contents, Pc, ProbePc
<1>2. \A p \in Procs : pc[p] \in {"evict", "probe"}
  BY DEF Init
<1>3. Exclusive /\ Roles /\ WrittenSoFar
  BY <1>2, ProcsAssumption
  DEF Init, Exclusive, Roles, WrittenSoFar, WritePc, Procs
<1>4. QuiescentEntrySound
  BY DEF Init, QuiescentEntrySound, Absent
<1>5. QED
  BY <1>1, <1>3, <1>4 DEF IInv

\* Steps outside the critical section that leave the entry alone.
LEMMA OutsideIInv ==
  ASSUME IInv, NEW p \in Procs, NEW from \in Pc, NEW to \in Pc,
         Goto(p, from, to),
         from \notin WritePc \cup {"removing"},
         to \notin WritePc \cup {"removing"},
         UNCHANGED <<files, lock, force, digest, clean>>,
         expected' \in [Procs -> Contents],
         seen' \in [Procs -> Contents],
         staged' \in [Launches -> Contents]
  PROVE  IInv'
<1>1. /\ pc' \in [Procs -> Pc]
      /\ pc[p] = from /\ pc'[p] = to
      /\ \A q \in Procs : q # p => pc'[q] = pc[q]
  BY GotoEffect DEF IInv
<1>2. TypeOK'
  BY <1>1 DEF IInv, TypeOK, files
<1>3. Exclusive' /\ Roles'
  BY <1>1 DEF IInv, Exclusive, Roles
<1>4. WrittenSoFar'
  BY <1>1 DEF IInv, WrittenSoFar, WritePc, Procs, files
<1>5. QuiescentEntrySound'
  BY DEF IInv, QuiescentEntrySound, Sound, Absent, files
<1>6. QED
  BY <1>2, <1>3, <1>4, <1>5 DEF IInv

LEMMA ProbeIInv ==
  ASSUME IInv, NEW p \in Provisioners \cup Launches, Probe(p)
  PROVE  IInv'
<1> USE DEF Pc, ProbePc, FinalPc, WritePc
<1>1. p \in Procs
  BY DEF Procs
<1>2. AfterMiss(p) \in {"stubbed", "build"}
  BY DEF AfterMiss
<1>3. AfterHit(p) \in {"hit", "build", "skipped"}
  <2>1. CASE p \in Launches
    BY <2>1, ProcsAssumption DEF AfterHit
  <2>2. CASE p \notin Launches
    BY <2>2 DEF AfterHit
  <2>3. QED
    BY <2>1, <2>2
<1>4. PICK from \in ProbePc,
           to \in {"stubbed", "build", "hit", "skipped", "probe_sha", "probe_compare"} :
        Goto(p, from, to)
  BY <1>2, <1>3
  DEF Probe, ProbeAbsent, ProbePresent, ProbeUnrecorded, ProbeRecorded,
      ProbeMatch, ProbeMismatch
<1>5. /\ UNCHANGED <<files, lock, force, digest, clean>>
      /\ expected' \in [Procs -> Contents]
      /\ seen' \in [Procs -> Contents]
      /\ staged' \in [Launches -> Contents]
  BY <1>1
  DEF IInv, TypeOK, Probe, ProbeAbsent, ProbePresent, ProbeUnrecorded,
      ProbeRecorded, ProbeMatch, ProbeMismatch, locals
<1>6. QED
  BY <1>1, <1>4, <1>5, OutsideIInv

LEMMA StageIInv ==
  ASSUME IInv, NEW l \in Launches, Stage(l) \/ StageFails(l)
  PROVE  IInv'
<1> USE DEF Pc, ProbePc, FinalPc, WritePc
<1>1. l \in Procs
  BY DEF Procs
<1>2. PICK to \in {"staged", "broken"} : Goto(l, "hit", to)
  BY DEF Stage, StageFails
<1>3. /\ UNCHANGED <<files, lock, force, digest, clean>>
      /\ expected' \in [Procs -> Contents]
      /\ seen' \in [Procs -> Contents]
      /\ staged' \in [Launches -> Contents]
  BY DEF IInv, TypeOK, Stage, StageFails, locals
<1>4. QED
  BY <1>1, <1>2, <1>3, OutsideIInv

\* Entering the critical section: the lock was free, so nobody is inside.
LEMMA AcquireIInv ==
  ASSUME IInv, NEW p \in Procs,
         \/ p \in Provisioners /\ Acquire(p)
         \/ p \in Evictors /\ EvictAcquire(p)
  PROVE  IInv'
<1> USE DEF Pc, ProbePc, FinalPc, WritePc
<1>1. PICK from \in {"acquire", "evict"}, to \in {"open", "removing"} :
        /\ Goto(p, from, to)
        /\ to = "open" => p \in Provisioners
        /\ to = "removing" => p \in Evictors
  BY DEF Acquire, EvictAcquire
<1>2. /\ pc' \in [Procs -> Pc]
      /\ pc'[p] = to
      /\ \A q \in Procs : q # p => pc'[q] = pc[q]
  BY <1>1, GotoEffect DEF IInv
<1>3. /\ lock = Nobody /\ lock' = p /\ clean' = TRUE /\ p # Nobody
      /\ UNCHANGED <<files, locals>>
  BY ProcsAssumption DEF Acquire, EvictAcquire
<1>4. TypeOK'
  BY <1>2, <1>3 DEF IInv, TypeOK, files, locals
<1>5. \A q \in Procs : pc[q] \notin WritePc \cup {"removing"}
  BY <1>3, ProcsAssumption DEF IInv, Exclusive
<1>6. Exclusive' /\ Roles'
  BY <1>1, <1>2, <1>3, <1>5 DEF IInv, Exclusive, Roles
<1>7. WrittenSoFar'
  BY <1>1, <1>2, <1>5 DEF WrittenSoFar, Procs
<1>8. QuiescentEntrySound'
  BY <1>3 DEF QuiescentEntrySound
<1>9. QED
  BY <1>4, <1>6, <1>7, <1>8 DEF IInv

\* A provisioner that goes on inside the critical section.
LEMMA WriteIInv ==
  ASSUME IInv, NEW p \in Provisioners,
         \/ OpenBinary(p) \/ CopyBinary(p) \/ OpenSha(p) \/ WriteSha(p)
         \/ ShaFails(p) \/ WriteManifest(p) \/ ManifestFails(p)
  PROVE  IInv'
<1> USE DEF Pc, ProbePc, FinalPc, WritePc, locals
<1>1. p \in Procs
  BY DEF Procs
<1>2. PICK from \in WritePc, to \in WritePc : Goto(p, from, to)
  BY DEF OpenBinary, CopyBinary, OpenSha, WriteSha, ShaFails, WriteManifest,
         ManifestFails
<1>3. /\ pc' \in [Procs -> Pc]
      /\ pc[p] = from /\ pc'[p] = to
      /\ \A q \in Procs : q # p => pc'[q] = pc[q]
  BY <1>1, <1>2, GotoEffect DEF IInv
<1>4. lock = p /\ lock' = p /\ p # Nobody
  BY <1>1, <1>3, ProcsAssumption
  DEF IInv, Exclusive, OpenBinary, CopyBinary, OpenSha, WriteSha, ShaFails,
      WriteManifest, ManifestFails
<1>5. \A q \in Procs : q # p => pc[q] \notin WritePc \cup {"removing"}
  BY <1>4 DEF IInv, Exclusive
<1>6. TypeOK'
  <2>1. UNCHANGED <<force, expected, seen, staged>>
    BY DEF OpenBinary, CopyBinary, OpenSha, WriteSha, ShaFails, WriteManifest,
           ManifestFails, files
  <2>2. /\ bin' \in Contents /\ sha' \in Contents /\ manifest' \in BOOLEAN
        /\ digest' \in [Provisioners -> Contents]
        /\ clean' \in BOOLEAN
    BY DEF IInv, TypeOK, Contents, OpenBinary, CopyBinary, OpenSha, WriteSha,
           ShaFails, WriteManifest, ManifestFails, files
  <2>3. QED
    BY <1>3, <1>4, <2>1, <2>2 DEF IInv, TypeOK
<1>7. Exclusive' /\ Roles'
  BY <1>3, <1>4, <1>5 DEF IInv, Exclusive, Roles
<1>8. WrittenSoFar'
  <2>1. SUFFICES ASSUME clean'
                 PROVE  /\ pc'[p] \in {"hash", "sha_write", "manifest", "unlock"}
                             => bin' = p
                        /\ pc'[p] = "sha_write" => digest'[p] = p
                        /\ pc'[p] \in {"manifest", "unlock"} => sha' = p
                        /\ pc'[p] = "unlock" => manifest'
    BY <1>3, <1>5 DEF WrittenSoFar, Procs
  <2>2. CASE OpenBinary(p) \/ CopyBinary(p)
    BY <1>1, <2>2 DEF IInv, TypeOK, OpenBinary, CopyBinary, Goto
  <2>3. CASE OpenSha(p)
    <3>1. pc[p] = "hash" /\ clean
      BY <2>1, <2>3 DEF OpenSha, Goto
    <3>2. bin = p
      BY <3>1 DEF IInv, WrittenSoFar
    <3>3. bin' = bin /\ digest'[p] = bin /\ pc'[p] = "sha_write"
      BY <1>1, <2>3 DEF IInv, TypeOK, OpenSha, Goto
    <3>4. QED
      BY <3>2, <3>3
  <2>4. CASE WriteSha(p)
    <3>1. pc[p] = "sha_write" /\ clean
      BY <2>1, <2>4 DEF WriteSha, Goto
    <3>2. bin = p /\ digest[p] = p
      BY <3>1 DEF IInv, WrittenSoFar
    <3>3. bin' = bin /\ sha' = digest[p] /\ pc'[p] = "manifest"
      BY <1>1, <2>4 DEF IInv, TypeOK, WriteSha, Goto
    <3>4. QED
      BY <3>2, <3>3
  <2>5. CASE WriteManifest(p)
    <3>1. pc[p] = "manifest" /\ clean
      BY <2>1, <2>5 DEF WriteManifest, Goto
    <3>2. bin = p /\ sha = p
      BY <3>1 DEF IInv, WrittenSoFar
    <3>3. /\ bin' = bin /\ sha' = sha /\ manifest' = TRUE
          /\ pc'[p] = "unlock"
      BY <1>1, <2>5 DEF IInv, TypeOK, WriteManifest, Goto
    <3>4. QED
      BY <3>2, <3>3
  <2>6. CASE ShaFails(p) \/ ManifestFails(p)
    BY <2>1, <2>6 DEF ShaFails, ManifestFails
  <2>7. QED
    BY <2>2, <2>3, <2>4, <2>5, <2>6
<1>9. QuiescentEntrySound'
  BY <1>4 DEF QuiescentEntrySound
<1>10. QED
  BY <1>6, <1>7, <1>8, <1>9 DEF IInv

\* Leaving the critical section: with the entry written or removed, or with
\* clean false.
LEMMA ReleaseIInv ==
  ASSUME IInv, NEW p \in Procs,
         NEW from \in WritePc \cup {"removing"}, NEW to \in FinalPc,
         Goto(p, from, to), lock' = Nobody, clean' \in BOOLEAN,
         UNCHANGED <<files, locals>>,
         clean' => Sound \/ Absent
  PROVE  IInv'
<1> USE DEF Pc, ProbePc, FinalPc, WritePc, locals, files
<1>1. /\ pc' \in [Procs -> Pc]
      /\ pc[p] = from /\ pc'[p] = to
      /\ \A q \in Procs : q # p => pc'[q] = pc[q]
  BY GotoEffect DEF IInv
<1>2. \A q \in Procs : q # p => pc[q] \notin WritePc \cup {"removing"}
  BY <1>1 DEF IInv, Exclusive
<1>3. \A q \in Procs : pc'[q] \notin WritePc \cup {"removing"}
  BY <1>1, <1>2
<1>4. TypeOK'
  BY <1>1 DEF IInv, TypeOK
<1>5. Exclusive' /\ Roles' /\ WrittenSoFar'
  BY <1>3, ProcsAssumption DEF Exclusive, Roles, WrittenSoFar, Procs
<1>6. QuiescentEntrySound'
  BY DEF QuiescentEntrySound, Sound, Absent
<1>7. QED
  BY <1>4, <1>5, <1>6 DEF IInv

LEMMA ProvisionIInv ==
  ASSUME IInv, NEW p \in Provisioners, Provision(p) \/ AcquireFails(p)
  PROVE  IInv'
<1> USE DEF Pc, FinalPc, WritePc
<1>1. p \in Procs
  BY DEF Procs
<1>2. CASE Build(p) \/ AcquireFails(p)
  <2>1. PICK from \in {"build", "acquire"}, to \in {"acquire", "failed", "ok"} :
          Goto(p, from, to)
    BY <1>2 DEF Build, AcquireFails
  <2>2. /\ UNCHANGED <<files, lock, force, digest, clean>>
        /\ expected' \in [Procs -> Contents]
        /\ seen' \in [Procs -> Contents]
        /\ staged' \in [Launches -> Contents]
    BY <1>2 DEF IInv, TypeOK, Build, AcquireFails, locals
  <2>3. QED
    BY <1>1, <2>1, <2>2, OutsideIInv
<1>3. CASE WriteFails(p)
  <2>1. PICK from \in {"open", "copy"} : Goto(p, from, "ok")
    BY <1>3 DEF WriteFails
  <2>2. QED
    BY <1>1, <1>3, <2>1, ReleaseIInv DEF WriteFails
<1>4. CASE Unlock(p)
  <2>1. Goto(p, "unlock", "ok")
    BY <1>4 DEF Unlock
  <2>2. clean => Sound
    BY <2>1 DEF IInv, WrittenSoFar, Sound, Goto
  <2>3. clean' = clean /\ lock' = Nobody /\ UNCHANGED <<files, locals>>
    BY <1>4 DEF Unlock
  <2>4. QED
    BY <1>1, <2>1, <2>2, <2>3, ReleaseIInv DEF IInv, TypeOK
<1>5. CASE Acquire(p)
  BY <1>1, <1>5, AcquireIInv
<1>6. CASE \/ OpenBinary(p) \/ CopyBinary(p) \/ OpenSha(p) \/ WriteSha(p)
           \/ ShaFails(p) \/ WriteManifest(p) \/ ManifestFails(p)
  BY <1>6, WriteIInv
<1>7. QED
  BY <1>2, <1>3, <1>4, <1>5, <1>6, Zenon DEF Provision

LEMMA EvictIInv ==
  ASSUME IInv, NEW e \in Evictors, Evict(e) \/ EvictAcquireFails(e)
  PROVE  IInv'
<1>1. e \in Procs
  BY DEF Procs
<1>2. CASE RemoveBinary(e) \/ RemoveSha(e) \/ RemoveManifest(e)
  <2>1. /\ pc[e] = "removing"
        /\ UNCHANGED <<lock, pc, clean>>
        /\ UNCHANGED <<force, expected, seen, digest, staged>>
    BY <1>2 DEF RemoveBinary, RemoveSha, RemoveManifest, locals
  <2>2. /\ bin' \in Contents /\ sha' \in Contents /\ manifest' \in BOOLEAN
    BY <1>2 DEF IInv, TypeOK, Contents, RemoveBinary, RemoveSha, RemoveManifest
  <2>3. lock = e /\ e # Nobody
    BY <1>1, <2>1, ProcsAssumption DEF IInv, Exclusive
  <2>4. \A p \in Provisioners : pc[p] \notin WritePc
    BY <1>1, <2>1, <2>3 DEF IInv, Exclusive, Procs, WritePc
  <2>5. TypeOK' /\ Exclusive' /\ Roles'
    BY <2>1, <2>2 DEF IInv, TypeOK, Exclusive, Roles
  <2>6. WrittenSoFar' /\ QuiescentEntrySound'
    BY <2>1, <2>3, <2>4 DEF WrittenSoFar, WritePc, QuiescentEntrySound
  <2>7. QED
    BY <2>5, <2>6 DEF IInv
<1>3. CASE EvictDone(e)
  <2>1. /\ Goto(e, "removing", "evicted") /\ Absent
        /\ clean' = clean /\ lock' = Nobody /\ UNCHANGED <<files, locals>>
    BY <1>3 DEF EvictDone, Absent
  <2>2. "evicted" \in FinalPc
    BY DEF FinalPc
  <2>3. QED
    BY <1>1, <2>1, <2>2, ReleaseIInv DEF IInv, TypeOK
<1>4. CASE EvictFails(e)
  BY <1>1, <1>4, ReleaseIInv DEF EvictFails, FinalPc
<1>5. CASE EvictAcquireFails(e)
  <2>1. /\ UNCHANGED <<files, lock, force, digest, clean>>
        /\ expected' \in [Procs -> Contents]
        /\ seen' \in [Procs -> Contents]
        /\ staged' \in [Launches -> Contents]
    BY <1>5 DEF IInv, TypeOK, EvictAcquireFails, locals
  <2>2. Goto(e, "evict", "evicted")
    BY <1>5 DEF EvictAcquireFails
  <2>3. QED
    BY <1>1, <2>1, <2>2, OutsideIInv DEF Pc, FinalPc, WritePc
<1>6. QED
  BY <1>1, <1>2, <1>3, <1>4, <1>5, AcquireIInv DEF Evict

LEMMA CrashIInv ==
  ASSUME IInv, NEW p \in Procs, Crash(p)
  PROVE  IInv'
<1> USE DEF Pc, ProbePc, FinalPc, WritePc
<1>1. PICK from \in Pc : Goto(p, from, "crashed")
  BY DEF IInv, TypeOK, Crash, Goto
<1>2. from = pc[p]
  BY <1>1 DEF Goto
<1>3. CASE from \in WritePc \cup {"removing"}
  <2>1. lock = p
    BY <1>2, <1>3 DEF IInv, Exclusive
  <2>2. lock' = Nobody /\ clean' = FALSE /\ UNCHANGED <<files, locals>>
    BY <2>1 DEF Crash
  <2>3. QED
    BY <1>1, <1>3, <2>2, ReleaseIInv
<1>4. CASE from \notin WritePc \cup {"removing"}
  <2>1. lock # p
    BY <1>2, <1>4 DEF IInv, Exclusive
  <2>2. /\ UNCHANGED <<files, lock, force, digest, clean>>
        /\ expected' \in [Procs -> Contents]
        /\ seen' \in [Procs -> Contents]
        /\ staged' \in [Launches -> Contents]
    BY <2>1 DEF IInv, TypeOK, Crash, locals
  <2>3. QED
    BY <1>1, <1>4, <2>2, OutsideIInv
<1>5. QED
  BY <1>3, <1>4

LEMMA NextIInv == IInv /\ [Next]_vars => IInv'
<1> SUFFICES ASSUME IInv, [Next]_vars
             PROVE  IInv'
  OBVIOUS
<1>1. CASE UNCHANGED vars
  BY <1>1
  DEF IInv, TypeOK, Exclusive, Roles, WrittenSoFar, QuiescentEntrySound, Sound,
      Absent, vars
<1>2. CASE Next
  BY <1>2, ProbeIInv, ProvisionIInv, StageIInv, EvictIInv, CrashIInv
  DEF Next, Step, LockFails
<1>3. QED
  BY <1>1, <1>2

-------------------------------------------------------------------------------
\* IInv holds for any processes of the cache, crashes and failed writes included.
THEOREM Inductive == Spec => []IInv
BY InitIInv, NextIInv, PTL DEF Spec

\* Every variable of the entry and of the processes stays in its type.
THEOREM TypeCorrect == Spec => []TypeOK
<1>1. IInv => TypeOK
  BY DEF IInv
<1>2. QED
  BY <1>1, Inductive, PTL

\* Of all provisions and evictions at most one works on the entry.
THEOREM MutualExclusion ==
  Spec => [](\A p, q \in Procs :
               (/\ pc[p] \in WritePc \cup {"removing"}
                /\ pc[q] \in WritePc \cup {"removing"}) => p = q)
<1>1. IInv =>
        \A p, q \in Procs :
          (/\ pc[p] \in WritePc \cup {"removing"}
           /\ pc[q] \in WritePc \cup {"removing"}) => p = q
  BY DEF IInv, Exclusive
<1>2. QED
  BY <1>1, Inductive, PTL

\* When the last holder of the lock got through, the entry is whole or absent.
THEOREM QuiescentEntrySoundAlways == Spec => []QuiescentEntrySound
<1>1. IInv => QuiescentEntrySound
  BY DEF IInv
<1>2. QED
  BY <1>1, Inductive, PTL

-------------------------------------------------------------------------------
\* HitIsComplete without the two things that leave an entry without a digest:
\* a digest file that cannot be created, and eviction.  Then an entry that a
\* probe finds present has a digest file, and only whole binaries match one.
DigestRecorded ==
  /\ manifest => sha # NoFile
  /\ \A p \in Provisioners :
       /\ pc[p] \in {"copy", "hash"} => bin # NoFile
       /\ pc[p] = "sha_write" => digest[p] # NoFile
       /\ pc[p] \in {"sha_write", "manifest", "unlock"} => sha # NoFile
  /\ \A p \in Procs : pc[p] = "probe_sha" => manifest

\* A step of p that removes no file is right if it is right for p.
LEMMA DigestRecordedFor ==
  ASSUME TypeOK, DigestRecorded, NEW p \in Procs, NEW from, NEW to \in Pc,
         Goto(p, from, to),
         \A q \in Provisioners : q # p => digest'[q] = digest[q],
         bin # NoFile => bin' # NoFile,
         sha # NoFile => sha' # NoFile,
         manifest => manifest',
         manifest' => sha' # NoFile,
         p \in Provisioners =>
           /\ to \in {"copy", "hash"} => bin' # NoFile
           /\ to = "sha_write" => digest'[p] # NoFile
           /\ to \in {"sha_write", "manifest", "unlock"} => sha' # NoFile,
         to = "probe_sha" => manifest'
  PROVE  DigestRecorded'
<1>1. /\ pc'[p] = to
      /\ \A q \in Procs : q # p => pc'[q] = pc[q]
  BY GotoEffect
<1>2. ASSUME NEW q \in Provisioners
      PROVE  /\ pc'[q] \in {"copy", "hash"} => bin' # NoFile
             /\ pc'[q] = "sha_write" => digest'[q] # NoFile
             /\ pc'[q] \in {"sha_write", "manifest", "unlock"} => sha' # NoFile
  <2>1. CASE q = p
    BY <1>1, <2>1
  <2>2. CASE q # p
    BY <1>1, <2>2 DEF DigestRecorded, Procs
  <2>3. QED
    BY <2>1, <2>2
<1>3. \A q \in Procs : pc'[q] = "probe_sha" => manifest'
  BY <1>1 DEF DigestRecorded
<1>4. QED
  BY <1>2, <1>3 DEF DigestRecorded

\* The steps that read the entry or leave it alone.
LEMMA DigestRecordedReads ==
  ASSUME TypeOK, DigestRecorded, HitIsComplete, NEW p \in Procs,
         \/ p \in Provisioners \cup Launches /\ Probe(p)
         \/ p \in Provisioners /\ (Build(p) \/ Acquire(p) \/ AcquireFails(p))
         \/ p \in Provisioners /\ (WriteFails(p) \/ Unlock(p))
         \/ p \in Launches /\ (Stage(p) \/ StageFails(p))
         \/ Crash(p)
  PROVE  DigestRecorded' /\ HitIsComplete'
<1> USE DEF Pc, ProbePc, FinalPc, WritePc
<1>1. AfterMiss(p) \in Pc \ (WritePc \cup {"probe_sha"})
  BY DEF AfterMiss
<1>2. p \in Provisioners \cup Launches =>
        AfterHit(p) \in Pc \ (WritePc \cup {"probe_sha"})
  <2>1. CASE p \in Launches
    BY <2>1, ProcsAssumption DEF AfterHit
  <2>2. CASE p \notin Launches
    BY <2>2 DEF AfterHit
  <2>3. QED
    BY <2>1, <2>2
<1>3. PICK from \in Pc,
           to \in Pc \ {"copy", "hash", "sha_write", "manifest", "unlock"} :
        /\ Goto(p, from, to)
        /\ to = "probe_sha" => manifest
  <2>1. CASE p \in Provisioners \cup Launches /\ Probe(p)
    BY <1>1, <1>2, <2>1
    DEF Probe, ProbeAbsent, ProbePresent, ProbeUnrecorded, ProbeRecorded,
        ProbeMatch, ProbeMismatch, Present
  <2>2. CASE Build(p) \/ Acquire(p) \/ AcquireFails(p) \/ WriteFails(p) \/ Unlock(p)
    BY <2>2 DEF Build, Acquire, AcquireFails, WriteFails, Unlock
  <2>3. CASE Stage(p) \/ StageFails(p)
    BY <2>3 DEF Stage, StageFails
  <2>4. CASE Crash(p)
    BY <2>4 DEF TypeOK, Crash, Goto
  <2>5. QED
    BY <2>1, <2>2, <2>3, <2>4
<1>4. UNCHANGED <<files, digest>>
  BY DEF Probe, ProbeAbsent, ProbePresent, ProbeUnrecorded, ProbeRecorded,
         ProbeMatch, ProbeMismatch, Build, Acquire, AcquireFails, WriteFails,
         Unlock, Stage, StageFails, Crash, locals
<1>5. DigestRecorded'
  <2>1. manifest => sha # NoFile
    BY DEF DigestRecorded
  <2>2. QED
    BY <1>3, <1>4, <2>1, DigestRecordedFor DEF files
<1>6. HitIsComplete'
  <2>1. CASE seen' = seen
    BY <2>1 DEF HitIsComplete
  <2>2. CASE ProbeUnrecorded(p)
    BY <2>2 DEF ProbeUnrecorded, Goto, DigestRecorded
  <2>3. CASE ProbeMatch(p)
    BY <2>3, ContentsAssumption DEF ProbeMatch, Matches, HitIsComplete, TypeOK
  <2>4. seen' = seen \/ ProbeUnrecorded(p) \/ ProbeMatch(p)
    BY DEF Probe, ProbeAbsent, ProbePresent, ProbeRecorded,
           ProbeMismatch, Build, Acquire, AcquireFails, WriteFails,
           Unlock, Stage, StageFails, Crash, locals
  <2>5. QED
    BY <2>1, <2>2, <2>3, <2>4
<1>7. QED
  BY <1>5, <1>6

\* The steps that write it.
LEMMA DigestRecordedWrites ==
  ASSUME "sha_open" \notin Faults,
         TypeOK, DigestRecorded, HitIsComplete, NEW p \in Provisioners,
         \/ OpenBinary(p) \/ CopyBinary(p) \/ OpenSha(p) \/ WriteSha(p)
         \/ ShaFails(p) \/ WriteManifest(p) \/ ManifestFails(p)
  PROVE  DigestRecorded' /\ HitIsComplete'
<1> USE DEF Pc, WritePc, locals, files
<1>1. p \in Procs /\ p \notin {NoFile, Partial} /\ Partial # NoFile
  BY ContentsAssumption DEF Procs
<1>2. HitIsComplete'
  BY DEF HitIsComplete, OpenBinary, CopyBinary, OpenSha, WriteSha, ShaFails,
         WriteManifest, ManifestFails
<1>3. manifest => sha # NoFile
  BY DEF DigestRecorded
<1>4. CASE OpenBinary(p) \/ CopyBinary(p)
  <2>1. PICK from \in {"open", "copy"}, to \in {"copy", "hash"} : Goto(p, from, to)
    BY <1>4 DEF OpenBinary, CopyBinary
  <2>2. bin' # NoFile /\ UNCHANGED <<sha, manifest, digest>>
    BY <1>1, <1>4 DEF OpenBinary, CopyBinary
  <2>3. QED
    BY <1>1, <1>2, <1>3, <2>1, <2>2, DigestRecordedFor
<1>5. CASE OpenSha(p)
  <2>1. Goto(p, "hash", "sha_write") /\ bin # NoFile
    BY <1>5 DEF OpenSha, DigestRecorded, Goto
  <2>2. /\ digest'[p] = bin
        /\ \A q \in Provisioners : q # p => digest'[q] = digest[q]
        /\ sha' = Partial
        /\ UNCHANGED <<bin, manifest>>
    BY <1>5 DEF OpenSha, TypeOK
  <2>3. QED
    BY <1>1, <1>2, <1>3, <2>1, <2>2, DigestRecordedFor
<1>6. CASE WriteSha(p)
  <2>1. Goto(p, "sha_write", "manifest") /\ digest[p] # NoFile
    BY <1>6 DEF WriteSha, DigestRecorded, Goto
  <2>2. sha' = digest[p] /\ UNCHANGED <<bin, manifest, digest>>
    BY <1>6 DEF WriteSha
  <2>3. QED
    BY <1>1, <1>2, <1>3, <2>1, <2>2, DigestRecordedFor
<1>7. CASE ShaFails(p)
  <2>1. Goto(p, "sha_write", "manifest") /\ sha # NoFile
    BY <1>7 DEF ShaFails, DigestRecorded, Goto
  <2>2. UNCHANGED <<bin, sha, manifest, digest>>
    BY <1>7 DEF ShaFails
  <2>3. QED
    BY <1>1, <1>2, <1>3, <2>1, <2>2, DigestRecordedFor
<1>8. CASE WriteManifest(p) \/ ManifestFails(p)
  <2>1. Goto(p, "manifest", "unlock") /\ sha # NoFile
    BY <1>8 DEF WriteManifest, ManifestFails, DigestRecorded, Goto
  <2>2. (manifest => manifest') /\ UNCHANGED <<bin, sha, digest>>
    BY <1>8 DEF WriteManifest, ManifestFails
  <2>3. QED
    BY <1>1, <1>2, <1>3, <2>1, <2>2, DigestRecordedFor
<1>9. QED
  BY <1>4, <1>5, <1>6, <1>7, <1>8

LEMMA DigestRecordedStep ==
  ASSUME "sha_open" \notin Faults, Evictors = {},
         TypeOK, DigestRecorded, HitIsComplete, [Next]_vars
  PROVE  DigestRecorded' /\ HitIsComplete'
<1>1. CASE UNCHANGED vars
  BY <1>1 DEF vars, DigestRecorded, HitIsComplete
<1>2. CASE Next
  <2>1. PICK p \in Procs :
          Step(p) \/ Crash(p) \/ LockFails(p)
    BY <1>2 DEF Next
  <2>2. CASE p \in Provisioners /\ Provision(p)
    BY <2>2, DigestRecordedReads, DigestRecordedWrites DEF Provision
  <2>3. CASE ~(p \in Provisioners /\ Provision(p))
    BY <2>1, <2>3, DigestRecordedReads DEF Step, LockFails
  <2>4. QED
    BY <2>2, <2>3
<1>3. QED
  BY <1>1, <1>2

\* If digest files can be created and nobody evicts, no probe ever takes a
\* binary for cached whose bytes are not all there.
THEOREM HitIsCompleteAlways ==
  ASSUME "sha_open" \notin Faults, Evictors = {}
  PROVE  Spec => []HitIsComplete
<1>1. Init => DigestRecorded /\ HitIsComplete
  BY ContentsAssumption, ProcsAssumption
  DEF Init, DigestRecorded, HitIsComplete, Procs
<1>2. TypeOK /\ (DigestRecorded /\ HitIsComplete) /\ [Next]_vars
        => (DigestRecorded /\ HitIsComplete)'
  BY DigestRecordedStep
<1>3. QED
  BY <1>1, <1>2, TypeCorrect, PTL DEF Spec
-------------------------------------------------------------------------------
\* The entry changes in one piece

EntryState ==
  IF lock # Nobody THEN "changing"
  ELSE IF clean THEN EntryAtRest ELSE "damaged"

\* Steps that leave the files, the lock and its account alone.
LEMMA OutsideOnePiece ==
  ASSUME UNCHANGED <<files, lock, clean>>
  PROVE  UNCHANGED <<lock, EntryState>>
BY DEF EntryState, EntryAtRest, Sound, Absent, files

\* Steps of the holder that does not let go.
LEMMA InsideOnePiece ==
  ASSUME IInv, NEW p \in Procs, pc[p] \in WritePc \cup {"removing"}, lock' = lock
  PROVE  UNCHANGED <<lock, EntryState>>
<1>1. lock = p /\ p # Nobody
  BY ProcsAssumption DEF IInv, Exclusive
<1> QED
  BY <1>1 DEF EntryState

\* Taking the lock.
LEMMA BeginOnePiece ==
  ASSUME NEW p \in Provisioners \cup Evictors, lock = Nobody, lock' = p
  PROVE  Entry!Begin(p)
<1>1. p # Nobody
  BY ProcsAssumption DEF Procs
<1> QED
  BY <1>1 DEF Entry!Begin, EntryState

\* Letting go of it after a failure, or by dying.
LEMMA AbandonOnePiece ==
  ASSUME IInv, NEW p \in Procs, pc[p] \in WritePc \cup {"removing"},
         lock' = Nobody, clean' = FALSE
  PROVE  Entry!Abandon(p)
<1>1. lock = p /\ p # Nobody
  BY ProcsAssumption DEF IInv, Exclusive
<1> QED
  BY <1>1 DEF Entry!Abandon, EntryState

LEMMA UnlockOnePiece ==
  ASSUME IInv, NEW p \in Provisioners, Unlock(p)
  PROVE  Entry!Commit(p) \/ Entry!Abandon(p)
<1>1. /\ pc[p] = "unlock" /\ p \in Procs
      /\ lock' = Nobody /\ clean' = clean /\ UNCHANGED files
  BY DEF Unlock, Goto, Procs
<1>2. lock = p /\ p # Nobody /\ clean \in BOOLEAN
  BY <1>1, ProcsAssumption DEF IInv, Exclusive, WritePc, TypeOK
<1>3. CASE clean
  <2>1. bin = p /\ sha = p /\ manifest /\ p # NoFile
    BY <1>1, <1>3, ContentsAssumption DEF IInv, WrittenSoFar
  <2>2. EntryAtRest' = p
    BY <1>1, <2>1 DEF EntryAtRest, Sound, Absent, files
  <2> QED
    BY <1>1, <1>2, <1>3, <2>2 DEF Entry!Commit
<1>4. CASE ~clean
  BY <1>1, <1>2, <1>4, AbandonOnePiece DEF WritePc
<1> QED
  BY <1>3, <1>4

LEMMA EvictDoneOnePiece ==
  ASSUME IInv, NEW e \in Evictors, EvictDone(e)
  PROVE  Entry!Remove(e) \/ Entry!Abandon(e)
<1>1. /\ pc[e] = "removing" /\ e \in Procs
      /\ lock' = Nobody /\ clean' = clean /\ UNCHANGED files /\ Absent
  BY DEF EvictDone, Goto, Procs, Absent
<1>2. lock = e /\ e # Nobody /\ clean \in BOOLEAN
  BY <1>1, ProcsAssumption DEF IInv, Exclusive, TypeOK
<1>3. CASE clean
  <2>1. EntryAtRest' = "absent"
    BY <1>1 DEF EntryAtRest, Absent, files
  <2> QED
    BY <1>1, <1>2, <1>3, <2>1 DEF Entry!Remove
<1>4. CASE ~clean
  BY <1>1, <1>2, <1>4, AbandonOnePiece
<1> QED
  BY <1>3, <1>4

LEMMA ProvisionOnePiece ==
  ASSUME IInv, NEW p \in Provisioners, Provision(p) \/ AcquireFails(p)
  PROVE  Entry!Next \/ UNCHANGED <<lock, EntryState>>
<1>1. p \in Procs
  BY DEF Procs
<1>2. CASE Build(p) \/ AcquireFails(p)
  BY <1>2, OutsideOnePiece DEF Build, AcquireFails
<1>3. CASE Acquire(p)
  BY <1>3, BeginOnePiece DEF Acquire, Entry!Next
<1>4. CASE \/ OpenBinary(p) \/ CopyBinary(p) \/ OpenSha(p) \/ WriteSha(p)
           \/ ShaFails(p) \/ WriteManifest(p) \/ ManifestFails(p)
  <2>1. pc[p] \in WritePc /\ lock' = lock
    BY <1>4 DEF OpenBinary, CopyBinary, OpenSha, WriteSha, ShaFails, WriteManifest,
                ManifestFails, Goto, WritePc
  <2> QED
    BY <1>1, <2>1, InsideOnePiece
<1>5. CASE WriteFails(p)
  <2>1. pc[p] \in WritePc /\ lock' = Nobody /\ clean' = FALSE
    BY <1>5 DEF WriteFails, Goto, WritePc
  <2> QED
    BY <1>1, <2>1, AbandonOnePiece DEF Entry!Next
<1>6. CASE Unlock(p)
  BY <1>6, UnlockOnePiece DEF Entry!Next
<1> QED
  BY <1>2, <1>3, <1>4, <1>5, <1>6, Zenon DEF Provision

LEMMA EvictOnePiece ==
  ASSUME IInv, NEW e \in Evictors, Evict(e) \/ EvictAcquireFails(e)
  PROVE  Entry!Next \/ UNCHANGED <<lock, EntryState>>
<1>1. e \in Procs
  BY DEF Procs
<1>2. CASE EvictAcquire(e)
  BY <1>2, BeginOnePiece DEF EvictAcquire, Entry!Next
<1>3. CASE RemoveBinary(e) \/ RemoveSha(e) \/ RemoveManifest(e)
  <2>1. pc[e] = "removing" /\ lock' = lock
    BY <1>3 DEF RemoveBinary, RemoveSha, RemoveManifest
  <2> QED
    BY <1>1, <2>1, InsideOnePiece
<1>4. CASE EvictDone(e)
  BY <1>4, EvictDoneOnePiece DEF Entry!Next
<1>5. CASE EvictFails(e)
  BY <1>1, <1>5, AbandonOnePiece DEF EvictFails, Goto, Entry!Next
<1>6. CASE EvictAcquireFails(e)
  BY <1>6, OutsideOnePiece DEF EvictAcquireFails
<1> QED
  BY <1>2, <1>3, <1>4, <1>5, <1>6 DEF Evict

LEMMA CrashOnePiece ==
  ASSUME IInv, NEW p \in Procs, Crash(p)
  PROVE  Entry!Next \/ UNCHANGED <<lock, EntryState>>
<1>1. CASE lock = p
  <2>1. pc[p] \in WritePc \cup {"removing"} /\ lock' = Nobody /\ clean' = FALSE
    BY <1>1 DEF IInv, Exclusive, Crash
  <2>2. p \in Provisioners \cup Evictors
    BY <2>1 DEF IInv, Roles
  <2> QED
    BY <2>1, <2>2, AbandonOnePiece DEF Entry!Next
<1>2. CASE lock # p
  <2>1. UNCHANGED <<files, lock, clean>>
    BY <1>2 DEF Crash, IInv, TypeOK
  <2> QED
    BY <2>1, OutsideOnePiece
<1> QED
  BY <1>1, <1>2

\* For any provisioners, launches and evictors, crashes and failed writes
\* included: to those who wait for the lock an entry changes in one piece, and
\* what a provision leaves that got through is its own build and digest
\* (write_to_cache, evict_if_needed).
THEOREM EntryChangesInOnePieceAlways == Spec => EntryChangesInOnePiece
<1>1. Init => Entry!Init
  BY DEF Init, Entry!Init, EntryAtRest, Absent
<1>2. IInv /\ [Next]_vars => [Entry!Next]_<<lock, EntryState>>
  <2> SUFFICES ASSUME IInv, [Next]_vars
               PROVE  Entry!Next \/ UNCHANGED <<lock, EntryState>>
    OBVIOUS
  <2>1. CASE UNCHANGED vars
    BY <2>1, OutsideOnePiece DEF vars, files
  <2>2. ASSUME NEW p \in Provisioners \cup Launches, Probe(p)
        PROVE  UNCHANGED <<lock, EntryState>>
    BY <2>2, OutsideOnePiece
    DEF Probe, ProbeAbsent, ProbePresent, ProbeUnrecorded, ProbeRecorded,
        ProbeMatch, ProbeMismatch
  <2>3. ASSUME NEW l \in Launches, Stage(l) \/ StageFails(l)
        PROVE  UNCHANGED <<lock, EntryState>>
    BY <2>3, OutsideOnePiece DEF Stage, StageFails
  <2> QED
    BY <2>1, <2>2, <2>3, ProvisionOnePiece, EvictOnePiece, CrashOnePiece
    DEF Next, Step, LockFails
<1>3. [Entry!Next]_<<lock, EntryState>> => [Entry!Next]_Entry!vars
  BY DEF Entry!vars, EntryState
<1> QED
  BY <1>1, <1>2, <1>3, Inductive, PTL DEF Spec, EntryChangesInOnePiece, Entry!Spec
-------------------------------------------------------------------------------
\* A launch on a sound entry

\* What ProvisionedIsUsed starts from, and every stage that follows.
Serving(l) ==
  /\ Sound
  /\ \A p \in Provisioners \cup Evictors : pc[p] \in FinalPc
  /\ \/ pc[l] \in {"probe", "probe_sha", "hit"}
     \/ pc[l] = "probe_compare" /\ expected[l] = bin

Served(l) == pc[l] = "crashed" \/ (pc[l] = "staged" /\ staged[l] = bin)

Advances(l) ==
  Serving(l)' /\ ToGo(l)' < ToGo(l)

\* The other processes that are left can only launch or die.
LEMMA OthersServe ==
  ASSUME IInv, NEW l \in Launches, Serving(l), NEW q \in Procs, q # l,
         Step(q) \/ Crash(q) \/ LockFails(q)
  PROVE  Serving(l)' /\ pc'[l] = pc[l]
<1> USE DEF FinalPc
<1>1. q \notin Provisioners \cup Evictors
  <2>1. SUFFICES ASSUME q \in Provisioners \cup Evictors, pc[q] \in FinalPc
                 PROVE  FALSE
    BY DEF Serving
  <2>2. ~Crash(q)
    BY <2>1 DEF Crash
  <2>3. q \in Provisioners => ~Probe(q) /\ ~Provision(q) /\ ~AcquireFails(q)
    BY <2>1
    DEF Probe, ProbeAbsent, ProbePresent, ProbeUnrecorded, ProbeRecorded,
        ProbeMatch, ProbeMismatch, Provision, Build, Acquire, AcquireFails,
        OpenBinary, CopyBinary, WriteFails, OpenSha, WriteSha, ShaFails,
        WriteManifest, ManifestFails, Unlock, Goto
  <2>4. ~Evict(q) /\ ~EvictAcquireFails(q)
    BY <2>1 DEF Evict, EvictAcquire, RemoveBinary, RemoveSha, RemoveManifest,
                EvictDone, EvictFails, EvictAcquireFails, Goto
  <2> QED
    BY <2>1, <2>2, <2>3, <2>4, ProcsAssumption DEF Step, LockFails
<1>2. Probe(q) \/ Stage(q) \/ StageFails(q) \/ Crash(q)
  BY <1>1 DEF Step, LockFails
<1>3. /\ UNCHANGED files /\ expected'[l] = expected[l]
      /\ \A p \in Procs : p # q => pc'[p] = pc[p]
  BY <1>2
  DEF Probe, ProbeAbsent, ProbePresent, ProbeUnrecorded, ProbeRecorded,
      ProbeMatch, ProbeMismatch, Stage, StageFails, Crash, Goto, locals,
      IInv, TypeOK, Procs
<1> QED
  BY <1>1, <1>3 DEF Serving, Sound, files, Procs

\* The launch itself finds the entry, finds its digest right, and copies it.
LEMMA LaunchServes ==
  ASSUME IInv, NEW l \in Launches, Serving(l), Step(l) \/ Crash(l)
  PROVE  Served(l)' \/ Advances(l)
<1>1. /\ l \in Procs /\ l \notin Provisioners /\ l \notin Evictors
      /\ Sound /\ bin # NoFile /\ sha # NoFile /\ AfterHit(l) = "hit"
  BY ProcsAssumption, ContentsAssumption DEF Procs, Serving, Sound, AfterHit
<1>2. CASE Crash(l)
  BY <1>1, <1>2 DEF Crash, Served, IInv, TypeOK
<1>3. CASE Stage(l)
  BY <1>1, <1>3 DEF Stage, Served, Goto, IInv, TypeOK, files
<1>4. CASE Probe(l)
  <2>1. /\ UNCHANGED files
        /\ \A p \in Procs : p # l => pc'[p] = pc[p]
    BY <1>4
    DEF Probe, ProbeAbsent, ProbePresent, ProbeUnrecorded, ProbeRecorded,
        ProbeMatch, ProbeMismatch, Goto, IInv, TypeOK
  <2>2. \/ pc[l] = "probe" /\ pc'[l] = "probe_sha"
        \/ pc[l] = "probe_sha" /\ pc'[l] = "probe_compare" /\ expected'[l] = bin
        \/ pc[l] = "probe_compare" /\ pc'[l] = "hit"
    BY <1>1, <1>4
    DEF Probe, ProbeAbsent, ProbePresent, ProbeUnrecorded, ProbeRecorded,
        ProbeMatch, ProbeMismatch, Goto, IInv, TypeOK, Present, Matches,
        Serving, Sound
  <2>3. Serving(l)'
    BY <1>1, <2>1, <2>2 DEF Serving, Sound, files, Procs
  <2>4. ToGo(l)' < ToGo(l)
    BY <2>2 DEF ToGo, StepsToGo, FinalPc
  <2> QED
    BY <2>3, <2>4 DEF Advances
<1> QED
  BY <1>1, <1>2, <1>3, <1>4 DEF Step, StageFails

\* Once a launch is on the way with a sound entry and nobody at work on it, no
\* step of any process takes it off that way: each step of its own brings it
\* nearer to the copy of that build, for any number of other launches.  That it
\* takes these steps is what ProvisionedIsUsed adds, by fairness (probe_cache,
\* stage_from_cache).
THEOREM ServingStands ==
  Spec => [][\A l \in Launches :
               Serving(l) =>
                 \/ Serving(l)' /\ pc'[l] = pc[l]
                 \/ Advances(l)
                 \/ Served(l)']_vars
<1>1. IInv /\ [Next]_vars =>
        [\A l \in Launches :
           Serving(l) =>
             \/ Serving(l)' /\ pc'[l] = pc[l]
             \/ Advances(l)
             \/ Served(l)']_vars
  <2> SUFFICES ASSUME IInv, Next, NEW l \in Launches, Serving(l)
               PROVE  \/ Serving(l)' /\ pc'[l] = pc[l]
                      \/ Advances(l)
                      \/ Served(l)'
    OBVIOUS
  <2>1. PICK q \in Procs :
          Step(q) \/ Crash(q) \/ LockFails(q)
    BY DEF Next
  <2>2. CASE q # l
    BY <2>1, <2>2, OthersServe
  <2>3. CASE q = l
    BY <2>1, <2>3, LaunchServes, ProcsAssumption DEF LockFails
  <2> QED
    BY <2>2, <2>3
<1> QED
  BY <1>1, Inductive, PTL DEF Spec
-------------------------------------------------------------------------------
\* Everybody's way to the end

LEMMA ToGoValue ==
  ASSUME NEW p \in Procs, pc \in [Procs -> Pc]
  PROVE  /\ pc[p] \in FinalPc => ToGo(p) = 0
         /\ pc[p] = "removing" => ToGo(p) = 1 + FilesLeft
         /\ pc[p] \notin FinalPc \cup {"removing"} =>
              ToGo(p) = StepsToGo[pc[p]] /\ ToGo(p) > 0
         /\ ToGo(p) \in Nat
<1>1. FilesLeft \in Nat
  BY DEF FilesLeft
<1>2. CASE pc[p] \in FinalPc
  BY <1>2 DEF ToGo, FinalPc
<1>3. CASE pc[p] = "removing"
  BY <1>1, <1>3 DEF ToGo, FinalPc
<1>4. CASE pc[p] \notin FinalPc \cup {"removing"}
  <2>1. ToGo(p) = StepsToGo[pc[p]]
    BY <1>4 DEF ToGo
  <2>2. pc[p] \in {"probe", "probe_sha", "probe_compare", "hit", "build", "acquire",
                   "open", "copy", "hash", "sha_write", "manifest", "unlock", "evict"}
    BY <1>4 DEF Pc, ProbePc, WritePc
  <2> QED
    BY <1>4, <2>1, <2>2 DEF StepsToGo
<1> QED
  BY <1>2, <1>3, <1>4, <1>1 DEF FinalPc

\* Only its holder writes to the entry, so no evictor at work sees it change.
LEMMA OthersStay ==
  ASSUME IInv, NEW p \in Procs, \A q \in Procs : q # p => pc'[q] = pc[q],
         UNCHANGED files \/ lock = p
  PROVE  \A q \in Procs \ {p} : ToGo(q)' = ToGo(q)
<1> SUFFICES ASSUME NEW q \in Procs, q # p
             PROVE  ToGo(q)' = ToGo(q)
  OBVIOUS
<1>1. pc'[q] = pc[q]
  OBVIOUS
<1>2. CASE UNCHANGED files
  BY <1>1, <1>2 DEF ToGo, FilesLeft, files
<1>3. CASE lock = p
  <2>1. pc[q] # "removing"
    BY <1>3 DEF IInv, Exclusive
  <2> QED
    BY <1>1, <2>1 DEF ToGo
<1> QED
  BY <1>2, <1>3

Nearer(p) ==
  /\ ToGo(p)' < ToGo(p)
  /\ \A q \in Procs \ {p} : ToGo(q)' = ToGo(q)

\* A step to a place nearer to the end.
LEMMA GotoNearer ==
  ASSUME IInv, NEW p \in Procs, NEW from \in Pc \ (FinalPc \cup {"removing"}),
         NEW to \in Pc \ {"removing"}, Goto(p, from, to),
         to \in FinalPc \/ StepsToGo[to] < StepsToGo[from],
         UNCHANGED files \/ from \in WritePc
  PROVE  Nearer(p)
<1>1. /\ pc' \in [Procs -> Pc] /\ pc[p] = from /\ pc'[p] = to
      /\ \A q \in Procs : q # p => pc'[q] = pc[q]
  BY GotoEffect DEF IInv
<1>2. UNCHANGED files \/ lock = p
  BY <1>1 DEF IInv, Exclusive
<1>3. ToGo(p) = StepsToGo[from] /\ ToGo(p) > 0
  BY <1>1, ToGoValue DEF IInv, TypeOK
<1>4. (to \in FinalPc => ToGo(p)' = 0)
        /\ (to \notin FinalPc => ToGo(p)' = StepsToGo[to])
  BY <1>1 DEF ToGo
<1> QED
  BY <1>1, <1>2, <1>3, <1>4, OthersStay DEF Nearer

LEMMA ProbeNearer ==
  ASSUME IInv, NEW p \in Provisioners \cup Launches,
         Probe(p) \/ (p \in Launches /\ (Stage(p) \/ StageFails(p)))
  PROVE  Nearer(p)
<1>1. p \in Procs /\ UNCHANGED files
  BY DEF Procs, Probe, ProbeAbsent, ProbePresent, ProbeUnrecorded, ProbeRecorded,
         ProbeMatch, ProbeMismatch, Stage, StageFails
<1>2. AfterMiss(p) \in {"stubbed", "build"}
  BY DEF AfterMiss
<1>3. AfterHit(p) \in {"hit", "build", "skipped"}
  <2>1. CASE p \in Launches
    BY <2>1, ProcsAssumption DEF AfterHit
  <2>2. CASE p \notin Launches
    BY <2>2 DEF AfterHit
  <2> QED
    BY <2>1, <2>2
<1>4. \/ \E to \in {"stubbed", "build", "probe_sha"} : Goto(p, "probe", to)
      \/ \E to \in {"hit", "build", "skipped", "probe_compare"} :
           Goto(p, "probe_sha", to)
      \/ \E to \in {"hit", "build", "skipped", "stubbed"} :
           Goto(p, "probe_compare", to)
      \/ \E to \in {"staged", "broken"} : Goto(p, "hit", to)
  BY <1>2, <1>3
  DEF Probe, ProbeAbsent, ProbePresent, ProbeUnrecorded, ProbeRecorded,
      ProbeMatch, ProbeMismatch, Stage, StageFails
<1>5. PICK from \in ProbePc \cup {"hit"},
           to \in {"stubbed", "build", "probe_sha", "hit", "skipped",
                   "probe_compare", "staged", "broken"} :
        /\ Goto(p, from, to)
        /\ to \in FinalPc \/ StepsToGo[to] < StepsToGo[from]
  BY <1>4 DEF ProbePc, FinalPc, StepsToGo
<1> QED
  BY <1>1, <1>5, GotoNearer DEF Pc, ProbePc, FinalPc

LEMMA ProvisionNearer ==
  ASSUME IInv, NEW p \in Provisioners, Provision(p) \/ AcquireFails(p)
  PROVE  Nearer(p)
<1>1. p \in Procs
  BY DEF Procs
<1>2. PICK from \in WritePc \cup {"build", "acquire"},
           to \in WritePc \cup {"acquire", "failed", "ok"} :
        /\ Goto(p, from, to)
        /\ to \in FinalPc \/ StepsToGo[to] < StepsToGo[from]
        /\ UNCHANGED files \/ from \in WritePc
  <2>1. CASE Build(p) \/ Acquire(p) \/ AcquireFails(p) \/ WriteFails(p) \/ Unlock(p)
    BY <2>1 DEF Build, Acquire, AcquireFails, WriteFails, Unlock, WritePc, FinalPc,
                StepsToGo
  <2>2. CASE \/ OpenBinary(p) \/ CopyBinary(p) \/ OpenSha(p) \/ WriteSha(p)
             \/ ShaFails(p) \/ WriteManifest(p) \/ ManifestFails(p)
    BY <2>2 DEF OpenBinary, CopyBinary, OpenSha, WriteSha, ShaFails, WriteManifest,
                ManifestFails, WritePc, StepsToGo
  <2> QED
    BY <2>1, <2>2, Zenon DEF Provision
<1> QED
  BY <1>1, <1>2, GotoNearer DEF Pc, WritePc, FinalPc

LEMMA EvictNearer ==
  ASSUME IInv, NEW e \in Evictors, Evict(e) \/ EvictAcquireFails(e)
  PROVE  Nearer(e)
<1>1. e \in Procs /\ pc \in [Procs -> Pc] /\ manifest \in BOOLEAN
  BY DEF Procs, IInv, TypeOK
<1>2. CASE EvictAcquire(e)
  <2>1. /\ pc' \in [Procs -> Pc] /\ pc[e] = "evict" /\ pc'[e] = "removing"
        /\ \A q \in Procs : q # e => pc'[q] = pc[q]
        /\ UNCHANGED files
    BY <1>1, <1>2, GotoEffect DEF EvictAcquire, IInv, Pc
  <2>2. ToGo(e) = 5
    BY <2>1 DEF ToGo, StepsToGo, FinalPc
  <2>3. ToGo(e)' \in 1 .. 4
    BY <2>1 DEF ToGo, FinalPc, FilesLeft
  <2>4. ToGo(e)' < ToGo(e)
    BY <2>2, <2>3
  <2>5. \A q \in Procs \ {e} : ToGo(q)' = ToGo(q)
    BY <1>1, <2>1, OthersStay
  <2> QED
    BY <2>4, <2>5 DEF Nearer
<1>3. CASE RemoveBinary(e) \/ RemoveSha(e) \/ RemoveManifest(e)
  <2>1. pc[e] = "removing" /\ pc' = pc
    BY <1>3 DEF RemoveBinary, RemoveSha, RemoveManifest
  <2>2. ToGo(e)' < ToGo(e)
    BY <1>3, <2>1
    DEF RemoveBinary, RemoveSha, RemoveManifest, ToGo, FilesLeft, FinalPc
  <2>3. lock = e
    BY <1>1, <2>1 DEF IInv, Exclusive
  <2>4. \A q \in Procs \ {e} : ToGo(q)' = ToGo(q)
    BY <1>1, <2>1, <2>3, OthersStay
  <2> QED
    BY <2>2, <2>4 DEF Nearer
<1>4. CASE EvictDone(e) \/ EvictFails(e)
  <2>1. /\ pc[e] = "removing" /\ pc'[e] = "evicted"
        /\ \A q \in Procs : q # e => pc'[q] = pc[q]
        /\ UNCHANGED files
    BY <1>1, <1>4 DEF EvictDone, EvictFails, Goto
  <2>2. ToGo(e) = 1 + FilesLeft /\ FilesLeft \in Nat /\ ToGo(e)' = 0
    BY <2>1 DEF ToGo, FinalPc, FilesLeft
  <2> QED
    BY <1>1, <2>1, <2>2, OthersStay DEF Nearer
<1>5. CASE EvictAcquireFails(e)
  BY <1>1, <1>5, GotoNearer DEF EvictAcquireFails, Pc, FinalPc, WritePc
<1> QED
  BY <1>2, <1>3, <1>4, <1>5 DEF Evict

LEMMA CrashNearer ==
  ASSUME IInv, NEW p \in Procs, Crash(p)
  PROVE  Nearer(p)
<1>1. /\ pc[p] \notin FinalPc /\ pc'[p] = "crashed"
      /\ \A q \in Procs : q # p => pc'[q] = pc[q]
      /\ UNCHANGED files
  BY DEF Crash, IInv, TypeOK
<1>2. ToGo(p)' = 0
  BY <1>1 DEF ToGo, FinalPc
<1>3. ToGo(p) > 0
  <2>1. FilesLeft \in Nat
    BY DEF FilesLeft
  <2> QED
    BY <1>1, <2>1, ToGoValue DEF IInv, TypeOK
<1> QED
  BY <1>1, <1>2, <1>3, OthersStay DEF Nearer

\* For any provisioners, launches and evictors: every step of one of them leads
\* it nearer to its end, at most 13 steps away, and none leads another one back,
\* so that who waits for the lock waits for a bounded number of steps
\* (write_to_cache, evict_if_needed).  That those steps are taken is what
\* EveryoneFinishes adds, by fairness.
THEOREM EveryoneAdvancesAlways == Spec => EveryoneAdvances
<1>1. IInv /\ [Next]_vars =>
        [\E p \in Procs :
           /\ ToGo(p)' < ToGo(p)
           /\ \A q \in Procs \ {p} : ToGo(q)' = ToGo(q)]_vars
  <2> SUFFICES ASSUME IInv, Next
               PROVE  \E p \in Procs : Nearer(p)
    BY DEF Nearer
  <2>1. PICK p \in Procs :
          Step(p) \/ Crash(p) \/ LockFails(p)
    BY DEF Next
  <2>2. Nearer(p)
    BY <2>1, ProbeNearer, ProvisionNearer, EvictNearer, CrashNearer
    DEF Step, LockFails
  <2> QED
    BY <2>2
<1> QED
  BY <1>1, Inductive, PTL DEF Spec, EveryoneAdvances
===============================================================================
