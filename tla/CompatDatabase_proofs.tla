-------------------------- MODULE CompatDatabase_proofs -------------------------
(***************************************************************************)
(* Proofs about CompatDatabase for any number of files, any contents and   *)
(* any number of calls and of concurrent writes.                           *)
(*                                                                         *)
(* The indices are right because every operation but LoadNext rebuilds     *)
(* them or leaves the records alone (Fresh).  That the smallest file       *)
(* decides needs the loop's invariant (Batch): what is left to read comes  *)
(* after what was read, and the records kept are those of the valid files  *)
(* read so far, in the files' order, one for each identifier.  The account *)
(* of refusals is kept beside it: every file read is a record or an error  *)
(* with its name (NoneLost).  That a verdict is final needs only that the  *)
(* records grow at their end (RecordsGrow).                                *)
(***************************************************************************)
EXTENDS CompatDatabase, TLAPS, WellFoundedInduction, FiniteSetTheorems

-------------------------------------------------------------------------------
\* Least and greatest numbers of a set

Less == {p \in Nat \X Nat : p[1] < p[2]}

LEMMA LessWellFounded == IsWellFoundedOn(Less, Nat)
<1>1. Less = OpToRel(<, Nat)
  BY Zenon DEF Less, OpToRel
<1> QED
  BY <1>1, NatLessThanWellFounded, Zenon

\* FirstOf returns the least element.
LEMMA FirstOfProperties ==
  ASSUME NEW S \in SUBSET Nat, S # {}
  PROVE  FirstOf(S) \in S /\ \A m \in S : FirstOf(S) <= m
<1>1. PICK x \in S : \A y \in S : <<y, x>> \notin Less
  BY LessWellFounded, WFMin, Zenon
<1>2. ASSUME NEW y \in S PROVE x <= y
  <2>1. ASSUME y < x PROVE <<y, x>> \in Less
    BY <2>1 DEF Less
  <2>2. ~ (y < x)
    BY <1>1, <2>1, Zenon
  <2> QED
    BY <2>2
<1>3. \E n \in S : \A m \in S : n <= m
  BY <1>2
<1> QED
  BY <1>3, Zenon DEF FirstOf

\* LastOf returns the greatest element of a bounded set.
LEMMA LastOfProperties ==
  ASSUME NEW N \in Nat, NEW S \in SUBSET (1..N), S # {}
  PROVE  LastOf(S) \in S /\ \A m \in S : m <= LastOf(S)
<1> DEFINE T == {N - m : m \in S}
<1>1. T \in SUBSET Nat /\ T # {}
  OBVIOUS
<1>2. FirstOf(T) \in T /\ \A u \in T : FirstOf(T) <= u
  BY <1>1, FirstOfProperties, Zenon
<1>3. PICK n \in S : FirstOf(T) = N - n
  BY <1>2
<1>4. ASSUME NEW m \in S PROVE m <= n
  <2>1. N - n <= N - m
    BY <1>2, <1>3
  <2> QED
    BY <2>1
<1>5. \E k \in S : \A m \in S : m <= k
  BY <1>4
<1> QED
  BY <1>5, Zenon DEF LastOf

\* There is one least element only.
LEMMA FirstOfUnique ==
  ASSUME NEW S \in SUBSET Nat, NEW n \in S, \A m \in S : n <= m
  PROVE  FirstOf(S) = n
<1>1. FirstOf(S) \in S /\ \A m \in S : FirstOf(S) <= m
  BY FirstOfProperties
<1>2. FirstOf(S) \in Nat /\ n \in Nat /\ FirstOf(S) <= n /\ n <= FirstOf(S)
  BY <1>1
<1> QED
  BY <1>2

-------------------------------------------------------------------------------
\* Records

\* Parsing keeps the identifiers.
LEMMA ParseKeepsIds ==
  ASSUME NEW w, IsWritten(w)
  PROVE  ParseRecord(w).id = w.id /\ ParseRecord(w).bundle = w.bundle
BY DEF IsWritten, ParseRecord

LEMMA ReadableIsAccepted ==
  ASSUME NEW c \in Contents, Readable(c)
  PROVE  /\ ParseRecord(c.rec) \in Accepted
         /\ ParseRecord(c.rec).id = c.rec.id
         /\ ParseRecord(c.rec).bundle = c.rec.bundle
<1>1. c.kind = "record" /\ ValidateFull(ParseRecord(c.rec))
  BY DEF Readable
<1>2. IsWritten(c.rec)
  BY <1>1, ContentsAssumption DEF Unreadable, NotJson, TypeError
<1> QED
  BY <1>1, <1>2, ParseKeepsIds DEF Accepted

\* Appending an entry.
LEMMA AppendEntry ==
  ASSUME NEW s \in Seq(Entries), NEW e \in Entries
  PROVE  /\ Append(s, e) \in Seq(Entries)
         /\ Len(Append(s, e)) = Len(s) + 1
         /\ Len(s) \in Nat
         /\ \A i \in 1..Len(s) : Append(s, e)[i] = s[i]
         /\ Append(s, e)[Len(s) + 1] = e
OBVIOUS

LEMMA AppendIds ==
  ASSUME NEW s \in Seq(Entries), NEW e \in Entries
  PROVE  RecordIds(Append(s, e)) = RecordIds(s) \cup {e.rec.id}
<1>1. RecordIds(s) \cup {e.rec.id} \subseteq RecordIds(Append(s, e))
  <2>1. ASSUME NEW i \in 1..Len(s) PROVE s[i].rec.id \in RecordIds(Append(s, e))
    BY AppendEntry DEF RecordIds, Positions
  <2>2. e.rec.id \in RecordIds(Append(s, e))
    BY AppendEntry DEF RecordIds, Positions
  <2> QED
    BY <2>1, <2>2 DEF RecordIds, Positions
<1>2. ASSUME NEW i \in 1..Len(Append(s, e))
      PROVE  Append(s, e)[i].rec.id \in RecordIds(s) \cup {e.rec.id}
  <2>1. i \in 1..Len(s) \/ i = Len(s) + 1
    BY AppendEntry
  <2> QED
    BY <2>1, AppendEntry DEF RecordIds, Positions
<1> QED
  BY <1>1, <1>2 DEF RecordIds, Positions

-------------------------------------------------------------------------------
\* Types

\* The file that is read next is one that is left to read.
LEMMA NextFileInTodo ==
  ASSUME TypeOK, todo # {}, NEW f \in NextFile
  PROVE  /\ f \in todo /\ f \in listed /\ f \in Files
         /\ content[f] \in Contents
         /\ \A g \in todo : f <= g
<1>1. todo \in SUBSET Nat
  BY NFilesAssumption DEF TypeOK, Files
<1>2. f \in todo /\ \A g \in todo : f <= g
  BY <1>1, FirstOfProperties DEF NextFile
<1> QED
  BY <1>2 DEF TypeOK

\* The three ways in which a round of the loop ends.
Throws(f) ==
  /\ pc' = "aborted"
  /\ UNCHANGED <<records, validCount, invalidCount, loadErrors, seenIds>>

Refuses(f) ==
  /\ ~(Readable(content[f]) /\ ParseRecord(content[f].rec).id \notin seenIds)
  /\ Refuse(f)
  /\ UNCHANGED <<records, validCount, seenIds, pc>>

Keeps(f) ==
  /\ Readable(content[f])
  /\ ParseRecord(content[f].rec).id \notin seenIds
  /\ Keep(ParseRecord(content[f].rec), f)
  /\ seenIds' = seenIds \cup {ParseRecord(content[f].rec).id}
  /\ UNCHANGED <<invalidCount, loadErrors, pc>>

\* A record that passed the validator makes an entry.
LEMMA KeepTypes ==
  ASSUME TypeOK, NEW r \in Accepted, NEW f \in Files \cup {0}, Keep(r, f)
  PROVE  /\ [rec |-> r, file |-> f] \in Entries
         /\ records' \in Seq(Entries)
         /\ validCount' \in Nat
         /\ RecordIds(records') = RecordIds(records) \cup {r.id}
<1>1. [rec |-> r, file |-> f] \in Entries
  BY DEF Entries
<1>2. records \in Seq(Entries) /\ validCount \in Nat
  BY DEF TypeOK
<1>3. records' = Append(records, [rec |-> r, file |-> f])
  BY DEF Keep
<1>4. RecordIds(records') = RecordIds(records) \cup {[rec |-> r, file |-> f].rec.id}
  BY <1>1, <1>2, <1>3, AppendIds, Zenon
<1> QED
  BY <1>1, <1>2, <1>3, <1>4 DEF Keep

LEMMA RefuseTypes ==
  ASSUME TypeOK, NEW f \in Files, Refuse(f)
  PROVE  invalidCount' \in Nat /\ loadErrors' \in Seq(Files)
BY DEF TypeOK, Refuse

LEMMA LoadNextTypes ==
  ASSUME TypeOK, LoadNext
  PROVE  TypeOK'
<1>1. PICK f \in NextFile :
        /\ todo' = todo \ {f}
        /\ asRead' = [g \in DOMAIN asRead \cup {f} |->
                        IF g = f THEN content[f] ELSE asRead[g]]
        /\ Throws(f) \/ Refuses(f) \/ Keeps(f)
  BY Zenon DEF LoadNext, Throws, Refuses, Keeps
<1>2. f \in todo /\ f \in listed /\ f \in Files /\ content[f] \in Contents
  BY NextFileInTodo DEF LoadNext
<1>3. /\ content' = content /\ writes' = writes /\ idIndex' = idIndex
      /\ bundleIndex' = bundleIndex /\ calls' = calls /\ listed' = listed
      /\ pc = "loading"
  BY DEF LoadNext
<1>4. asRead' \in [listed' \ todo' -> Contents]
  <2>1. DOMAIN asRead \cup {f} = listed' \ todo'
    BY <1>1, <1>2, <1>3 DEF TypeOK
  <2> QED
    BY <1>1, <1>2, <2>1 DEF TypeOK
<1>5. CASE Throws(f)
  BY <1>1, <1>2, <1>3, <1>4, <1>5 DEF TypeOK, Throws
<1>6. CASE Refuses(f)
  <2>1. invalidCount' \in Nat /\ loadErrors' \in Seq(Files)
    BY <1>2, <1>6, RefuseTypes DEF Refuses
  <2> QED
    BY <1>1, <1>2, <1>3, <1>4, <1>6, <2>1 DEF TypeOK, Refuses
<1>7. CASE Keeps(f)
  <2>1. ParseRecord(content[f].rec) \in Accepted
    BY <1>2, <1>7, ReadableIsAccepted DEF Keeps
  <2>2. /\ records' \in Seq(Entries)
        /\ validCount' \in Nat
        /\ RecordIds(records') = RecordIds(records) \cup {ParseRecord(content[f].rec).id}
    BY <1>2, <1>7, <2>1, KeepTypes DEF Keeps
  <2> QED
    BY <1>1, <1>2, <1>3, <1>4, <1>7, <2>2 DEF TypeOK, Keeps
<1> QED
  BY <1>1, <1>5, <1>6, <1>7

LEMMA LoadFileTypes ==
  ASSUME TypeOK, LoadFile
  PROVE  TypeOK'
<1> USE DEF Call
<1>1. PICK f \in Files :
        \/ pc' = "aborted" /\ UNCHANGED database
        \/ /\ loadErrors' = Append(loadErrors, f)
           /\ UNCHANGED <<records, idIndex, bundleIndex, validCount, invalidCount, pc>>
        \/ /\ Refuse(f)
           /\ UNCHANGED <<records, idIndex, bundleIndex, validCount, pc>>
        \/ /\ Readable(content[f])
           /\ Keep(ParseRecord(content[f].rec), f)
           /\ UNCHANGED <<invalidCount, loadErrors, pc>>
  BY Zenon DEF LoadFile
<1>2. /\ calls' = calls + 1 /\ calls < MaxCalls /\ calls \in 0..MaxCalls
      /\ content' = content /\ writes' = writes /\ todo' = todo
      /\ seenIds' = seenIds /\ listed' = listed /\ asRead' = asRead
      /\ content[f] \in Contents
  BY DEF LoadFile, TypeOK
<1>3. calls' \in 0..MaxCalls
  BY <1>2, MaxCallsAssumption
<1>4. CASE pc' = "aborted" /\ UNCHANGED database
  BY <1>2, <1>3, <1>4 DEF TypeOK, database
<1>5. CASE /\ loadErrors' = Append(loadErrors, f)
           /\ UNCHANGED <<records, idIndex, bundleIndex, validCount, invalidCount, pc>>
  <2>1. loadErrors' \in Seq(Files)
    BY <1>5 DEF TypeOK
  <2> QED
    BY <1>2, <1>3, <1>5, <2>1 DEF TypeOK
<1>6. CASE /\ Refuse(f)
           /\ UNCHANGED <<records, idIndex, bundleIndex, validCount, pc>>
  <2>1. invalidCount' \in Nat /\ loadErrors' \in Seq(Files)
    BY <1>6, RefuseTypes
  <2> QED
    BY <1>2, <1>3, <1>6, <2>1 DEF TypeOK
<1>7. CASE /\ Readable(content[f])
           /\ Keep(ParseRecord(content[f].rec), f)
           /\ UNCHANGED <<invalidCount, loadErrors, pc>>
  <2>1. ParseRecord(content[f].rec) \in Accepted
    BY <1>2, <1>7, ReadableIsAccepted
  <2>2. /\ records' \in Seq(Entries)
        /\ validCount' \in Nat
        /\ RecordIds(records') = RecordIds(records) \cup {ParseRecord(content[f].rec).id}
    BY <1>7, <2>1, KeepTypes
  <2> QED
    BY <1>2, <1>3, <1>7, <2>2 DEF TypeOK
<1> QED
  BY <1>1, <1>4, <1>5, <1>6, <1>7

LEMMA AddRecordTypes ==
  ASSUME TypeOK, AddRecord
  PROVE  TypeOK'
<1>1. PICK c \in Contents :
        /\ c.kind = "record"
        /\ \/ /\ ValidateFull(ParseRecord(c.rec))
              /\ Keep(ParseRecord(c.rec), 0)
              /\ UNCHANGED <<invalidCount, loadErrors>>
           \/ /\ invalidCount' = invalidCount + 1
              /\ UNCHANGED <<records, idIndex, bundleIndex, validCount, loadErrors>>
  BY DEF AddRecord
<1>2. /\ calls' = calls + 1 /\ calls < MaxCalls /\ calls \in 0..MaxCalls
      /\ content' = content /\ writes' = writes /\ todo' = todo /\ pc' = pc
      /\ seenIds' = seenIds /\ listed' = listed /\ asRead' = asRead
  BY DEF AddRecord, Call, TypeOK
<1>3. calls' \in 0..MaxCalls
  BY <1>2, MaxCallsAssumption
<1>4. CASE /\ ValidateFull(ParseRecord(c.rec))
           /\ Keep(ParseRecord(c.rec), 0)
           /\ UNCHANGED <<invalidCount, loadErrors>>
  <2>1. ParseRecord(c.rec) \in Accepted
    BY <1>1, <1>4 DEF Accepted
  <2>2. /\ records' \in Seq(Entries)
        /\ validCount' \in Nat
        /\ RecordIds(records') = RecordIds(records) \cup {ParseRecord(c.rec).id}
    BY <1>4, <2>1, KeepTypes
  <2> QED
    BY <1>2, <1>3, <1>4, <2>2 DEF TypeOK
<1>5. CASE /\ invalidCount' = invalidCount + 1
           /\ UNCHANGED <<records, idIndex, bundleIndex, validCount, loadErrors>>
  BY <1>2, <1>3, <1>5 DEF TypeOK
<1> QED
  BY <1>1, <1>4, <1>5

\* For any files and calls, every variable keeps its type and every record kept
\* has passed the validator (database.cpp, load_directory, load_file, add_record).
THEOREM TypeCorrect == Spec => []TypeOK
<1>1. Init => TypeOK
  <2>1. ASSUME Init PROVE TypeOK
    <3>1. asRead \in [listed \ todo -> Contents]
      BY <2>1 DEF Init, NothingRead
    <3>2. records \in Seq(Entries) /\ loadErrors \in Seq(Files)
      BY <2>1 DEF Init
    <3> QED
      BY <2>1, <3>1, <3>2, MaxCallsAssumption, MaxWritesAssumption DEF Init, TypeOK
  <2> QED
    BY <2>1
<1>2. TypeOK /\ [Next]_vars => TypeOK'
  <2> SUFFICES ASSUME TypeOK, [Next]_vars PROVE TypeOK'
    OBVIOUS
  <2>1. CASE WriteFile
    <3>1. /\ content' \in [Files -> Contents]
          /\ writes' \in 0..MaxWrites
      BY <2>1, MaxWritesAssumption DEF WriteFile, TypeOK
    <3> QED
      BY <2>1, <3>1 DEF WriteFile, TypeOK, database
  <2>2. CASE LoadDirectory
    <3>1. asRead' \in [listed' \ todo' -> Contents]
      BY <2>2 DEF LoadDirectory, NothingRead
    <3>2. calls' \in 0..MaxCalls
      BY <2>2, MaxCallsAssumption DEF LoadDirectory, Call, TypeOK
    <3> QED
      BY <2>2, <3>1, <3>2 DEF LoadDirectory, TypeOK, database
  <2>3. CASE LoadNext
    BY <2>3, LoadNextTypes
  <2>4. CASE LoadDirectoryReturns
    BY <2>4 DEF LoadDirectoryReturns, TypeOK
  <2>5. CASE LoadFile
    BY <2>5, LoadFileTypes
  <2>6. CASE AddRecord
    BY <2>6, AddRecordTypes
  <2>7. CASE UNCHANGED vars
    BY <2>7 DEF vars, database, TypeOK
  <2> QED
    BY <2>1, <2>2, <2>3, <2>4, <2>5, <2>6, <2>7 DEF Next
<1> QED
  BY <1>1, <1>2, PTL DEF Spec

-------------------------------------------------------------------------------
\* The indices

Fresh ==
  pc = "idle" =>
    /\ idIndex = BuiltIdIndex(records)
    /\ bundleIndex = BuiltBundleIndex(records)

\* Indices that were rebuilt from the records answer as a scan would.
LEMMA FreshIsRight ==
  ASSUME TypeOK, Fresh
  PROVE  IndexAgrees
<1> SUFFICES ASSUME pc = "idle" PROVE
      /\ \A i \in Positions(records) :
           /\ i \in LookupByBundleId(records[i].rec.bundle)
           /\ LookupById(records[i].rec.id) # {}
      /\ \A b \in DOMAIN bundleIndex : \A i \in bundleIndex[b] :
           i \in Positions(records) /\ records[i].rec.bundle = b
      /\ \A d \in DOMAIN idIndex :
           /\ idIndex[d] \in Positions(records)
           /\ \A i \in Positions(records) : records[i].rec.id = d => i <= idIndex[d]
  BY DEF IndexAgrees
<1>1. idIndex = BuiltIdIndex(records) /\ bundleIndex = BuiltBundleIndex(records)
  BY DEF Fresh
<1>2. ASSUME NEW i \in Positions(records)
      PROVE  /\ i \in LookupByBundleId(records[i].rec.bundle)
             /\ LookupById(records[i].rec.id) # {}
  BY <1>1 DEF LookupByBundleId, LookupById, BuiltBundleIndex, BuiltIdIndex,
              RecordBundles, RecordIds
<1>3. ASSUME NEW b \in DOMAIN bundleIndex, NEW i \in bundleIndex[b]
      PROVE  i \in Positions(records) /\ records[i].rec.bundle = b
  BY <1>1, <1>3 DEF BuiltBundleIndex
<1>4. ASSUME NEW d \in DOMAIN idIndex
      PROVE  /\ idIndex[d] \in Positions(records)
             /\ \A i \in Positions(records) : records[i].rec.id = d => i <= idIndex[d]
  <2> DEFINE S == {i \in Positions(records) : records[i].rec.id = d}
  <2>1. idIndex[d] = LastOf(S) /\ S # {}
    BY <1>1, <1>4 DEF BuiltIdIndex, RecordIds
  <2>2. Len(records) \in Nat /\ S \in SUBSET (1..Len(records))
    BY DEF TypeOK, Positions
  <2>3. LastOf(S) \in S /\ \A m \in S : m <= LastOf(S)
    BY <2>1, <2>2, LastOfProperties, Zenon
  <2> QED
    BY <2>1, <2>3
<1> QED
  BY <1>2, <1>3, <1>4

\* Every operation rebuilds the indices, or leaves them and the records alone.
LEMMA IndexIsFresh == Spec => []Fresh
<1>1. Init => Fresh
  BY DEF Init, Fresh
<1>2. Fresh /\ [Next]_vars => Fresh'
  <2> SUFFICES ASSUME Fresh, [Next]_vars PROVE Fresh'
    OBVIOUS
  <2>1. CASE WriteFile
    BY <2>1 DEF WriteFile, Fresh, database
  <2>2. CASE LoadDirectory
    BY <2>2 DEF LoadDirectory, Fresh
  <2>3. CASE LoadNext
    <3>1. pc' # "idle"
      BY <2>3 DEF LoadNext
    <3> QED
      BY <3>1 DEF Fresh
  <2>4. CASE LoadDirectoryReturns
    BY <2>4 DEF LoadDirectoryReturns, RebuildIndices, Fresh
  <2>5. CASE LoadFile
    BY <2>5 DEF LoadFile, Call, RebuildIndices, Fresh, database
  <2>6. CASE AddRecord
    BY <2>6 DEF AddRecord, Call, RebuildIndices, Fresh
  <2>7. CASE UNCHANGED vars
    BY <2>7 DEF vars, database, Fresh
  <2> QED
    BY <2>1, <2>2, <2>3, <2>4, <2>5, <2>6, <2>7 DEF Next
<1> QED
  BY <1>1, <1>2, PTL DEF Spec

\* For any sequence of calls, a query between two calls finds every record, and
\* only records that are there (CompatDatabase::rebuild_indices and its callers).
THEOREM IndexAgreesAlways == Spec => []IndexAgrees
<1>1. TypeOK /\ Fresh => IndexAgrees
  BY FreshIsRight
<1> QED
  BY <1>1, IndexIsFresh, TypeCorrect, PTL

-------------------------------------------------------------------------------
\* The smallest file decides

\* The loop of the first load_directory, at the start of a round.
ReadInOrder == \A f \in todo : \A g \in listed \ todo : g < f

KeptFromFiles ==
  \A i \in Positions(records) :
    /\ records[i].file \in listed \ todo
    /\ Readable(asRead[records[i].file])
    /\ records[i].rec = ParseRecord(asRead[records[i].file].rec)

KeptInOrder ==
  \A i, j \in Positions(records) : i < j => records[i].file < records[j].file

IdsDistinct ==
  \A i, j \in Positions(records) : i # j => records[i].rec.id # records[j].rec.id

\* The identifier of a valid file is that of a record of it or of a smaller one.
NoneForgotten ==
  \A f \in listed \ todo :
    Readable(asRead[f]) =>
      \E i \in Positions(records) :
        records[i].rec.id = asRead[f].rec.id /\ records[i].file <= f

Batch ==
  /\ ReadInOrder
  /\ seenIds = RecordIds(records)
  /\ KeptFromFiles
  /\ KeptInOrder
  /\ IdsDistinct
  /\ NoneForgotten

FirstLoad ==
  /\ calls = 0 => records = <<>> /\ listed = {} /\ pc = "idle"
  /\ calls = 1 /\ pc # "aborted" /\ (listed # {} \/ pc = "loading") => Batch

LEMMA BatchStep ==
  ASSUME TypeOK, Batch, LoadNext, pc' # "aborted"
  PROVE  Batch'
<1>1. PICK f \in NextFile :
        /\ todo' = todo \ {f}
        /\ asRead' = [g \in DOMAIN asRead \cup {f} |->
                        IF g = f THEN content[f] ELSE asRead[g]]
        /\ Throws(f) \/ Refuses(f) \/ Keeps(f)
  BY Zenon DEF LoadNext, Throws, Refuses, Keeps
<1>2. /\ f \in todo /\ f \in listed /\ f \in Files /\ content[f] \in Contents
      /\ \A g \in todo : f <= g
  BY NextFileInTodo DEF LoadNext
<1>3. /\ listed' = listed
      /\ listed' \ todo' = (listed \ todo) \cup {f}
      /\ f \notin listed \ todo
      /\ DOMAIN asRead = listed \ todo
  BY <1>1, <1>2 DEF LoadNext, TypeOK
<1>4. /\ asRead'[f] = content[f]
      /\ \A g \in listed \ todo : asRead'[g] = asRead[g]
  BY <1>1, <1>3
<1>5. /\ \A g \in listed : g \in Nat
      /\ records \in Seq(Entries) /\ Len(records) \in Nat
  BY NFilesAssumption DEF TypeOK, Files
<1>6. \A g \in listed \ todo : g < f
  BY <1>2 DEF Batch, ReadInOrder
<1>7. ReadInOrder'
  <2> SUFFICES ASSUME NEW h \in todo', NEW g \in listed' \ todo' PROVE g < h
    BY DEF ReadInOrder
  <2>1. h \in todo /\ h # f /\ f < h
    BY <1>1, <1>2, <1>5 DEF TypeOK
  <2>2. CASE g = f
    BY <2>1, <2>2
  <2>3. CASE g \in listed \ todo
    BY <2>1, <2>3 DEF Batch, ReadInOrder
  <2> QED
    BY <1>3, <2>2, <2>3
<1>8. CASE Refuses(f)
  <2>1. records' = records /\ seenIds' = seenIds
    BY <1>8 DEF Refuses
  <2>2. KeptFromFiles'
    BY <1>3, <1>4, <2>1 DEF Batch, KeptFromFiles
  <2>3. KeptInOrder' /\ IdsDistinct' /\ seenIds' = RecordIds(records')
    BY <2>1 DEF Batch, KeptInOrder, IdsDistinct
  <2>4. NoneForgotten'
    <3> SUFFICES ASSUME NEW g \in listed' \ todo', Readable(asRead'[g])
                 PROVE  \E i \in Positions(records) :
                          records[i].rec.id = asRead'[g].rec.id /\ records[i].file <= g
      BY <2>1 DEF NoneForgotten
    <3>1. CASE g \in listed \ todo
      BY <1>4, <3>1 DEF Batch, NoneForgotten
    <3>2. CASE g = f
      <4>1. Readable(content[f])
        BY <1>4, <3>2
      <4>2. content[f].rec.id \in RecordIds(records)
        BY <1>2, <1>8, <4>1, ReadableIsAccepted DEF Refuses, Batch
      <4>3. PICK i \in Positions(records) : records[i].rec.id = content[f].rec.id
        BY <4>2 DEF RecordIds
      <4>4. records[i].file \in listed \ todo
        BY DEF Batch, KeptFromFiles
      <4>5. records[i].file <= f
        BY <1>2, <1>5, <1>6, <4>4
      <4> QED
        BY <1>4, <3>2, <4>3, <4>5
    <3> QED
      BY <1>3, <3>1, <3>2
  <2> QED
    BY <1>7, <2>2, <2>3, <2>4 DEF Batch
<1>9. CASE Keeps(f)
  <2> DEFINE r == ParseRecord(content[f].rec)
             e == [rec |-> r, file |-> f]
             n == Len(records)
  <2>1. /\ r \in Accepted /\ r.id = content[f].rec.id
        /\ Readable(content[f]) /\ r.id \notin seenIds
    BY <1>2, <1>9, ReadableIsAccepted DEF Keeps
  <2>2. /\ e \in Entries
        /\ RecordIds(records') = RecordIds(records) \cup {r.id}
    BY <1>2, <1>9, <2>1, KeepTypes DEF Keeps
  <2>3. records' = Append(records, e) /\ seenIds' = seenIds \cup {r.id}
    BY <1>9 DEF Keeps, Keep
  <2>4. /\ Positions(records') = 1..(n + 1) /\ Positions(records) = 1..n
        /\ \A i \in 1..n : records'[i] = records[i]
        /\ records'[n + 1] = e
    BY <1>5, <2>2, <2>3, AppendEntry DEF Positions
  <2>5. e.rec = r /\ e.file = f
    OBVIOUS
  <2> HIDE DEF r, e
  <2>6. KeptFromFiles'
    <3> SUFFICES ASSUME NEW i \in 1..(n + 1)
                 PROVE  /\ records'[i].file \in listed' \ todo'
                        /\ Readable(asRead'[records'[i].file])
                        /\ records'[i].rec = ParseRecord(asRead'[records'[i].file].rec)
      BY <2>4 DEF KeptFromFiles
    <3>1. CASE i \in 1..n
      BY <1>3, <1>4, <2>4, <3>1 DEF Batch, KeptFromFiles
    <3>2. CASE i = n + 1
      BY <1>3, <1>4, <2>1, <2>4, <2>5, <3>2 DEF r
    <3> QED
      BY <1>5, <3>1, <3>2
  <2>7. \A i \in 1..n : records[i].file < f /\ records[i].rec.id # r.id
    <3> TAKE i \in 1..n
    <3>1. records[i].file \in listed \ todo
      BY <2>4 DEF Batch, KeptFromFiles
    <3>2. records[i].rec.id \in seenIds
      BY <2>4 DEF Batch, RecordIds
    <3> QED
      BY <1>6, <2>1, <3>1, <3>2
  <2>8. KeptInOrder'
    <3> SUFFICES ASSUME NEW i \in 1..(n + 1), NEW j \in 1..(n + 1), i < j
                 PROVE  records'[i].file < records'[j].file
      BY <2>4 DEF KeptInOrder
    <3>1. i \in 1..n /\ (j \in 1..n \/ j = n + 1)
      BY <1>5
    <3> QED
      BY <2>4, <2>5, <2>7, <3>1 DEF Batch, KeptInOrder
  <2>9. IdsDistinct'
    <3> SUFFICES ASSUME NEW i \in 1..(n + 1), NEW j \in 1..(n + 1), i # j
                 PROVE  records'[i].rec.id # records'[j].rec.id
      BY <2>4 DEF IdsDistinct
    <3>1. (i \in 1..n \/ i = n + 1) /\ (j \in 1..n \/ j = n + 1)
      BY <1>5
    <3> QED
      BY <2>4, <2>5, <2>7, <3>1 DEF Batch, IdsDistinct
  <2>10. NoneForgotten'
    <3> SUFFICES ASSUME NEW g \in listed' \ todo', Readable(asRead'[g])
                 PROVE  \E i \in 1..(n + 1) :
                          records'[i].rec.id = asRead'[g].rec.id /\ records'[i].file <= g
      BY <2>4 DEF NoneForgotten
    <3>1. CASE g \in listed \ todo
      <4>1. PICK i \in 1..n :
              records[i].rec.id = asRead[g].rec.id /\ records[i].file <= g
        BY <1>4, <2>4, <3>1 DEF Batch, NoneForgotten
      <4> QED
        BY <1>4, <1>5, <2>4, <3>1, <4>1
    <3>2. CASE g = f
      BY <1>2, <1>4, <1>5, <2>1, <2>4, <2>5, <3>2
    <3> QED
      BY <1>3, <3>1, <3>2
  <2>11. seenIds' = RecordIds(records')
    BY <2>2, <2>3 DEF Batch
  <2> QED
    BY <1>7, <2>6, <2>8, <2>9, <2>10, <2>11 DEF Batch
<1> QED
  BY <1>1, <1>8, <1>9 DEF Throws

\* When every file was read, the files kept are the winners.
LEMMA KeptAreWinners ==
  ASSUME TypeOK, Batch, DOMAIN asRead = listed
  PROVE  {records[i].file : i \in Positions(records)} = Winners
<1>1. listed \ todo = listed /\ \A f \in listed : f \in Nat /\ asRead[f] \in Contents
  BY NFilesAssumption DEF TypeOK, Files
<1>2. ASSUME NEW i \in Positions(records)
      PROVE  records[i].file \in Winners
  <2> DEFINE f == records[i].file
  <2>1. /\ f \in listed /\ Readable(asRead[f])
        /\ records[i].rec = ParseRecord(asRead[f].rec)
    BY <1>1 DEF Batch, KeptFromFiles
  <2>2. records[i].rec.id = asRead[f].rec.id
    BY <1>1, <2>1, ReadableIsAccepted
  <2> HIDE DEF f
  <2>3. ASSUME NEW g \in listed, g < f, Readable(asRead[g]),
               asRead[g].rec.id = asRead[f].rec.id
        PROVE  FALSE
    <3>1. PICK j \in Positions(records) :
            records[j].rec.id = asRead[g].rec.id /\ records[j].file <= g
      BY <1>1, <2>3 DEF Batch, NoneForgotten
    <3>2. j # i
      <4>1. records[j].file \in listed
        BY <1>1 DEF Batch, KeptFromFiles
      <4>2. g \in Nat /\ f \in Nat /\ records[j].file \in Nat
        BY <1>1, <2>1, <4>1
      <4>3. records[j].file # f
        BY <2>3, <3>1, <4>2
      <4> QED
        BY <4>3 DEF f
    <3> QED
      BY <2>2, <2>3, <3>1, <3>2 DEF Batch, IdsDistinct
  <2> QED
    BY <2>1, <2>3 DEF Winners, f
<1>3. ASSUME NEW f \in Winners
      PROVE  \E i \in Positions(records) : records[i].file = f
  <2>1. f \in listed /\ Readable(asRead[f])
    BY DEF Winners
  <2>2. PICK i \in Positions(records) :
          records[i].rec.id = asRead[f].rec.id /\ records[i].file <= f
    BY <1>1, <2>1 DEF Batch, NoneForgotten
  <2>3. /\ records[i].file \in listed /\ Readable(asRead[records[i].file])
        /\ records[i].rec = ParseRecord(asRead[records[i].file].rec)
    BY <1>1 DEF Batch, KeptFromFiles
  <2>4. asRead[records[i].file].rec.id = asRead[f].rec.id
    BY <1>1, <2>2, <2>3, ReadableIsAccepted
  <2>5. ~ (records[i].file < f)
    BY <2>3, <2>4 DEF Winners
  <2>6. records[i].file \in Nat /\ f \in Nat
    BY <1>1, <2>1, <2>3
  <2> QED
    BY <2>2, <2>5, <2>6
<1> QED
  BY <1>2, <1>3

LEMMA BatchIsRight ==
  ASSUME TypeOK, Fresh, Batch, pc = "idle", DOMAIN asRead = listed,
         NEW b \in {asRead[f].rec.bundle : f \in Winners}
  PROVE  /\ Match(b).file = FirstOf({f \in Winners : asRead[f].rec.bundle = b})
         /\ Match(b).rec = ParseRecord(asRead[Match(b).file].rec)
<1> DEFINE F == {f \in Winners : asRead[f].rec.bundle = b}
           P == {i \in Positions(records) : records[i].rec.bundle = b}
           k == FirstOf(P)
<1>1. listed \ todo = listed /\ \A f \in listed : f \in Nat /\ asRead[f] \in Contents
  BY NFilesAssumption DEF TypeOK, Files
<1>2. \A i \in Positions(records) :
        /\ records[i].file \in Winners
        /\ records[i].rec = ParseRecord(asRead[records[i].file].rec)
        /\ records[i].rec.bundle = asRead[records[i].file].rec.bundle
  BY <1>1, KeptAreWinners, ReadableIsAccepted DEF Batch, KeptFromFiles
<1>3. \A f \in F : \E i \in P : records[i].file = f
  BY <1>2, KeptAreWinners
<1>4. F # {} /\ P # {}
  BY <1>3
<1>5. P \in SUBSET Nat
  BY DEF TypeOK, Positions
<1>6. k \in P /\ \A i \in P : k <= i
  BY <1>4, <1>5, FirstOfProperties, Zenon
<1>7. LookupByBundleId(b) = P
  <2>1. bundleIndex = BuiltBundleIndex(records)
    BY DEF Fresh
  <2>2. b \in RecordBundles(records)
    BY <1>4 DEF RecordBundles
  <2> QED
    BY <2>1, <2>2 DEF LookupByBundleId, BuiltBundleIndex
<1>8. Match(b) = records[k]
  BY <1>7 DEF Match
<1> HIDE DEF k
<1>9. records[k].file \in F
  BY <1>2, <1>6
<1>10. ASSUME NEW f \in F PROVE records[k].file <= f
  <2>1. PICK i \in P : records[i].file = f
    BY <1>3
  <2>2. k \in Nat /\ i \in Nat /\ k <= i
    BY <1>5, <1>6
  <2>3. records[k].file \in Nat /\ f \in Nat
    BY <1>1, <1>9 DEF Winners
  <2>4. k < i => records[k].file < records[i].file
    BY <1>6 DEF Batch, KeptInOrder
  <2> QED
    BY <2>1, <2>2, <2>3, <2>4
<1>11. F \in SUBSET Nat
  BY <1>1 DEF Winners
<1>12. FirstOf(F) = records[k].file
  BY <1>9, <1>10, <1>11, FirstOfUnique
<1> QED
  BY <1>2, <1>6, <1>8, <1>12

\* For any directory and whatever is written into it meanwhile, the record that
\* decides a launch comes from the smallest valid file of the bundle, and a file
\* is refused only for its own faults or for a smaller file's identifier
\* (CompatDatabase::load_directory, orchestrate's matches[0]).
THEOREM FirstFileWinsAlways == Spec => []FirstFileWins
<1>1. Init => FirstLoad /\ Fresh
  BY DEF Init, FirstLoad, Fresh
<1>2. TypeOK /\ FirstLoad /\ [Next]_vars => FirstLoad'
  <2> SUFFICES ASSUME TypeOK, FirstLoad, [Next]_vars PROVE FirstLoad'
    OBVIOUS
  <2> USE DEF Batch, ReadInOrder, KeptFromFiles, KeptInOrder, IdsDistinct, NoneForgotten
  <2>1. CASE WriteFile
    BY <2>1 DEF WriteFile, FirstLoad, database
  <2>2. CASE LoadDirectory
    <3>1. calls \in Nat /\ calls' = calls + 1
      BY <2>2 DEF LoadDirectory, Call, TypeOK
    <3>2. CASE calls = 0
      <4>1. /\ Positions(records') = {} /\ RecordIds(records') = {}
            /\ listed' \ todo' = {} /\ seenIds' = {}
        BY <2>2, <3>2 DEF FirstLoad, LoadDirectory, database, Positions, RecordIds
      <4> QED
        BY <3>1, <3>2, <4>1 DEF FirstLoad
    <3> QED
      BY <3>1, <3>2 DEF FirstLoad
  <2>3. CASE LoadNext
    <3>1. calls' = calls /\ pc = "loading"
      BY <2>3 DEF LoadNext
    <3>2. calls = 1 /\ pc' # "aborted" => Batch'
      BY <2>3, <3>1, BatchStep DEF FirstLoad
    <3>3. calls # 0
      BY <3>1 DEF FirstLoad
    <3> QED
      BY <3>1, <3>2, <3>3 DEF FirstLoad
  <2>4. CASE LoadDirectoryReturns
    BY <2>4 DEF LoadDirectoryReturns, FirstLoad
  <2>5. CASE LoadFile
    <3>1. /\ calls \in Nat /\ calls' = calls + 1 /\ pc = "idle" /\ listed' = listed
          /\ pc' \in {"idle", "aborted"}
      BY <2>5 DEF LoadFile, Call, TypeOK
    <3> QED
      BY <3>1 DEF FirstLoad
  <2>6. CASE AddRecord
    <3>1. /\ calls \in Nat /\ calls' = calls + 1 /\ pc = "idle" /\ listed' = listed
          /\ pc' = pc
      BY <2>6 DEF AddRecord, Call, TypeOK
    <3> QED
      BY <3>1 DEF FirstLoad
  <2>7. CASE UNCHANGED vars
    BY <2>7 DEF vars, database, FirstLoad
  <2> QED
    BY <2>1, <2>2, <2>3, <2>4, <2>5, <2>6, <2>7 DEF Next
<1>3. TypeOK /\ FirstLoad /\ Fresh => FirstFileWins
  <2> SUFFICES ASSUME TypeOK, FirstLoad, Fresh,
                      pc = "idle", calls = 1, DOMAIN asRead = listed, listed # {}
               PROVE  /\ {records[i].file : i \in Positions(records)} = Winners
                      /\ \A b \in {asRead[f].rec.bundle : f \in Winners} :
                           /\ Match(b).file = FirstOf({f \in Winners : asRead[f].rec.bundle = b})
                           /\ Match(b).rec = ParseRecord(asRead[Match(b).file].rec)
    BY Zenon DEF FirstFileWins
  <2>1. Batch
    BY DEF FirstLoad
  <2> QED
    BY <2>1, KeptAreWinners, BatchIsRight
<1>4. Spec => []Fresh
  BY IndexIsFresh
<1> QED
  BY <1>1, <1>2, <1>3, <1>4, TypeCorrect, PTL DEF Spec

\* Records are only added, at the end.
LEMMA RecordsGrow ==
  ASSUME TypeOK, [Next]_vars
  PROVE  records' = records \/ \E e \in Entries : records' = Append(records, e)
<1>1. CASE LoadNext
  <2>1. PICK f \in NextFile :
          records' = records \/ (Readable(content[f]) /\ Keep(ParseRecord(content[f].rec), f))
    BY <1>1, Zenon DEF LoadNext
  <2>2. f \in Files /\ content[f] \in Contents
    BY <1>1, NextFileInTodo DEF LoadNext
  <2> QED
    BY <2>1, <2>2, ReadableIsAccepted DEF Keep, Entries
<1>2. CASE LoadFile
  <2>1. PICK f \in Files :
          records' = records \/ (Readable(content[f]) /\ Keep(ParseRecord(content[f].rec), f))
    BY <1>2, Zenon DEF LoadFile, database
  <2>2. content[f] \in Contents
    BY DEF TypeOK
  <2> QED
    BY <2>1, <2>2, ReadableIsAccepted DEF Keep, Entries
<1>3. CASE AddRecord
  <2>1. PICK c \in Contents :
          /\ c.kind = "record"
          /\ records' = records \/ (ValidateFull(ParseRecord(c.rec)) /\ Keep(ParseRecord(c.rec), 0))
    BY <1>3, Zenon DEF AddRecord
  <2> QED
    BY <2>1 DEF Keep, Entries, Accepted
<1>4. CASE WriteFile \/ LoadDirectory \/ LoadDirectoryReturns \/ UNCHANGED vars
  BY <1>4 DEF WriteFile, LoadDirectory, LoadDirectoryReturns, vars, database
<1> QED
  BY <1>1, <1>2, <1>3, <1>4 DEF Next

-------------------------------------------------------------------------------
\* No file is lost

ElementsOf(s) == {s[i] : i \in Positions(s)}

ErrorFiles == ElementsOf(loadErrors)

\* Every file that was read is among the records or among the errors.
NoneLost ==
  /\ pc = "idle" => todo = {}
  /\ pc # "aborted" =>
       \A f \in listed \ todo :
         (\E i \in Positions(records) : records[i].file = f) \/ f \in ErrorFiles

\* In the first load_directory each file read counts once.
CountedOnce ==
  /\ ErrorFiles \subseteq listed \ todo
  /\ invalidCount = Cardinality(ErrorFiles)
  /\ validCount + invalidCount = Cardinality(listed \ todo)

FirstCount ==
  /\ calls = 0 => /\ loadErrors = <<>> /\ validCount = 0 /\ invalidCount = 0
                  /\ listed = {} /\ pc = "idle"
  /\ calls = 1 /\ pc # "aborted" /\ (listed # {} \/ pc = "loading") => CountedOnce

LEMMA AppendError ==
  ASSUME NEW s \in Seq(Files), NEW f \in Files, NEW t, t = Append(s, f)
  PROVE  ElementsOf(t) = ElementsOf(s) \cup {f}
<1>1. /\ Len(s) \in Nat /\ Len(t) = Len(s) + 1
      /\ \A i \in 1..Len(s) : t[i] = s[i]
      /\ t[Len(s) + 1] = f
  OBVIOUS
<1>2. Positions(t) = Positions(s) \cup {Len(s) + 1}
  BY <1>1 DEF Positions
<1> QED
  BY <1>1, <1>2 DEF Positions, ElementsOf

LEMMA SomeFilesAreFinite ==
  ASSUME NEW S \in SUBSET Files
  PROVE  IsFiniteSet(S)
<1>1. 1 \in Int /\ NFiles \in Int
  BY NFilesAssumption
<1>2. IsFiniteSet(Files)
  BY <1>1, FS_Interval, Zenon DEF Files
<1> QED
  BY <1>2, FS_Subset, Zenon

\* A refusal and a record that is kept add one file to the errors or the records.
LEMMA CountedStep ==
  ASSUME TypeOK, NoneLost, LoadNext, pc' # "aborted"
  PROVE  /\ NoneLost'
         /\ CountedOnce => CountedOnce'
<1>1. PICK f \in NextFile :
        /\ todo' = todo \ {f}
        /\ Throws(f) \/ Refuses(f) \/ Keeps(f)
  BY Zenon DEF LoadNext, Throws, Refuses, Keeps
<1>2. /\ f \in todo /\ f \in listed /\ f \in Files /\ content[f] \in Contents
      /\ listed' = listed /\ pc = "loading"
      /\ listed' \ todo' = (listed \ todo) \cup {f} /\ f \notin listed \ todo
  BY <1>1, NextFileInTodo DEF LoadNext
<1>3. /\ Cardinality(listed' \ todo') = Cardinality(listed \ todo) + 1
      /\ Cardinality(listed \ todo) \in Nat
  <2>1. IsFiniteSet(listed \ todo)
    BY SomeFilesAreFinite DEF TypeOK
  <2> QED
    BY <1>2, <2>1, FS_AddElement, FS_CardinalityType, Zenon
<1>4. /\ loadErrors \in Seq(Files) /\ records \in Seq(Entries)
      /\ validCount \in Nat /\ invalidCount \in Nat
  BY DEF TypeOK
<1>5. CASE Refuses(f)
  <2>1. /\ records' = records /\ validCount' = validCount /\ pc' = pc
        /\ loadErrors' = Append(loadErrors, f) /\ invalidCount' = invalidCount + 1
    BY <1>5 DEF Refuses, Refuse
  <2>2. ErrorFiles' = ErrorFiles \cup {f}
    BY <1>2, <1>4, <2>1, AppendError DEF ErrorFiles
  <2>3. NoneLost'
    BY <1>2, <2>1, <2>2 DEF NoneLost
  <2>4. ASSUME CountedOnce PROVE CountedOnce'
    <3>1. f \notin ErrorFiles /\ IsFiniteSet(ErrorFiles)
      <4>1. ErrorFiles \in SUBSET Files
        BY <2>4 DEF CountedOnce, TypeOK
      <4> QED
        BY <1>2, <2>4, <4>1, SomeFilesAreFinite DEF CountedOnce
    <3>2. Cardinality(ErrorFiles \cup {f}) = Cardinality(ErrorFiles) + 1
      BY <3>1, FS_AddElement, Zenon
    <3> QED
      BY <1>2, <1>3, <1>4, <2>1, <2>2, <2>4, <3>2 DEF CountedOnce
  <2> QED
    BY <2>3, <2>4
<1>6. CASE Keeps(f)
  <2> DEFINE e == [rec |-> ParseRecord(content[f].rec), file |-> f]
             n == Len(records)
  <2>1. /\ records' = Append(records, e) /\ validCount' = validCount + 1 /\ pc' = pc
        /\ loadErrors' = loadErrors /\ invalidCount' = invalidCount
    BY <1>6 DEF Keeps, Keep
  <2>2. e \in Entries
    BY <1>2, <1>6, ReadableIsAccepted DEF Keeps, Entries
  <2>3. e.file = f
    OBVIOUS
  <2> HIDE DEF e
  <2>4. /\ n \in Nat /\ Positions(records') = 1..(n + 1) /\ Positions(records) = 1..n
        /\ \A i \in 1..n : records'[i] = records[i]
        /\ records'[n + 1] = e
    BY <1>4, <2>1, <2>2, AppendEntry DEF Positions
  <2>5. ErrorFiles' = ErrorFiles
    BY <2>1 DEF ErrorFiles
  <2>6. NoneLost'
    <3>1. ASSUME NEW g \in listed' \ todo'
          PROVE  (\E i \in 1..(n + 1) : records'[i].file = g) \/ g \in ErrorFiles
      <4>1. CASE g = f
        BY <2>3, <2>4, <4>1
      <4>2. CASE g \in listed \ todo
        BY <1>2, <2>4, <4>2 DEF NoneLost
      <4> QED
        BY <1>2, <4>1, <4>2
    <3> QED
      BY <1>2, <2>1, <2>4, <2>5, <3>1 DEF NoneLost
  <2>7. CountedOnce => CountedOnce'
    BY <1>2, <1>3, <1>4, <2>1, <2>5 DEF CountedOnce
  <2> QED
    BY <2>6, <2>7
<1> QED
  BY <1>1, <1>5, <1>6 DEF Throws

\* What was recorded and what was refused stays on record.
LEMMA NoneLostKept ==
  ASSUME TypeOK, NoneLost, LoadFile \/ AddRecord
  PROVE  NoneLost'
<1>1. /\ listed' = listed /\ todo' = todo /\ pc = "idle" /\ pc' \in {"idle", "aborted"}
      /\ records \in Seq(Entries) /\ loadErrors \in Seq(Files)
  BY DEF LoadFile, AddRecord, Call, TypeOK
<1>2. records' = records \/ \E e \in Entries : records' = Append(records, e)
  BY RecordsGrow DEF Next
<1>3. loadErrors' = loadErrors \/ \E f \in Files : loadErrors' = Append(loadErrors, f)
  BY DEF LoadFile, AddRecord, Refuse, database
<1>4. ErrorFiles \subseteq ErrorFiles'
  <2>1. CASE loadErrors' = loadErrors
    BY <2>1 DEF ErrorFiles
  <2>2. ASSUME NEW f \in Files, loadErrors' = Append(loadErrors, f)
        PROVE  ErrorFiles' = ErrorFiles \cup {f}
    BY <1>1, <2>2, AppendError DEF ErrorFiles
  <2> QED
    BY <1>3, <2>1, <2>2
<1>5. \A i \in Positions(records) : i \in Positions(records') /\ records'[i] = records[i]
  BY <1>1, <1>2, AppendEntry DEF Positions
<1> QED
  BY <1>1, <1>4, <1>5 DEF NoneLost

LEMMA NoneLostNext == TypeOK /\ NoneLost /\ FirstCount /\ [Next]_vars => NoneLost' /\ FirstCount'
<1> SUFFICES ASSUME TypeOK, NoneLost, FirstCount, [Next]_vars
             PROVE  NoneLost' /\ FirstCount'
  OBVIOUS
<1>1. CASE WriteFile
  BY <1>1 DEF WriteFile, NoneLost, FirstCount, CountedOnce, ErrorFiles, database
<1>2. CASE LoadDirectory
  <2>1. /\ calls \in Nat /\ calls' = calls + 1 /\ pc' = "loading"
        /\ listed' \ todo' = {} /\ UNCHANGED database
    BY <1>2 DEF LoadDirectory, Call, TypeOK
  <2>2. calls = 0 => CountedOnce'
    <3>1. Cardinality({}) = 0
      BY FS_EmptySet, Zenon
    <3>2. calls = 0 => ErrorFiles' = {} /\ validCount' = 0 /\ invalidCount' = 0
      BY <2>1 DEF FirstCount, ErrorFiles, ElementsOf, Positions, database
    <3> QED
      BY <2>1, <3>1, <3>2 DEF CountedOnce
  <2> QED
    BY <2>1, <2>2 DEF NoneLost, FirstCount
<1>3. CASE LoadNext
  <2>1. calls' = calls /\ pc = "loading" /\ calls # 0
    BY <1>3 DEF LoadNext, FirstCount
  <2>2. CASE pc' = "aborted"
    BY <2>1, <2>2 DEF NoneLost, FirstCount
  <2>3. CASE pc' # "aborted"
    BY <1>3, <2>1, <2>3, CountedStep DEF FirstCount
  <2> QED
    BY <2>2, <2>3
<1>4. CASE LoadDirectoryReturns
  BY <1>4 DEF LoadDirectoryReturns, NoneLost, FirstCount, CountedOnce, ErrorFiles
<1>5. CASE LoadFile \/ AddRecord
  <2>1. /\ calls \in Nat /\ calls' = calls + 1 /\ pc = "idle" /\ listed' = listed
        /\ pc' \in {"idle", "aborted"}
    BY <1>5 DEF LoadFile, AddRecord, Call, TypeOK
  <2> QED
    BY <1>5, <2>1, NoneLostKept DEF FirstCount
<1>6. CASE UNCHANGED vars
  BY <1>6 DEF vars, database, NoneLost, FirstCount, CountedOnce, ErrorFiles
<1> QED
  BY <1>1, <1>2, <1>3, <1>4, <1>5, <1>6 DEF Next

\* For any directories, contents and writes: whatever was read is a record or an
\* error, after any number of calls; and after one load the counters are the
\* numbers of files that were kept and refused (load_directory, load_errors).
THEOREM RejectsAreReportedAlways == Spec => []RejectsAreReported
<1>1. Init => NoneLost /\ FirstCount
  BY DEF Init, NoneLost, FirstCount
<1>2. TypeOK /\ NoneLost /\ FirstCount => RejectsAreReported
  <2> SUFFICES ASSUME TypeOK, NoneLost, FirstCount PROVE RejectsAreReported
    OBVIOUS
  <2>1. ASSUME pc = "idle", NEW f \in listed
        PROVE  \/ \E i \in Positions(records) : records[i].file = f
               \/ \E i \in Positions(loadErrors) : loadErrors[i] = f
    BY <2>1 DEF NoneLost, ErrorFiles, ElementsOf
  <2>2. calls = 1 /\ listed # {} /\ pc # "aborted" => CountedOnce
    BY DEF FirstCount
  <2> QED
    BY <2>1, <2>2 DEF RejectsAreReported, CountedOnce, ErrorFiles, ElementsOf
<1> QED
  BY <1>1, <1>2, NoneLostNext, TypeCorrect, PTL DEF Spec
-------------------------------------------------------------------------------
\* A verdict is final

\* n is the position of the first record of a bundle.
FirstIn(n, b, s) ==
  /\ n \in Positions(s) /\ s[n].rec.bundle = b
  /\ \A i \in Positions(s) : s[i].rec.bundle = b => n <= i

\* The index points to the first record of each bundle that it knows, while files
\* are being loaded as well, when it lags behind the records.
FirstStands ==
  \A b \in DOMAIN bundleIndex : FirstIn(FirstOf(bundleIndex[b]), b, records)

LEMMA FirstInAppend ==
  ASSUME NEW s \in Seq(Entries), NEW e \in Entries, NEW n, NEW b, FirstIn(n, b, s)
  PROVE  FirstIn(n, b, Append(s, e)) /\ Append(s, e)[n] = s[n]
<1>1. n \in 1..Len(s) /\ Len(s) \in Nat /\ Len(Append(s, e)) = Len(s) + 1
  BY AppendEntry DEF FirstIn, Positions
<1>2. \A i \in 1..Len(s) : Append(s, e)[i] = s[i]
  BY AppendEntry
<1>3. ASSUME NEW i \in 1..(Len(s) + 1), Append(s, e)[i].rec.bundle = b
      PROVE  n <= i
  <2>1. CASE i \in 1..Len(s)
    BY <1>2, <1>3, <2>1 DEF FirstIn, Positions
  <2>2. CASE i = Len(s) + 1
    BY <1>1, <2>2
  <2> QED
    BY <1>1, <2>1, <2>2
<1> QED
  BY <1>1, <1>2, <1>3 DEF FirstIn, Positions

LEMMA FirstInUnique ==
  ASSUME NEW s \in Seq(Entries), NEW n, NEW m, NEW b,
         FirstIn(n, b, s), FirstIn(m, b, s)
  PROVE  n = m
<1>1. n \in Nat /\ m \in Nat /\ n <= m /\ m <= n
  BY DEF FirstIn, Positions
<1> QED
  BY <1>1

\* An index that was rebuilt points to the first records.
LEMMA BuiltFirst ==
  ASSUME NEW s \in Seq(Entries), NEW b \in DOMAIN BuiltBundleIndex(s)
  PROVE  FirstIn(FirstOf(BuiltBundleIndex(s)[b]), b, s)
<1> DEFINE P == {i \in Positions(s) : s[i].rec.bundle = b}
<1>1. BuiltBundleIndex(s)[b] = P /\ P # {} /\ P \in SUBSET Nat
  BY DEF BuiltBundleIndex, RecordBundles, Positions
<1>2. FirstOf(P) \in P /\ \A i \in P : FirstOf(P) <= i
  BY <1>1, FirstOfProperties, Zenon
<1> QED
  BY <1>1, <1>2 DEF FirstIn

\* The index is left alone or rebuilt from all records.
LEMMA IndexIsKeptOrBuilt ==
  ASSUME [Next]_vars
  PROVE  \/ bundleIndex' = bundleIndex
         \/ bundleIndex' = BuiltBundleIndex(records')
BY DEF Next, WriteFile, LoadDirectory, LoadNext, LoadDirectoryReturns, LoadFile,
       AddRecord, RebuildIndices, vars, database

LEMMA FirstStandsNext ==
  ASSUME TypeOK, FirstStands, [Next]_vars
  PROVE  /\ FirstStands'
         /\ \A b \in DOMAIN bundleIndex :
              b \in DOMAIN bundleIndex' /\ Match(b)' = Match(b)
<1>1. records \in Seq(Entries) /\ records' \in Seq(Entries)
  BY RecordsGrow, AppendEntry DEF TypeOK
<1>2. ASSUME NEW n, NEW b, FirstIn(n, b, records)
      PROVE  FirstIn(n, b, records') /\ records'[n] = records[n]
  <2>1. CASE records' = records
    BY <1>2, <2>1
  <2>2. ASSUME NEW e \in Entries, records' = Append(records, e)
        PROVE  FirstIn(n, b, records') /\ records'[n] = records[n]
    BY <1>1, <1>2, <2>2, FirstInAppend
  <2> QED
    BY <2>1, <2>2, RecordsGrow
<1>3. ASSUME NEW b \in DOMAIN bundleIndex
      PROVE  b \in DOMAIN bundleIndex' /\ FirstOf(bundleIndex'[b]) = FirstOf(bundleIndex[b])
  <2> DEFINE n == FirstOf(bundleIndex[b])
  <2>1. FirstIn(n, b, records')
    BY <1>2, <1>3 DEF FirstStands
  <2>2. CASE bundleIndex' = BuiltBundleIndex(records')
    <3>1. b \in DOMAIN BuiltBundleIndex(records')
      BY <2>1 DEF FirstIn, BuiltBundleIndex, RecordBundles
    <3>2. FirstIn(FirstOf(BuiltBundleIndex(records')[b]), b, records')
      BY <1>1, <3>1, BuiltFirst
    <3> QED
      BY <1>1, <2>1, <2>2, <3>1, <3>2, FirstInUnique
  <2> QED
    BY <2>2, IndexIsKeptOrBuilt
<1>4. FirstStands'
  <2>1. CASE bundleIndex' = bundleIndex
    BY <1>2, <2>1 DEF FirstStands
  <2>2. CASE bundleIndex' = BuiltBundleIndex(records')
    BY <1>1, <2>2, BuiltFirst DEF FirstStands
  <2> QED
    BY <2>1, <2>2, IndexIsKeptOrBuilt
<1>5. ASSUME NEW b \in DOMAIN bundleIndex
      PROVE  Match(b)' = Match(b)
  <2>1. records'[FirstOf(bundleIndex[b])] = records[FirstOf(bundleIndex[b])]
    BY <1>2, <1>5 DEF FirstStands
  <2> QED
    BY <1>3, <1>5, <2>1 DEF Match, LookupByBundleId
<1> QED
  BY <1>3, <1>4, <1>5

\* For any sequence of calls and whatever the files hold, the record that decides
\* the launch of a bundle is never replaced once it is known, in the middle of a
\* load_directory as well (lookup_by_bundle_id, rebuild_indices).
THEOREM VerdictIsFinalAlways == Spec => VerdictIsFinal
<1>1. Init => FirstStands
  <2>1. ASSUME Init PROVE DOMAIN bundleIndex = {}
    BY <2>1 DEF Init, BuiltBundleIndex, RecordBundles, Positions
  <2> QED
    BY <2>1 DEF FirstStands
<1>2. TypeOK /\ FirstStands /\ [Next]_vars => FirstStands'
  BY FirstStandsNext
<1>3. TypeOK /\ FirstStands /\ [Next]_vars =>
        [\A b \in DOMAIN bundleIndex :
           b \in DOMAIN bundleIndex' /\ Match(b)' = Match(b)]_vars
  BY FirstStandsNext
<1> QED
  BY <1>1, <1>2, <1>3, TypeCorrect, PTL DEF Spec, VerdictIsFinal
===============================================================================
