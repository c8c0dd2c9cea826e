----------------------------- MODULE CompatDatabase ----------------------------
(***************************************************************************)
(* The compatibility database in memory (compat-db/src/database.cpp, with  *)
(* its validator): the records, the indices over them, and the accounts    *)
(* of what was refused.  The first record it finds for a bundle identifier *)
(* decides how, and whether, the application is launched.                  *)
(*                                                                         *)
(* load_directory() is a step per file, because other processes may write  *)
(* the files meanwhile and because an exception may leave it half-way.     *)
(* The other operations are one step each; the queries change nothing and  *)
(* are operators.                                                          *)
(***************************************************************************)
EXTENDS Naturals, Sequences, FiniteSets

CONSTANTS
  NFiles,     \* the files are 1..NFiles, in the lexicographic order of names
  Contents,   \* what a file may hold
  MaxCalls,   \* bounds the calls of load_directory, load_file and add_record
  MaxWrites   \* bounds how often other processes write a file

Files == 1..NFiles

\* The texts of enum values, and the enums' values, which have the same names.
Tiers == {"native-substitution", "darling-compatible", "vm-recommended", "unsupported"}
States == {"verified", "functional", "partial", "degraded", "unsupported", "broken"}
Categories == {"none", "transparent", "shimmed", "functional", "cosmetic",
               "unsafe", "experimental", "hard_failure"}

\* A JSON document that is a record, as written.  NoText: the key is missing.
\* wellFormed stands for the other required fields and formats of
\* validate_record; shims for active_shims or degraded_capabilities;
\* policyOrdered for the rule about runtime_policy.
NoText == ""
Issues == [named : BOOLEAN, described : BOOLEAN, critical : BOOLEAN, resolved : BOOLEAN]

IsWritten(w) ==
  /\ DOMAIN w = {"id", "bundle", "tier", "state", "issues", "category", "shims",
                 "policyOrdered", "wellFormed"}
  /\ w.issues \subseteq Issues
  /\ w.shims \in BOOLEAN /\ w.policyOrdered \in BOOLEAN /\ w.wellFormed \in BOOLEAN

\* What else a file may be.  "type_error": JSON whose types parse_record does
\* not expect (a boolean field that holds something else).
Unreadable == [kind |-> "empty"]
NotJson == [kind |-> "bad_json"]
TypeError == [kind |-> "type_error"]

ASSUME NFilesAssumption == NFiles \in Nat
ASSUME MaxCallsAssumption == MaxCalls \in Nat
ASSUME MaxWritesAssumption == MaxWrites \in Nat
ASSUME ContentsAssumption ==
  \A c \in Contents : \/ c \in {Unreadable, NotJson, TypeError}
                      \/ c.kind = "record" /\ IsWritten(c.rec)

VARIABLES
  content,      \* the files
  writes,       \* writes so far
  records,      \* records_, each with its source file
  idIndex,      \* id_index_: the position of an identifier's record
  bundleIndex,  \* bundle_index_: the positions of a bundle's records, increasing
  validCount,
  invalidCount,
  loadErrors,   \* the files load_errors_ speaks of, once for every refusal
  calls,        \* calls so far
  pc,           \* "idle", "loading" (inside load_directory), "aborted"
  todo,         \* files of the directory load_directory has still to read
  seenIds,      \* seen_ids
  listed,       \* history: the files of the last load_directory
  asRead        \* history: what it found in them

database == <<records, idIndex, bundleIndex, validCount, invalidCount, loadErrors>>
vars == <<content, writes, database, calls, pc, todo, seenIds, listed, asRead>>

-------------------------------------------------------------------------------
\* From the file to the record

\* Any other text counts as the last value.
TierFromString(t) == IF t \in Tiers THEN t ELSE "unsupported"
StateFromString(s) == IF s \in States THEN s ELSE "broken"

\* An issue without an identifier is left out.
ParseRecord(w) ==
  [w EXCEPT !.tier = TierFromString(@),
            !.state = StateFromString(@),
            !.issues = {i \in @ : i.named}]

\* Only errors count; the validator's warnings refuse nothing.
SchemaValid(r) ==
  /\ r.wellFormed
  /\ r.id # NoText
  /\ r.bundle # NoText
  /\ r.tier \in Tiers
  /\ r.state \in States
  /\ \A i \in r.issues : i.named /\ i.described
  /\ r.category \in Categories \cup {NoText}

StateValid(r) ==
  /\ r.state = "verified" =>
       /\ \A i \in r.issues : i.critical => i.resolved
       /\ r.category # "unsafe"
  /\ r.category = "hard_failure" => r.state = "broken"
  /\ r.category = "transparent" => ~r.shims
  /\ r.policyOrdered

ValidateFull(r) == SchemaValid(r) /\ StateValid(r)

\* Seeded bug: the rules about the state of a record are not applied.
ReadableBySchema(c) == c.kind = "record" /\ SchemaValid(ParseRecord(c.rec))

Readable(c) == c.kind = "record" /\ ValidateFull(ParseRecord(c.rec))

-------------------------------------------------------------------------------
\* The indices and the queries

Positions(s) == 1..Len(s)

LastOf(S) == CHOOSE n \in S : \A m \in S : m <= n
FirstOf(S) == CHOOSE n \in S : \A m \in S : n <= m

RecordIds(s) == {s[i].rec.id : i \in Positions(s)}
RecordBundles(s) == {s[i].rec.bundle : i \in Positions(s)}

\* A later record of the same identifier replaces the earlier one.
BuiltIdIndex(s) ==
  [d \in RecordIds(s) |-> LastOf({i \in Positions(s) : s[i].rec.id = d})]

\* Seeded bug: a later record of the same bundle replaces the earlier ones.
LatestBundleIndex(s) ==
  [b \in RecordBundles(s) |-> {LastOf({i \in Positions(s) : s[i].rec.bundle = b})}]

BuiltBundleIndex(s) ==
  [b \in RecordBundles(s) |-> {i \in Positions(s) : s[i].rec.bundle = b}]

\* Seeded bug: the index by bundle is not rebuilt.
RebuildIdIndex == idIndex' = BuiltIdIndex(records') /\ UNCHANGED bundleIndex

RebuildIndices ==
  /\ idIndex' = BuiltIdIndex(records')
  /\ bundleIndex' = BuiltBundleIndex(records')

LookupById(d) ==
  IF d \in DOMAIN idIndex THEN {records[idIndex[d]]} ELSE {}

LookupByBundleId(b) ==
  IF b \in DOMAIN bundleIndex THEN bundleIndex[b] ELSE {}

\* matches[0], the record that orchestrate() and the adapter act on
Match(b) == records[FirstOf(LookupByBundleId(b))]

-------------------------------------------------------------------------------
NothingRead == [f \in {} |-> Unreadable]

Init ==
  /\ content \in [Files -> Contents]
  /\ writes = 0
  /\ records = <<>>
  /\ idIndex = BuiltIdIndex(<<>>) /\ bundleIndex = BuiltBundleIndex(<<>>)
  /\ validCount = 0 /\ invalidCount = 0
  /\ loadErrors = <<>>
  /\ calls = 0
  /\ pc = "idle"
  /\ todo = {} /\ seenIds = {}
  /\ listed = {} /\ asRead = NothingRead

\* Another process writes a file.
WriteFile ==
  /\ pc # "aborted"
  /\ writes < MaxWrites /\ writes' = writes + 1
  /\ \E f \in Files, c \in Contents : content' = [content EXCEPT ![f] = c]
  /\ UNCHANGED <<database, calls, pc, todo, seenIds, listed, asRead>>

Call == pc = "idle" /\ calls < MaxCalls /\ calls' = calls + 1

\* load_directory lists the *.json files of a directory, and sorts them.
LoadDirectory ==
  /\ Call
  /\ \E D \in SUBSET Files : todo' = D /\ listed' = D
  /\ pc' = "loading"
  /\ seenIds' = {}
  /\ asRead' = NothingRead
  /\ UNCHANGED <<content, writes, database>>

Keep(r, f) ==
  /\ records' = Append(records, [rec |-> r, file |-> f])
  /\ validCount' = validCount + 1

\* Seeded bug: a refusal is counted, without a message.
RefuseSilently(f) == invalidCount' = invalidCount + 1 /\ UNCHANGED loadErrors

Refuse(f) ==
  /\ invalidCount' = invalidCount + 1
  /\ loadErrors' = Append(loadErrors, f)

\* Seeded bug: the paths are not sorted.
AnyFile == todo

\* The file that the next round of the loop reads.
NextFile == {FirstOf(todo)}

\* One round of the loop.  No catch clause on the way to main() takes what
\* parse_record throws at a type error: the process ends.
LoadNext ==
  /\ pc = "loading" /\ todo # {}
  /\ \E f \in NextFile :
       LET c == content[f] IN
        /\ todo' = todo \ {f}
        /\ asRead' = [g \in DOMAIN asRead \cup {f} |-> IF g = f THEN c ELSE asRead[g]]
        /\ \/ /\ c = TypeError
              /\ pc' = "aborted"
              /\ UNCHANGED <<records, validCount, invalidCount, loadErrors, seenIds>>
           \/ /\ c # TypeError
              /\ ~(Readable(c) /\ ParseRecord(c.rec).id \notin seenIds)
              /\ Refuse(f)
              /\ UNCHANGED <<records, validCount, seenIds, pc>>
           \/ /\ Readable(c)
              /\ ParseRecord(c.rec).id \notin seenIds
              /\ Keep(ParseRecord(c.rec), f)
              /\ seenIds' = seenIds \cup {ParseRecord(c.rec).id}
              /\ UNCHANGED <<invalidCount, loadErrors, pc>>
  /\ UNCHANGED <<content, writes, idIndex, bundleIndex, calls, listed>>

\* The indices are rebuilt once, after the last file.
LoadDirectoryReturns ==
  /\ pc = "loading" /\ todo = {}
  /\ pc' = "idle"
  /\ UNCHANGED <<records, validCount, invalidCount, loadErrors>>
  /\ RebuildIndices
  /\ UNCHANGED <<content, writes, calls, todo, seenIds, listed, asRead>>

\* load_file does not look for duplicates, and counts a file that is not JSON
\* in load_errors_ only.
LoadFile ==
  /\ Call
  /\ \E f \in Files :
       LET c == content[f] IN
       \/ /\ c = TypeError
          /\ pc' = "aborted"
          /\ UNCHANGED database
       \/ /\ c \in {Unreadable, NotJson}
          /\ loadErrors' = Append(loadErrors, f)
          /\ UNCHANGED <<records, idIndex, bundleIndex, validCount, invalidCount, pc>>
       \/ /\ c.kind = "record" /\ ~Readable(c)
          /\ Refuse(f)
          /\ UNCHANGED <<records, idIndex, bundleIndex, validCount, pc>>
       \/ /\ Readable(c)
          /\ Keep(ParseRecord(c.rec), f)
          /\ RebuildIndices
          /\ UNCHANGED <<invalidCount, loadErrors, pc>>
  /\ UNCHANGED <<content, writes, todo, seenIds, listed, asRead>>

\* The caller gives a parsed record.  Its source file is the empty string,
\* here 0; a refusal leaves no message.
AddRecord ==
  /\ Call
  /\ \E c \in Contents :
       /\ c.kind = "record"
       /\ LET r == ParseRecord(c.rec) IN
          \/ /\ ValidateFull(r)
             /\ Keep(r, 0)
             /\ RebuildIndices
             /\ UNCHANGED <<invalidCount, loadErrors>>
          \/ /\ ~ValidateFull(r)
             /\ invalidCount' = invalidCount + 1
             /\ UNCHANGED <<records, idIndex, bundleIndex, validCount, loadErrors>>
  /\ UNCHANGED <<content, writes, pc, todo, seenIds, listed, asRead>>

Next ==
  \/ WriteFile
  \/ LoadDirectory
  \/ LoadNext
  \/ LoadDirectoryReturns
  \/ LoadFile
  \/ AddRecord

Spec == Init /\ [][Next]_vars

-------------------------------------------------------------------------------
\* Properties

\* The variables have their types, and every record kept passes the validator.
Accepted ==
  {r \in {ParseRecord(c.rec) : c \in {d \in Contents : d.kind = "record"}} :
     ValidateFull(r)}

Entries == [rec : Accepted, file : Files \cup {0}]

TypeOK ==
  /\ content \in [Files -> Contents]
  /\ records \in Seq(Entries)
  /\ validCount \in Nat /\ invalidCount \in Nat
  /\ loadErrors \in Seq(Files)
  /\ calls \in 0..MaxCalls /\ writes \in 0..MaxWrites
  /\ pc \in {"idle", "loading", "aborted"}
  /\ todo \subseteq listed /\ listed \subseteq Files
  /\ seenIds \subseteq RecordIds(records)
  /\ asRead \in [listed \ todo -> Contents]

\* Whenever a query can be asked, the indices answer what a scan of all records
\* would: every record is found under its bundle, and nothing else is; under
\* its identifier, the last one that came with it.
IndexAgrees ==
  pc = "idle" =>
    /\ \A i \in Positions(records) :
         /\ i \in LookupByBundleId(records[i].rec.bundle)
         /\ LookupById(records[i].rec.id) # {}
    /\ \A b \in DOMAIN bundleIndex : \A i \in bundleIndex[b] :
         i \in Positions(records) /\ records[i].rec.bundle = b
    /\ \A d \in DOMAIN idIndex :
         /\ idIndex[d] \in Positions(records)
         /\ \A i \in Positions(records) : records[i].rec.id = d => i <= idIndex[d]

\* Of the files of a directory, as they were when they were read, those that
\* are valid and share no identifier with a smaller valid one.
Winners ==
  {f \in listed :
     /\ Readable(asRead[f])
     /\ \A g \in listed :
          g < f /\ Readable(asRead[g]) => asRead[g].rec.id # asRead[f].rec.id}

\* A database that was loaded from one directory, as every program does it:
\* the record that decides a launch comes from the smallest valid file of that
\* bundle, whatever the order of the directory and whatever the other files
\* hold; a file is refused only for its own faults or for a smaller file's
\* identifier.
FirstFileWins ==
  pc = "idle" /\ calls = 1 /\ DOMAIN asRead = listed /\ listed # {} =>
    /\ {records[i].file : i \in Positions(records)} = Winners
    /\ \A b \in {asRead[f].rec.bundle : f \in Winners} :
         LET m == Match(b) IN
         /\ m.file = FirstOf({f \in Winners : asRead[f].rec.bundle = b})
         /\ m.rec = ParseRecord(asRead[m.file].rec)

\* No file of a loaded directory is lost: each is among the records or among the
\* errors, and with load_directory alone the count of invalid files, which
\* `compatctl load' turns into its exit code, is the number of files that the
\* errors name.
RejectsAreReported ==
  /\ pc = "idle" /\ listed # {} =>
       \A f \in listed :
         \/ \E i \in Positions(records) : records[i].file = f
         \/ \E i \in Positions(loadErrors) : loadErrors[i] = f
  /\ calls = 1 /\ listed # {} /\ pc # "aborted" =>
       /\ invalidCount = Cardinality({loadErrors[i] : i \in Positions(loadErrors)})
       /\ validCount + invalidCount = Cardinality(listed \ todo)

\* A verdict that a query may have returned stands: whatever is loaded or added
\* later, the record that decides the launch of the bundle is the same one, while
\* the answer for an identifier is replaced by a later record.
VerdictIsFinal ==
  [][\A b \in DOMAIN bundleIndex :
       b \in DOMAIN bundleIndex' /\ Match(b)' = Match(b)]_vars

===============================================================================
