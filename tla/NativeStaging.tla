----------------------------- MODULE NativeStaging -----------------------------
(***************************************************************************)
(* What a launch does to the native modules (.node files) of an Electron   *)
(* application before it forks it: ElectronAdapter::execute() from the     *)
(* extraction to the degradation report, and what is left on the disk for  *)
(* the next launch (platform/adapters/electron_adapter.cpp,                *)
(* platform/native/native_discovery.cpp).                                  *)
(*                                                                         *)
(* The application comes as an asar file (extracted into a new directory   *)
(* under /tmp for every launch, with links to what lies beside the asar),  *)
(* as a plain directory (used in place), or not at all (the current        *)
(* directory is used, and nothing is substituted).  Every module that is   *)
(* not recognised as ELF gets an entry in native_plan_: a Linux build to   *)
(* copy over it, or a stub, which means that its file is removed.  Then    *)
(* the directory is searched once more for Mach-O modules.  Neither search *)
(* enters a directory that is only linked.                                 *)
(*                                                                         *)
(* A process is one adapter; it may execute more than once (native_plan_   *)
(* and the degradation report live on), and processes follow each other on *)
(* the same bundle.  Meanwhile `macrun provision' may add a Linux build    *)
(* (module NativeCache says what can go wrong there).                      *)
(***************************************************************************)
EXTENDS Naturals, FiniteSets

CONSTANTS
  Modules,    \* the .node files of the application
  Modes,      \* the ways it may come: "asar", "dir", "none"
  MaxRuns     \* bounds the calls of execute()

ASSUME ModesAssumption == Modes \subseteq {"asar", "dir", "none"}
ASSUME MaxRunsAssumption == MaxRuns \in Nat

VARIABLES
  \* what does not change
  mode,        \* asar_path_: a file, a directory, empty
  shipped,     \* the format of each module as the vendor ships it
  place,       \* where each module lies, see Places
  policy,      \* what the native registry says about each module
  access,      \* who runs macRun, with respect to the bundle's files
  bypass,      \* MACRUN_ALLOW_DARWIN_NATIVE=1
  \* the disk
  file,        \* the files of each directory; the bundle, and 1.. under /tmp
  booted,      \* directories whose entry script was rewritten
  available,   \* modules with a Linux build in the cache (or a napi shim)
  \* the adapter
  pc,
  run,         \* calls of execute() so far
  plan,        \* native_plan_.entries
  todo,        \* entries stage_native_substitutions has not come to yet
  category,    \* degradation_category_
  events,      \* the capabilities named in degradation_events_
  bypassed,    \* native_module_bypass_active_
  before       \* history: the bundle's files when this process began

given == <<mode, shipped, place, policy, access, bypass>>
disk == <<file, booted, available>>
report == <<category, events, bypassed>>
vars == <<given, disk, report, pc, run, plan, todo, before>>

-------------------------------------------------------------------------------
\* Files and their first four bytes

Formats == {"elf", "macho", "other"}

\* staged: a Linux build copied from the cache, mode 0444.  link: a symbolic
\* link to the file of that name in the bundle.
FileStates == Formats \cup {"staged", "absent", "link"}

\* Mach-O of 64 bits, of this machine's byte order, stands for the other
\* Mach-O formats; "other" for what has neither magic, an empty file too.
FirstBytes(f) ==
  CASE f \in {"elf", "staged"} -> <<127, 69, 76, 70>>
    [] f = "macho" -> <<207, 250, 237, 254>>
    [] OTHER -> <<0, 0, 0, 0>>

\* file.read() into a uint32_t on a little-endian machine.  A word is written
\* as its bytes, the most significant first, as its hexadecimal digits are.
Magic(f) ==
  LET b == FirstBytes(f) IN <<b[4], b[3], b[2], b[1]>>

ElfMagic == <<127, 69, 76, 70>>    \* 0x7F454C46

\* Seeded bug: the 64-bit formats are forgotten.
MachOMagics32 ==
  { <<254, 237, 250, 206>>, <<206, 250, 237, 254>>, <<202, 254, 186, 190>>,
    <<190, 186, 254, 202>> }

\* 0xFEEDFACE, 0xFEEDFACF, 0xCEFAEDFE, 0xCFFAEDFE, 0xCAFEBABE, 0xBEBAFECA
MachOMagics ==
  { <<254, 237, 250, 206>>, <<254, 237, 250, 207>>, <<206, 250, 237, 254>>,
    <<207, 250, 237, 254>>, <<202, 254, 186, 190>>, <<190, 186, 254, 202>> }

\* Within the application; a file beside app.asar, which the extraction links; or
\* behind a link to a directory, as all that lies in a directory beside app.asar is
\* after the extraction, and what an application directory links itself.
Places == {"inside", "beside", "linked"}

\* recursive_directory_iterator does not follow a link to a directory.
Searched == {m \in Modules : place[m] # "linked"}

\* 1..MaxRuns: what the n-th call of execute() extracts, /tmp/macrun-XXXXXX.
Bundle == 0
Trees == 0..MaxRuns

\* app_dir, the directory the application is launched from.
AppDir == IF mode = "asar" THEN run ELSE Bundle

\* What reading module m of tree t finds.
Read(t, m) == IF file[t][m] = "link" THEN file[Bundle][m] ELSE file[t][m]

InBundle(t, m) == t = Bundle \/ file[t][m] = "link"

\* A staged file is read-only for everybody but root.
CanOverwrite(t, m) ==
  \/ access = "root"
  \/ Read(t, m) # "staged" /\ (InBundle(t, m) => access = "owner")

CanRemove(t) == t # Bundle \/ access \in {"root", "owner"}

-------------------------------------------------------------------------------
\* record_degradation

Categories == {"transparent", "shimmed", "functional", "unsafe", "experimental"}

Severity ==
  [transparent |-> 0, shimmed |-> 1, functional |-> 2, unsafe |-> 3,
   experimental |-> 4]

Capabilities ==
  {"native_module_substitution", "native_module_compilation_failed",
   "shim-activation", "gpu-acceleration", "native-module-bypass",
   "experimental-mode"}

\* The category every caller gives with a capability.
CategoryOf(c) ==
  CASE c = "gpu-acceleration" -> "functional"
    [] c = "native-module-bypass" -> "unsafe"
    [] c = "experimental-mode" -> "experimental"
    [] OTHER -> "shimmed"

WorstOf(S) == CHOOSE c \in S : \A d \in S : Severity[d] <= Severity[c]

\* Seeded bug: the last record decides the category.
RecordLast(caps) ==
  /\ events' = events \cup caps
  /\ category' = IF caps = {} THEN category
                 ELSE WorstOf({CategoryOf(c) : c \in caps})

\* Records all of caps.
Record(caps) ==
  /\ events' = events \cup caps
  /\ category' = WorstOf({category} \cup {CategoryOf(c) : c \in caps})

-------------------------------------------------------------------------------
Policies == {"stub", "replace", "unknown"}

Actions == {"STUB", "CACHED"}

Entry == [mod : Modules, tree : Trees, run : 1..MaxRuns, act : Actions]

Init ==
  /\ mode \in Modes
  /\ shipped \in [Modules -> Formats]
  /\ place \in [Modules -> IF mode = "asar" THEN Places ELSE Places \ {"beside"}]
  /\ policy \in [Modules -> Policies]
  /\ access \in {"root", "owner", "other"}
  /\ bypass \in BOOLEAN
  /\ file = [t \in Trees |-> IF t = Bundle THEN shipped
                                           ELSE [m \in Modules |-> "absent"]]
  /\ booted = {}
  /\ available = {}
  /\ pc = "idle"
  /\ run = 0
  /\ plan = {}
  /\ todo = {}
  /\ category = "transparent"
  /\ events = {}
  /\ bypassed = FALSE
  /\ before = shipped

-------------------------------------------------------------------------------
\* execute(), until the modules are looked at

\* Seeded bug: the extraction links every file instead of copying it.
ExtractedAsLinks == [m \in Modules |-> "link"]

\* extract_asar(): copies of the asar's files, links to the files and directories
\* beside it.
Extracted ==
  [m \in Modules |->
     IF place[m] # "inside" /\ file[Bundle][m] # "absent" THEN "link"
                                                          ELSE file[Bundle][m]]

\* The boot shim is written and the entry script rewritten, unless the files
\* cannot be written or there is no entry script: that is only logged.
Boots ==
  booted' \in IF mode = "none" \/ (mode = "dir" /\ access = "other")
                THEN {booted}
                ELSE {booted, booted \cup {IF mode = "dir" THEN Bundle ELSE run'}}

\* Without an application path nothing is scanned and nothing substituted.
BeginExecute ==
  /\ pc \in {"idle", "launched"}
  /\ run < MaxRuns
  /\ run' = run + 1
  /\ file' = IF mode = "asar" THEN [file EXCEPT ![run + 1] = Extracted] ELSE file
  /\ Boots
  /\ pc' = IF mode = "none" THEN "detect" ELSE "scan"
  /\ UNCHANGED <<given, available, report, plan, todo, before>>

\* No runtime, or the extraction fails.
ExecuteFails ==
  /\ pc \in {"idle", "launched"}
  /\ run < MaxRuns
  /\ run' = run + 1
  /\ pc' = "failed"
  /\ UNCHANGED <<given, disk, report, plan, todo, before>>

-------------------------------------------------------------------------------
\* scan_and_plan_native_modules, and what execute() does with its result

\* scan_native_modules, less the modules recognised as ELF.
Scanned ==
  {m \in Searched : Read(AppDir, m) # "absent" /\ Magic(Read(AppDir, m)) # ElfMagic}

Decision(m) ==
  CASE policy[m] = "replace" /\ m \in available -> "CACHED"
    [] policy[m] = "replace" /\ m \notin available -> "PROVISION_NEEDED"
    [] OTHER -> "STUB"

\* Modules with nothing in the cache are stubbed after all.
NewEntries ==
  {[mod |-> m, tree |-> AppDir, run |-> run,
    act |-> IF Decision(m) = "PROVISION_NEEDED" THEN "STUB" ELSE Decision(m)] :
     m \in Scanned}

\* Seeded bug: a substitution that goes as planned is not reported.
PlanReportsMissing(entries) ==
  IF \E m \in Scanned : Decision(m) = "PROVISION_NEEDED"
    THEN {"native_module_compilation_failed"} ELSE {}

PlanReports(entries) ==
  (IF entries # {} THEN {"native_module_substitution"} ELSE {})
    \cup (IF \E m \in Scanned : Decision(m) = "PROVISION_NEEDED"
            THEN {"native_module_compilation_failed"} ELSE {})

\* The entries of earlier calls of execute() are still there and are staged
\* again, first.
Plan ==
  /\ pc = "scan"
  /\ plan' = plan \cup NewEntries
  /\ todo' = plan'
  /\ Record(PlanReports(plan'))
  /\ pc' = "stage"
  /\ UNCHANGED <<given, disk, run, bypassed, before>>

-------------------------------------------------------------------------------
\* stage_native_substitutions, one entry at a time

Turn(e) == e \in todo /\ \A d \in todo : e.run <= d.run

\* copy_file follows a link: it writes the bundle's file.
StageCached(e) ==
  /\ pc = "stage"
  /\ Turn(e)
  /\ e.act = "CACHED"
  /\ CanOverwrite(e.tree, e.mod)
  /\ LET t == IF InBundle(e.tree, e.mod) THEN Bundle ELSE e.tree
     IN  file' = [file EXCEPT ![t][e.mod] = "staged"]
  /\ todo' = todo \ {e}
  /\ UNCHANGED <<given, booted, available, report, pc, run, plan, before>>

\* The entries staged so far stay as they are.
StageFails(e) ==
  /\ pc = "stage"
  /\ Turn(e)
  /\ e.act = "CACHED"
  /\ ~CanOverwrite(e.tree, e.mod)
  /\ pc' = "failed"
  /\ todo' = {}
  /\ UNCHANGED <<given, disk, report, run, plan, before>>

\* Seeded bug: the loop ends with the first stub.
StageStubEnds(e) ==
  /\ pc = "stage"
  /\ Turn(e)
  /\ e.act = "STUB"
  /\ file' = [file EXCEPT ![e.tree][e.mod] = IF CanRemove(e.tree) THEN "absent" ELSE @]
  /\ todo' = {}
  /\ UNCHANGED <<given, booted, available, report, pc, run, plan, before>>

\* fs::remove removes the link, not what it names; that it fails goes unseen.
StageStub(e) ==
  /\ pc = "stage"
  /\ Turn(e)
  /\ e.act = "STUB"
  /\ file' = [file EXCEPT ![e.tree][e.mod] = IF CanRemove(e.tree) THEN "absent" ELSE @]
  /\ todo' = todo \ {e}
  /\ UNCHANGED <<given, booted, available, report, pc, run, plan, before>>

StageDone ==
  /\ pc = "stage"
  /\ todo = {}
  /\ pc' = "detect"
  /\ UNCHANGED <<given, disk, report, run, plan, todo, before>>

-------------------------------------------------------------------------------
\* detect_native_modules

Blocked == {m \in Searched : Magic(Read(AppDir, m)) \in MachOMagics}

DetectClean ==
  /\ pc = "detect"
  /\ Blocked = {}
  /\ pc' = "report"
  /\ UNCHANGED <<given, disk, report, run, plan, todo, before>>

DetectBypass ==
  /\ pc = "detect"
  /\ Blocked # {}
  /\ bypass
  /\ bypassed' = TRUE
  /\ Record({"native-module-bypass"})
  /\ pc' = "report"
  /\ UNCHANGED <<given, disk, run, plan, todo, before>>

DetectBlocked ==
  /\ pc = "detect"
  /\ Blocked # {}
  /\ ~bypass
  /\ pc' = "failed"
  /\ UNCHANGED <<given, disk, report, run, plan, todo, before>>

-------------------------------------------------------------------------------
\* The rest of execute(): the report, and fork().  Shims are reported only if
\* nothing was before them.
LaunchReports(shims, gpu, experimental) ==
  (IF shims /\ category = "transparent" THEN {"shim-activation"} ELSE {})
    \cup (IF gpu THEN {"gpu-acceleration"} ELSE {})
    \cup (IF bypassed THEN {"native-module-bypass"} ELSE {})
    \cup (IF experimental THEN {"experimental-mode"} ELSE {})

Launch ==
  /\ pc = "report"
  /\ \E shims, gpu, experimental \in BOOLEAN :
       Record(LaunchReports(shims, gpu, experimental))
  /\ pc' \in {"launched", "failed"}
  /\ UNCHANGED <<given, disk, run, plan, todo, bypassed, before>>

\* The process ends or dies, wherever it is, and another one begins: what is
\* on the disk stays.
NewProcess ==
  /\ run < MaxRuns
  /\ pc' = "idle"
  /\ plan' = {}
  /\ todo' = {}
  /\ category' = "transparent"
  /\ events' = {}
  /\ bypassed' = FALSE
  /\ before' = file[Bundle]
  /\ UNCHANGED <<given, disk, run>>

\* Somebody else: `macrun provision' caches a build of m.
Provision(m) ==
  /\ policy[m] = "replace"
  /\ m \notin available
  /\ available' = available \cup {m}
  /\ UNCHANGED <<given, file, booted, report, pc, run, plan, todo, before>>

Next ==
  \/ BeginExecute
  \/ ExecuteFails
  \/ Plan
  \/ \E e \in todo : StageCached(e) \/ StageFails(e) \/ StageStub(e)
  \/ StageDone
  \/ DetectClean
  \/ DetectBypass
  \/ DetectBlocked
  \/ Launch
  \/ NewProcess
  \/ \E m \in Modules : Provision(m)

Spec == Init /\ [][Next]_vars

-------------------------------------------------------------------------------
\* Properties

TypeOK ==
  /\ mode \in Modes
  /\ shipped \in [Modules -> Formats]
  /\ place \in [Modules -> Places]
  /\ policy \in [Modules -> Policies]
  /\ access \in {"root", "owner", "other"}
  /\ bypass \in BOOLEAN
  /\ file \in [Trees -> [Modules -> FileStates]]
  /\ booted \subseteq Trees
  /\ available \subseteq Modules
  /\ pc \in {"idle", "scan", "stage", "detect", "report", "launched", "failed"}
  /\ run \in 0..MaxRuns
  /\ plan \subseteq Entry
  /\ todo \subseteq plan
  /\ category \in Categories
  /\ events \subseteq Capabilities
  /\ bypassed \in BOOLEAN
  /\ before \in [Modules -> FileStates]

\* Unless the user asked for the bypass, no application is forked with a Mach-O
\* module where the second search looks: whatever the registry says, whatever could
\* not be removed, and whatever a process that died half way left there.  Of the
\* modules behind a link to a directory it says nothing: the application is
\* launched with them, although electron_adapter.hpp:8 says "reject them explicitly".
LaunchedIsDarwinFree ==
  pc = "launched" /\ ~bypass => \A m \in Searched : Read(AppDir, m) # "macho"

\* A launch that went on although the second search found a Mach-O module is
\* reported as unsafe (or worse) as long as the adapter lives, whatever is recorded
\* after that.
UnsafeNeverHidden ==
  bypassed =>
    category \in {"unsafe", "experimental"} /\ "native-module-bypass" \in events

\* If the application is launched with other modules than this process found,
\* its report says that modules were substituted.
SubstitutionIsReported ==
  pc = "launched" /\ (\E m \in Modules : Read(AppDir, m) # before[m]) =>
    "native_module_substitution" \in events

\* At the launch every entry of the plan has been carried out, those of earlier
\* calls too: the Linux build is in place, or the stubbed file is gone if it
\* could be removed.
PlanCarriedOut ==
  pc = "launched" =>
    \A e \in plan :
      \/ e.act = "CACHED" /\ Read(e.tree, e.mod) = "staged"
      \/ e.act = "STUB" /\ (CanRemove(e.tree) => file[e.tree][e.mod] = "absent")

\* Launching an asar application leaves the bundle as it is, but for modules
\* that lie beside the asar: a Linux build may have been copied over those.
AsarKeepsBundle ==
  mode = "asar" =>
    /\ Bundle \notin booted
    /\ \A m \in Modules :
         \/ file[Bundle][m] = shipped[m]
         \/ file[Bundle][m] = "staged" /\ place[m] = "beside"

-------------------------------------------------------------------------------
\* What comments and documents of the repository say, and the code does not do

\* docs/guides/codex desktop/README.md:85, "staged automatically when
\* launching": a build that is in the cache gets staged if the user may write
\* to the application.
CachedGetsStaged ==
  [][\A e \in todo :
       e.act = "CACHED" /\ e.mod \in available /\ access # "other" =>
         pc' # "failed"]_vars
===============================================================================
