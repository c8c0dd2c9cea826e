-------------------------- MODULE NativeStaging_proofs --------------------------
(***************************************************************************)
(* Proofs about NativeStaging for any modules, any ways of shipping the    *)
(* application and any number of launches.                                 *)
(*                                                                         *)
(* That no Mach-O module is launched follows from the second search alone: *)
(* DarwinFree needs nothing from the plan.  The other invariants need to   *)
(* know what may be a link (Linked), that the plan names no module behind  *)
(* a linked directory (PlanIsSearched) and, of an asar application, never  *)
(* the bundle (PlanKeepsBundle), and that a process which has reported no  *)
(* substitution has planned none and still has the modules it found        *)
(* (Unreported).  That a plan was carried out needs the entries of all     *)
(* launches of a process, since the plan is never cleared (Carried): two   *)
(* that name one file agree, or the file cannot be removed.                *)
(***************************************************************************)
EXTENDS NativeStaging, TLAPS

\* Inside execute(), after the directory is ready.
Executing == pc \in {"scan", "stage", "detect", "report", "launched"}

\* Only what lies beside the asar, in a directory or not, is a link, and only in an
\* extracted tree.
Linked ==
  \A t \in Trees : \A m \in Modules :
    file[t][m] = "link" => t # Bundle /\ mode = "asar" /\ place[m] # "inside"

\* Nothing behind a link to a directory is planned.
PlanIsSearched == \A e \in plan : e.mod \in Searched

PlanKeepsBundle == mode = "asar" => \A e \in plan : e.tree # Bundle

DarwinFree ==
  pc \in {"report", "launched"} /\ ~bypass =>
    \A m \in Searched : Read(AppDir, m) # "macho"

Unreported ==
  "native_module_substitution" \notin events =>
    /\ plan = {}
    /\ \A m \in Modules : file[Bundle][m] = before[m]
    /\ Executing => \A m \in Modules : Read(AppDir, m) = before[m]

IInv ==
  /\ TypeOK
  /\ Executing => run \in 1..MaxRuns
  /\ Linked
  /\ PlanIsSearched
  /\ PlanKeepsBundle
  /\ DarwinFree
  /\ Unreported
  /\ UnsafeNeverHidden
  /\ AsarKeepsBundle

-------------------------------------------------------------------------------
\* Of any categories there is a worst one.
LEMMA WorstExists ==
  ASSUME NEW S \in SUBSET Categories, S # {}
  PROVE  /\ WorstOf(S) \in S
         /\ \A d \in S : Severity[d] <= Severity[WorstOf(S)]
<1>1. \E c \in S : \A d \in S : Severity[d] <= Severity[c]
  <2>1. /\ Severity["transparent"] = 0
        /\ Severity["shimmed"] = 1
        /\ Severity["functional"] = 2
        /\ Severity["unsafe"] = 3
        /\ Severity["experimental"] = 4
    BY DEF Severity
  <2>2. \A d \in S : d \in Categories
    OBVIOUS
  <2>3. CASE "experimental" \in S
    BY <2>1, <2>2, <2>3 DEF Categories
  <2>4. CASE "unsafe" \in S /\ "experimental" \notin S
    BY <2>1, <2>2, <2>4 DEF Categories
  <2>5. CASE /\ "functional" \in S
             /\ S \cap {"unsafe", "experimental"} = {}
    BY <2>1, <2>2, <2>5 DEF Categories
  <2>6. CASE S \subseteq {"transparent", "shimmed"} /\ "shimmed" \in S
    BY <2>1, <2>6
  <2>7. CASE S = {"transparent"}
    BY <2>1, <2>7
  <2>8. QED
    BY <2>2, <2>3, <2>4, <2>5, <2>6, <2>7 DEF Categories
<1>2. QED
  BY <1>1 DEF WorstOf

\* record_degradation keeps the category's type, forgets nothing, and what was
\* unsafe stays unsafe or becomes worse.
LEMMA RecordEffect ==
  ASSUME TypeOK, NEW caps \in SUBSET Capabilities, Record(caps)
  PROVE  /\ category' \in Categories
         /\ events' \subseteq Capabilities
         /\ events' = events \cup caps
         /\ category \in {"unsafe", "experimental"}
              => category' \in {"unsafe", "experimental"}
         /\ "native-module-bypass" \in caps
              => category' \in {"unsafe", "experimental"}
<1> DEFINE S == {category} \cup {CategoryOf(c) : c \in caps}
<1>1. \A c \in Capabilities : CategoryOf(c) \in Categories
  BY DEF CategoryOf, Categories
<1>2. S \in SUBSET Categories /\ S # {}
  BY <1>1 DEF TypeOK
<1>3. category' \in S /\ \A d \in S : Severity[d] <= Severity[category']
  BY <1>2, WorstExists DEF Record
<1>4. /\ events' = events \cup caps
      /\ events' \subseteq Capabilities
  BY DEF Record, TypeOK
<1>5. /\ category \in {"unsafe", "experimental"}
           => "unsafe" \in S \/ "experimental" \in S
      /\ "native-module-bypass" \in caps => "unsafe" \in S
  BY DEF CategoryOf
<1>6. ("unsafe" \in S \/ "experimental" \in S)
        => category' \in {"unsafe", "experimental"}
  <2>1. /\ Severity["transparent"] = 0
        /\ Severity["shimmed"] = 1
        /\ Severity["functional"] = 2
        /\ Severity["unsafe"] = 3
        /\ Severity["experimental"] = 4
    BY DEF Severity
  <2>2. category' \in Categories
    BY <1>2, <1>3
  <2>3. QED
    BY <1>3, <2>1, <2>2 DEF Categories
<1>7. QED
  BY <1>2, <1>3, <1>4, <1>5, <1>6

\* The second search recognises Mach-O.
LEMMA MachOIsBlocked == Magic("macho") \in MachOMagics
BY DEF Magic, FirstBytes, MachOMagics

-------------------------------------------------------------------------------
\* Facts about the two directories of a launch.
LEMMA AppDirType ==
  ASSUME TypeOK, Executing => run \in 1..MaxRuns
  PROVE  /\ Bundle \in Trees
         /\ Executing => AppDir \in Trees
         /\ mode = "asar" /\ Executing => AppDir # Bundle
         /\ mode # "asar" => AppDir = Bundle
BY MaxRunsAssumption DEF TypeOK, Trees, Bundle, AppDir

LEMMA InitIInv == Init => IInv
<1> SUFFICES ASSUME Init
             PROVE  IInv
  OBVIOUS
<1> USE MaxRunsAssumption
<1>1. Bundle \in Trees /\ run \in 0..MaxRuns
  BY DEF Init, Bundle, Trees
<1>2. place \in [Modules -> Places]
  BY DEF Init, Places
<1>3. /\ file \in [Trees -> [Modules -> FileStates]]
      /\ \A m \in Modules : file[Bundle][m] = shipped[m]
      /\ \A t \in Trees : \A m \in Modules : file[t][m] # "link"
  BY <1>1 DEF Init, FileStates, Formats
<1>4. TypeOK
  BY <1>1, <1>2, <1>3
  DEF Init, TypeOK, FileStates, Formats, Categories, Capabilities, Entry
<1>5. Linked /\ AsarKeepsBundle
  BY <1>3 DEF Linked, AsarKeepsBundle, Init
<1>6. /\ Executing => run \in 1..MaxRuns
      /\ PlanIsSearched /\ PlanKeepsBundle /\ DarwinFree /\ UnsafeNeverHidden
  BY DEF Init, Executing, PlanIsSearched, Searched, PlanKeepsBundle, DarwinFree,
         UnsafeNeverHidden
<1>7. Unreported
  BY <1>3 DEF Init, Unreported, Executing
<1>8. QED
  BY <1>4, <1>5, <1>6, <1>7 DEF IInv

\* execute() preparing its directory.
LEMMA BeginIInv ==
  ASSUME IInv, BeginExecute
  PROVE  IInv'
<1> USE MaxRunsAssumption
<1>1. /\ run' \in 1..MaxRuns /\ run' # Bundle /\ Bundle \in Trees
      /\ run' \in Trees
      /\ pc' \in {"detect", "scan"}
      /\ UNCHANGED <<mode, shipped, place, policy, access, bypass>>
      /\ UNCHANGED <<available, category, events, bypassed, plan, todo, before>>
  BY DEF IInv, TypeOK, BeginExecute, Trees, Bundle, given, report
<1>2. mode # "asar" => file' = file
  BY DEF BeginExecute
<1>3. Extracted \in [Modules -> FileStates]
      /\ \A m \in Modules :
           IF place[m] # "inside" /\ file[Bundle][m] # "absent"
             THEN Extracted[m] = "link"
             ELSE Extracted[m] = file[Bundle][m]
  BY <1>1 DEF IInv, TypeOK, Extracted, FileStates
<1>4. mode = "asar" =>
        /\ file'[run'] = Extracted
        /\ \A t \in Trees : t # run' => file'[t] = file[t]
  BY <1>1 DEF IInv, TypeOK, BeginExecute
<1>5. file' \in [Trees -> [Modules -> FileStates]]
  BY <1>2, <1>3 DEF IInv, TypeOK, BeginExecute
<1>6. booted' \subseteq Trees
  BY <1>1 DEF IInv, TypeOK, BeginExecute, Boots
<1>7. TypeOK'
  BY <1>1, <1>5, <1>6 DEF IInv, TypeOK, Trees
<1>8. Linked'
  <2>1. \A m \in Modules : file[Bundle][m] # "link"
    BY <1>1 DEF IInv, Linked
  <2>2. CASE mode # "asar"
    BY <1>1, <1>2, <2>2 DEF IInv, Linked
  <2>3. CASE mode = "asar"
    <3>1. \A m \in Modules :
            file'[run'][m] = "link" => place[m] # "inside"
      BY <1>3, <1>4, <2>1, <2>3
    <3>2. QED
      BY <1>1, <1>4, <2>3, <3>1 DEF IInv, Linked
  <2>4. QED
    BY <2>2, <2>3
<1>9. file'[Bundle] = file[Bundle]
  BY <1>1, <1>2, <1>4
<1>10. AsarKeepsBundle'
  BY <1>1, <1>9 DEF IInv, AsarKeepsBundle, BeginExecute, Boots
<1>11. \A m \in Modules : Read(AppDir, m)' = file[Bundle][m]
  <2>1. TAKE m \in Modules
  <2>2. CASE mode = "asar"
    <3>1. Read(AppDir, m)' = IF file'[run'][m] = "link" THEN file'[Bundle][m]
                                                       ELSE file'[run'][m]
      BY <1>1, <2>2 DEF Read, AppDir
    <3>2. QED
      BY <1>3, <1>4, <1>9, <2>2, <3>1
  <2>3. CASE mode # "asar"
    BY <1>1, <1>9, <2>3 DEF Read, AppDir
  <2>4. QED
    BY <2>2, <2>3
<1>12. Unreported'
  BY <1>1, <1>9, <1>11 DEF IInv, Unreported
<1>13. (Executing => run \in 1..MaxRuns)' /\ PlanIsSearched' /\ PlanKeepsBundle'
      /\ DarwinFree' /\ UnsafeNeverHidden'
  BY <1>1
  DEF IInv, PlanIsSearched, Searched, PlanKeepsBundle, DarwinFree,
      UnsafeNeverHidden
<1>14. QED
  BY <1>7, <1>8, <1>10, <1>12, <1>13 DEF IInv

\* The plan, and its report.
LEMMA PlanIInv ==
  ASSUME IInv, Plan
  PROVE  IInv'
<1>1. /\ pc = "scan" /\ pc' = "stage" /\ Executing /\ Executing'
      /\ plan' = plan \cup NewEntries
      /\ todo' = plan'
      /\ UNCHANGED <<mode, shipped, place, policy, access, bypass>>
      /\ UNCHANGED <<file, booted, available, run, bypassed, before>>
  BY DEF Plan, given, disk, Executing
<1>2. /\ AppDir \in Trees
      /\ mode = "asar" => AppDir # Bundle
      /\ run \in 1..MaxRuns
  BY <1>1, AppDirType DEF IInv
<1>3. \A e \in NewEntries : e \in Entry /\ e.tree = AppDir /\ e.mod \in Searched
  <2>1. \A m \in Modules :
          Decision(m) \in {"PROVISION_NEEDED", "CACHED", "STUB"}
    BY DEF Decision
  <2>2. QED
    BY <1>2, <2>1 DEF NewEntries, Entry, Actions, Scanned, Searched
<1>4. /\ PlanReports(plan') \in SUBSET Capabilities
      /\ plan' # {} => "native_module_substitution" \in PlanReports(plan')
  BY DEF PlanReports, Capabilities
<1>5. /\ category' \in Categories
      /\ events' \subseteq Capabilities
      /\ events' = events \cup PlanReports(plan')
      /\ category \in {"unsafe", "experimental"}
           => category' \in {"unsafe", "experimental"}
  <2>1. PICK caps \in SUBSET Capabilities : caps = PlanReports(plan')
    BY <1>4
  <2>2. Record(caps)
    BY <2>1 DEF Plan
  <2>3. QED
    BY <2>1, <2>2, RecordEffect DEF IInv
<1>6. TypeOK'
  BY <1>1, <1>3, <1>5 DEF IInv, TypeOK
<1>7. Linked' /\ AsarKeepsBundle' /\ (Executing => run \in 1..MaxRuns)'
  BY <1>1, <1>2 DEF IInv, Linked, AsarKeepsBundle
<1>8. PlanIsSearched' /\ PlanKeepsBundle' /\ DarwinFree' /\ UnsafeNeverHidden'
  BY <1>1, <1>2, <1>3, <1>5
  DEF IInv, PlanIsSearched, Searched, PlanKeepsBundle, DarwinFree,
      UnsafeNeverHidden
<1>9. \A m \in Modules : Read(AppDir, m)' = Read(AppDir, m)
  BY <1>1 DEF Read, AppDir
<1>10. Unreported'
  BY <1>1, <1>4, <1>5, <1>9 DEF IInv, Unreported
<1>11. QED
  BY <1>6, <1>7, <1>8, <1>10 DEF IInv

\* One substitution carried out.
LEMMA StageIInv ==
  ASSUME IInv, NEW e \in todo, StageCached(e) \/ StageStub(e)
  PROVE  IInv'
<1>1. /\ pc = "stage" /\ pc' = "stage" /\ Executing /\ Executing'
      /\ todo' = todo \ {e}
      /\ UNCHANGED <<mode, shipped, place, policy, access, bypass>>
      /\ UNCHANGED <<booted, available, category, events, bypassed>>
      /\ UNCHANGED <<run, plan, before>>
  BY DEF StageCached, StageStub, given, report, Executing
<1>2. e \in plan /\ e.mod \in Modules /\ e.tree \in Trees /\ Bundle \in Trees
  BY MaxRunsAssumption DEF IInv, TypeOK, Entry, Trees, Bundle
<1>3. PICK t \in Trees, f \in {"staged", "absent", file[e.tree][e.mod]} :
        /\ file' = [file EXCEPT ![t][e.mod] = f]
        /\ t = Bundle => t = e.tree \/ (f = "staged" /\ file[e.tree][e.mod] = "link")
        /\ f = "link" => t = e.tree
  <2>1. CASE StageCached(e)
    <3> DEFINE t == IF InBundle(e.tree, e.mod) THEN Bundle ELSE e.tree
    <3>1. t \in Trees /\ file' = [file EXCEPT ![t][e.mod] = "staged"]
      BY <1>2, <2>1 DEF StageCached
    <3>2. t = Bundle => t = e.tree \/ file[e.tree][e.mod] = "link"
      BY DEF InBundle
    <3>3. QED
      BY <3>1, <3>2
  <2>2. CASE StageStub(e)
    BY <1>2, <2>2 DEF StageStub, IInv, TypeOK
  <2>3. QED
    BY <2>1, <2>2
<1>4. /\ file'[t][e.mod] = f
      /\ \A s \in Trees : \A m \in Modules :
           s # t \/ m # e.mod => file'[s][m] = file[s][m]
  BY <1>2, <1>3 DEF IInv, TypeOK
<1>5. f \in FileStates
  <2>1. file[e.tree][e.mod] \in FileStates
    BY <1>2 DEF IInv, TypeOK
  <2>2. QED
    BY <2>1 DEF FileStates
<1>6. TypeOK'
  BY <1>1, <1>2, <1>3, <1>5 DEF IInv, TypeOK
<1>7. Linked'
  BY <1>1, <1>2, <1>3, <1>4 DEF IInv, Linked
<1>8. AsarKeepsBundle'
  <2>1. mode = "asar" => e.tree # Bundle
    BY <1>2 DEF IInv, PlanKeepsBundle
  <2>2. mode = "asar" /\ t = Bundle => f = "staged" /\ place[e.mod] = "beside"
    BY <1>2, <1>3, <2>1
    DEF IInv, Linked, PlanIsSearched, Searched, TypeOK, Places
  <2>3. QED
    BY <1>1, <1>2, <1>4, <2>2 DEF IInv, AsarKeepsBundle
<1>9. (Executing => run \in 1..MaxRuns)' /\ PlanIsSearched' /\ PlanKeepsBundle'
      /\ DarwinFree' /\ UnsafeNeverHidden'
  BY <1>1
  DEF IInv, PlanIsSearched, Searched, PlanKeepsBundle, DarwinFree,
      UnsafeNeverHidden
<1>10. Unreported'
  BY <1>1, <1>2 DEF IInv, Unreported
<1>11. QED
  BY <1>6, <1>7, <1>8, <1>9, <1>10 DEF IInv

\* The second search, and the rest of the report.
LEMMA DetectIInv ==
  ASSUME IInv, DetectClean \/ DetectBypass
  PROVE  IInv'
<1>1. /\ pc = "detect" /\ pc' = "report" /\ Executing /\ Executing'
      /\ UNCHANGED <<mode, shipped, place, policy, access, bypass>>
      /\ UNCHANGED <<file, booted, available, run, plan, todo, before>>
  BY DEF DetectClean, DetectBypass, given, disk, Executing
<1>2. CASE DetectClean
  <2>1. UNCHANGED <<category, events, bypassed>>
    BY <1>2 DEF DetectClean, report
  <2>2. \A m \in Modules : Read(AppDir, m)' = Read(AppDir, m)
    BY <1>1 DEF Read, AppDir
  <2>3. \A m \in Searched : Read(AppDir, m) # "macho"
    BY <1>2, MachOIsBlocked DEF DetectClean, Blocked
  <2>4. QED
    BY <1>1, <2>1, <2>2, <2>3
    DEF IInv, TypeOK, Linked, PlanIsSearched, Searched, PlanKeepsBundle,
        DarwinFree, Unreported, UnsafeNeverHidden, AsarKeepsBundle
<1>3. CASE DetectBypass
  <2>1. /\ category' \in Categories
        /\ events' \subseteq Capabilities
        /\ events' = events \cup {"native-module-bypass"}
        /\ category' \in {"unsafe", "experimental"}
    <3>1. {"native-module-bypass"} \in SUBSET Capabilities
      BY DEF Capabilities
    <3>2. Record({"native-module-bypass"})
      BY <1>3 DEF DetectBypass
    <3>3. QED
      BY <3>1, <3>2, RecordEffect DEF IInv
  <2>2. bypass /\ bypassed' = TRUE
    BY <1>3 DEF DetectBypass
  <2>3. \A m \in Modules : Read(AppDir, m)' = Read(AppDir, m)
    BY <1>1 DEF Read, AppDir
  <2>4. QED
    BY <1>1, <2>1, <2>2, <2>3
    DEF IInv, TypeOK, Linked, PlanIsSearched, Searched, PlanKeepsBundle,
        DarwinFree, Unreported, UnsafeNeverHidden, AsarKeepsBundle
<1>4. QED
  BY <1>2, <1>3

LEMMA LaunchIInv ==
  ASSUME IInv, Launch
  PROVE  IInv'
<1>1. /\ pc = "report" /\ pc' \in {"launched", "failed"} /\ Executing
      /\ UNCHANGED <<mode, shipped, place, policy, access, bypass>>
      /\ UNCHANGED <<file, booted, available, run, plan, todo, bypassed, before>>
  BY DEF Launch, given, disk, Executing
<1>2. PICK caps \in SUBSET Capabilities : Record(caps)
  BY DEF Launch, LaunchReports, Capabilities
<1>3. /\ category' \in Categories
      /\ events' \subseteq Capabilities
      /\ events' = events \cup caps
      /\ category \in {"unsafe", "experimental"}
           => category' \in {"unsafe", "experimental"}
  BY <1>2, RecordEffect DEF IInv
<1>4. \A m \in Modules : Read(AppDir, m)' = Read(AppDir, m)
  BY <1>1 DEF Read, AppDir
<1>5. QED
  BY <1>1, <1>3, <1>4
  DEF IInv, TypeOK, Executing, Linked, PlanIsSearched, Searched,
      PlanKeepsBundle, DarwinFree, Unreported, UnsafeNeverHidden,
      AsarKeepsBundle

\* Failures, the end of the staging, and what others do.
LEMMA OtherIInv ==
  ASSUME IInv,
         \/ ExecuteFails \/ StageDone \/ DetectBlocked \/ NewProcess
         \/ \E e \in todo : StageFails(e)
         \/ \E m \in Modules : Provision(m)
  PROVE  IInv'
<1>1. /\ UNCHANGED <<mode, shipped, place, policy, access, bypass>>
      /\ UNCHANGED <<file, booted>>
  BY DEF ExecuteFails, StageDone, DetectBlocked, NewProcess, StageFails,
         Provision, given, disk
<1>2. CASE StageDone
  <2>1. /\ pc = "stage" /\ pc' = "detect"
        /\ UNCHANGED <<available, category, events, bypassed, run, plan, todo, before>>
    BY <1>2 DEF StageDone, disk, report
  <2>2. \A m \in Modules : Read(AppDir, m)' = Read(AppDir, m)
    BY <1>1, <2>1 DEF Read, AppDir
  <2>3. QED
    BY <1>1, <2>1, <2>2
    DEF IInv, TypeOK, Executing, Linked, PlanIsSearched, Searched,
        PlanKeepsBundle, DarwinFree, Unreported, UnsafeNeverHidden,
        AsarKeepsBundle
<1>3. CASE \E m \in Modules : Provision(m)
  <2>1. /\ available' \subseteq Modules
        /\ UNCHANGED <<pc, category, events, bypassed, run, plan, todo, before>>
    BY <1>3 DEF Provision, report, IInv, TypeOK
  <2>2. \A m \in Modules : Read(AppDir, m)' = Read(AppDir, m)
    BY <1>1, <2>1 DEF Read, AppDir
  <2>3. QED
    BY <1>1, <2>1, <2>2
    DEF IInv, TypeOK, Executing, Linked, PlanIsSearched, Searched,
        PlanKeepsBundle, DarwinFree, Unreported, UnsafeNeverHidden,
        AsarKeepsBundle
<1>4. CASE ExecuteFails \/ DetectBlocked \/ \E e \in todo : StageFails(e)
  <2>1. /\ pc' = "failed" /\ run' \in 0..MaxRuns /\ todo' \in {todo, {}}
        /\ UNCHANGED <<available, category, events, bypassed, plan, before>>
    BY <1>4, MaxRunsAssumption
    DEF ExecuteFails, DetectBlocked, StageFails, disk, report, IInv, TypeOK
  <2>2. QED
    BY <1>1, <2>1
    DEF IInv, TypeOK, Executing, Linked, PlanIsSearched, Searched,
        PlanKeepsBundle, DarwinFree, Unreported, UnsafeNeverHidden,
        AsarKeepsBundle
<1>5. CASE NewProcess
  <2>1. file[Bundle] \in [Modules -> FileStates]
    BY MaxRunsAssumption DEF IInv, TypeOK, Trees, Bundle
  <2>2. /\ pc' = "idle" /\ plan' = {} /\ todo' = {}
        /\ category' = "transparent" /\ events' = {} /\ bypassed' = FALSE
        /\ before' = file[Bundle]
        /\ UNCHANGED <<available, run>>
    BY <1>5 DEF NewProcess, disk
  <2>3. QED
    BY <1>1, <2>1, <2>2
    DEF IInv, TypeOK, Categories, Executing, Linked, PlanIsSearched, Searched,
        PlanKeepsBundle, DarwinFree, Unreported, UnsafeNeverHidden,
        AsarKeepsBundle
<1>6. QED
  BY <1>2, <1>3, <1>4, <1>5

LEMMA NextIInv == IInv /\ [Next]_vars => IInv'
<1> SUFFICES ASSUME IInv, [Next]_vars
             PROVE  IInv'
  OBVIOUS
<1>1. CASE UNCHANGED vars
  <2>1. \A m \in Modules : Read(AppDir, m)' = Read(AppDir, m)
    BY <1>1 DEF Read, AppDir, vars, given, disk
  <2>2. QED
    BY <1>1, <2>1
    DEF IInv, TypeOK, Executing, Linked, PlanIsSearched, Searched,
        PlanKeepsBundle, DarwinFree, Unreported, UnsafeNeverHidden,
        AsarKeepsBundle, vars, given, disk, report
<1>2. CASE Next
  BY <1>2, BeginIInv, PlanIInv, StageIInv, DetectIInv, LaunchIInv, OtherIInv
  DEF Next
<1>3. QED
  BY <1>1, <1>2

-------------------------------------------------------------------------------
\* IInv holds for any modules, over any number of launches.
THEOREM Inductive == Spec => []IInv
BY InitIInv, NextIInv, PTL DEF Spec

\* Every variable of the launch, the disk and the report stays in its type.
THEOREM TypeCorrect == Spec => []TypeOK
<1>1. IInv => TypeOK
  BY DEF IInv
<1>2. QED
  BY <1>1, Inductive, PTL

\* No application is forked with a Mach-O module outside of its linked directories,
\* unless the user asked for it.
THEOREM LaunchedIsDarwinFreeAlways == Spec => []LaunchedIsDarwinFree
<1>1. IInv => LaunchedIsDarwinFree
  BY DEF IInv, DarwinFree, LaunchedIsDarwinFree
<1>2. QED
  BY <1>1, Inductive, PTL

\* A launch past a Mach-O module that was found is reported as unsafe, or worse, from
\* then on.
THEOREM UnsafeNeverHiddenAlways == Spec => []UnsafeNeverHidden
<1>1. IInv => UnsafeNeverHidden
  BY DEF IInv
<1>2. QED
  BY <1>1, Inductive, PTL

\* A launch with other modules than the process found is reported.
THEOREM SubstitutionIsReportedAlways == Spec => []SubstitutionIsReported
<1>1. IInv => SubstitutionIsReported
  BY DEF IInv, Unreported, Executing, SubstitutionIsReported
<1>2. QED
  BY <1>1, Inductive, PTL

\* Launching an asar application leaves the bundle as it is, but for modules
\* beside the asar.
THEOREM AsarKeepsBundleAlways == Spec => []AsarKeepsBundle
<1>1. IInv => AsarKeepsBundle
  BY DEF IInv
<1>2. QED
  BY <1>1, Inductive, PTL

-------------------------------------------------------------------------------
\* The plan is carried out

CarriedOut(e) ==
  \/ e.act = "CACHED" /\ Read(e.tree, e.mod) = "staged"
  \/ e.act = "STUB" /\ (CanRemove(e.tree) => file[e.tree][e.mod] = "absent")

\* An entry is about the directory that its launch came from, and each process
\* plans for itself.
PlanIsOwn ==
  /\ pc = "idle" => plan = {}
  /\ \A e \in plan :
       /\ e.run <= run /\ (pc = "scan" => e.run < run)
       /\ e.tree = IF mode = "asar" THEN e.run ELSE Bundle

\* A Linux build that was planned once is there for good.
CachedIsAvailable ==
  \A e \in plan : e.act = "CACHED" => policy[e.mod] = "replace" /\ e.mod \in available

\* The launches of one process agree about a file, or its stub cannot be made: a
\* file that was removed is not found again.
PlanAgrees ==
  \A e, d \in plan :
    e.tree = d.tree /\ e.mod = d.mod /\ e.act # d.act => ~CanRemove(e.tree)

CarriedSoFar ==
  /\ pc \in {"scan", "detect", "report", "launched"} => \A e \in plan : CarriedOut(e)
  /\ pc = "stage" => \A e \in plan \ todo : CarriedOut(e)

Carried == PlanIsOwn /\ CachedIsAvailable /\ PlanAgrees /\ CarriedSoFar

\* A step that leaves the disk and the process's plan alone undoes nothing.
LEMMA CarriedKept ==
  ASSUME IInv, Carried, UNCHANGED <<given, file, run, plan>>,
         available \subseteq available',
         \/ pc' = pc /\ todo' = todo
         \/ pc' = "failed"
         \/ pc \in {"detect", "report"} /\ pc' \in {"report", "launched"}
         \/ pc = "stage" /\ todo = {} /\ pc' = "detect"
  PROVE  Carried'
<1>1. /\ \A t, m : Read(t, m)' = Read(t, m)
      /\ \A t : CanRemove(t)' = CanRemove(t)
  BY DEF Read, CanRemove, given
<1>2. \A e : CarriedOut(e)' <=> CarriedOut(e)
  BY <1>1, Zenon DEF CarriedOut
<1>3. PlanIsOwn' /\ CachedIsAvailable' /\ PlanAgrees'
  BY <1>1 DEF Carried, PlanIsOwn, CachedIsAvailable, PlanAgrees, given
<1>4. CarriedSoFar'
  BY <1>2 DEF Carried, CarriedSoFar
<1> QED
  BY <1>3, <1>4 DEF Carried

\* execute() extracts into a directory of its own, which no entry is about.
LEMMA CarriedBegin ==
  ASSUME IInv, Carried, BeginExecute
  PROVE  Carried'
<1>1. /\ run' = run + 1 /\ run' \in Trees /\ run' # Bundle /\ Bundle \in Trees
      /\ pc \in {"idle", "launched"} /\ pc' \in {"scan", "detect"}
      /\ UNCHANGED <<plan, todo, available>>
      /\ UNCHANGED <<mode, shipped, place, policy, access, bypass>>
  BY MaxRunsAssumption DEF IInv, TypeOK, BeginExecute, Trees, Bundle, given
<1>2. /\ \A t \in Trees : t # run' => file'[t] = file[t]
      /\ mode # "asar" => file' = file
  BY <1>1 DEF IInv, TypeOK, BeginExecute
<1>3. \A e \in plan :
        /\ e.tree \in Trees /\ e.run \in Nat /\ run \in Nat
        /\ e.tree # run' /\ e.run < run'
  BY <1>1, MaxRunsAssumption DEF IInv, TypeOK, Entry, Carried, PlanIsOwn, Trees
<1>4. \A e \in plan : CarriedOut(e)
  BY <1>1 DEF Carried, CarriedSoFar, PlanIsOwn
<1>5. \A e \in plan : CarriedOut(e)'
  BY <1>1, <1>2, <1>3, <1>4 DEF CarriedOut, Read, CanRemove
<1>6. PlanIsOwn' /\ CachedIsAvailable' /\ PlanAgrees'
  BY <1>1, <1>3 DEF Carried, PlanIsOwn, CachedIsAvailable, PlanAgrees, CanRemove
<1> QED
  BY <1>1, <1>5, <1>6 DEF Carried, CarriedSoFar

\* What is planned now agrees with what earlier launches have done.
LEMMA CarriedPlan ==
  ASSUME IInv, Carried, Plan
  PROVE  Carried'
<1>1. /\ pc = "scan" /\ pc' = "stage"
      /\ plan' = plan \cup NewEntries /\ todo' = plan'
      /\ UNCHANGED <<mode, shipped, place, policy, access, bypass>>
      /\ UNCHANGED <<file, booted, available, run, bypassed, before>>
  BY DEF Plan, given, disk
<1>2. run \in 1..MaxRuns /\ AppDir = IF mode = "asar" THEN run ELSE Bundle
  BY <1>1 DEF IInv, Executing, AppDir
<1>3. ASSUME NEW d \in NewEntries
      PROVE  /\ d.tree = AppDir /\ d.run = run /\ d.mod \in Scanned
             /\ d.act = IF Decision(d.mod) = "CACHED" THEN "CACHED" ELSE "STUB"
  BY DEF NewEntries, Decision
<1>4. \A m \in Modules :
        Decision(m) = "CACHED" <=> policy[m] = "replace" /\ m \in available
  BY Zenon DEF Decision
<1>5. CachedIsAvailable'
  BY <1>1, <1>3, <1>4 DEF Carried, CachedIsAvailable, Scanned, Searched
<1>6. PlanIsOwn'
  BY <1>1, <1>2, <1>3 DEF Carried, PlanIsOwn
<1>7. ASSUME NEW e \in plan, NEW d \in NewEntries,
             e.tree = d.tree, e.mod = d.mod, e.act # d.act
      PROVE  ~CanRemove(e.tree)
  <2>1. CarriedOut(e) /\ d.mod \in Modules
    BY <1>1, <1>3 DEF Carried, CarriedSoFar, Scanned, Searched
  <2>2. mode # "asar" /\ e.tree = Bundle
    BY <1>1, <1>2, <1>3, <1>7 DEF Carried, PlanIsOwn, IInv, TypeOK, Entry
  <2>3. e.act = "STUB"
    BY <1>3, <1>4, <1>7, <2>1 DEF CarriedOut, Carried, CachedIsAvailable
  <2>4. file[e.tree][e.mod] # "absent"
    <3>1. Read(AppDir, d.mod) # "absent"
      BY <1>3 DEF Scanned
    <3>2. file[Bundle][d.mod] # "link"
      BY <2>1, MaxRunsAssumption DEF IInv, Linked, Bundle, Trees
    <3> QED
      BY <1>2, <1>7, <2>2, <3>1, <3>2 DEF Read
  <2> QED
    BY <2>1, <2>3, <2>4 DEF CarriedOut
<1>8. \A t : CanRemove(t)' = CanRemove(t)
  BY <1>1 DEF CanRemove
<1>9. PlanAgrees'
  BY <1>1, <1>3, <1>7, <1>8 DEF Carried, PlanAgrees
<1>10. CarriedSoFar'
  BY <1>1 DEF CarriedSoFar
<1> QED
  BY <1>5, <1>6, <1>9, <1>10 DEF Carried

\* One substitution undoes none that was made before.
LEMMA CarriedStage ==
  ASSUME IInv, Carried, NEW e \in todo, StageCached(e) \/ StageStub(e)
  PROVE  Carried'
<1>1. /\ pc = "stage" /\ pc' = "stage" /\ todo' = todo \ {e}
      /\ UNCHANGED <<mode, shipped, place, policy, access, bypass>>
      /\ UNCHANGED <<available, run, plan>>
  BY DEF StageCached, StageStub, given
<1>2. /\ e \in plan /\ e.mod \in Modules /\ e.tree \in Trees /\ Bundle \in Trees
      /\ \A d \in plan : d.mod \in Modules /\ d.tree \in Trees
      /\ file \in [Trees -> [Modules -> FileStates]]
  BY MaxRunsAssumption DEF IInv, TypeOK, Entry, Trees, Bundle
<1>3. \A t : CanRemove(t)' = CanRemove(t)
  BY <1>1 DEF CanRemove
<1>4. \A m \in Modules : file[Bundle][m] # "link"
  BY <1>2 DEF IInv, Linked
<1>5. CASE StageCached(e)
  <2> DEFINE t == IF InBundle(e.tree, e.mod) THEN Bundle ELSE e.tree
  <2>1. /\ e.act = "CACHED" /\ t \in Trees
        /\ file' = [file EXCEPT ![t][e.mod] = "staged"]
        /\ t # e.tree => t = Bundle /\ file[e.tree][e.mod] = "link"
    BY <1>2, <1>5 DEF StageCached, InBundle
  <2> HIDE DEF t
  <2>2. /\ file'[t][e.mod] = "staged"
        /\ \A s \in Trees : \A m \in Modules : s # t \/ m # e.mod => file'[s][m] = file[s][m]
    BY <1>2, <2>1
  <2>3. CarriedOut(e)'
    BY <1>2, <2>1, <2>2 DEF CarriedOut, Read
  <2>4. ASSUME NEW d \in plan, CarriedOut(d)
        PROVE  CarriedOut(d)'
    <3>1. CASE d.act = "CACHED"
      <4>1. Read(d.tree, d.mod) = "staged"
        BY <2>4, <3>1 DEF CarriedOut
      <4>2. Read(d.tree, d.mod)' = "staged"
        BY <1>2, <1>4, <2>2, <4>1 DEF Read
      <4> QED
        BY <3>1, <4>2 DEF CarriedOut
    <3>2. CASE d.act = "STUB" /\ ~CanRemove(d.tree)
      BY <1>3, <3>2 DEF CarriedOut
    <3>3. CASE d.act = "STUB" /\ CanRemove(d.tree)
      <4>1. file[d.tree][d.mod] = "absent"
        BY <2>4, <3>3 DEF CarriedOut
      <4>2. ~(e.tree = d.tree /\ e.mod = d.mod)
        BY <1>2, <2>1, <3>3 DEF Carried, PlanAgrees
      <4>3. ~(t = d.tree /\ e.mod = d.mod)
        <5>1. t # e.tree => mode = "asar"
          BY <1>2, <2>1 DEF IInv, Linked
        <5> QED
          BY <2>1, <4>2, <5>1 DEF IInv, PlanKeepsBundle
      <4>4. file'[d.tree][d.mod] = "absent"
        BY <1>2, <2>2, <4>1, <4>3
      <4> QED
        BY <3>3, <4>4 DEF CarriedOut
    <3> QED
      BY <2>4, <3>1, <3>2, <3>3 DEF CarriedOut
  <2> QED
    BY <1>1, <1>3, <2>3, <2>4
    DEF Carried, PlanIsOwn, CachedIsAvailable, PlanAgrees, CarriedSoFar
<1>6. CASE StageStub(e)
  <2>1. /\ e.act = "STUB"
        /\ file' = [file EXCEPT ![e.tree][e.mod] = IF CanRemove(e.tree) THEN "absent" ELSE @]
    BY <1>6 DEF StageStub
  <2>2. /\ CanRemove(e.tree) => file'[e.tree][e.mod] = "absent"
        /\ ~CanRemove(e.tree) => file'[e.tree][e.mod] = file[e.tree][e.mod]
        /\ \A s \in Trees : \A m \in Modules :
             s # e.tree \/ m # e.mod => file'[s][m] = file[s][m]
    BY <1>2, <2>1
  <2>3. CarriedOut(e)'
    BY <1>3, <2>1, <2>2 DEF CarriedOut
  <2>4. ASSUME NEW d \in plan, CarriedOut(d)
        PROVE  CarriedOut(d)'
    <3>1. CASE d.act = "STUB"
      BY <1>2, <1>3, <2>2, <2>4, <3>1 DEF CarriedOut
    <3>2. CASE d.act = "CACHED" /\ ~CanRemove(e.tree)
      <4>1. file'[d.tree][d.mod] = file[d.tree][d.mod] /\ file'[Bundle][d.mod] = file[Bundle][d.mod]
        BY <1>2, <2>2, <3>2
      <4> QED
        BY <2>4, <3>2, <4>1 DEF CarriedOut, Read
    <3>3. CASE d.act = "CACHED" /\ CanRemove(e.tree)
      <4>1. ~(e.tree = d.tree /\ e.mod = d.mod)
        BY <1>2, <2>1, <3>3 DEF Carried, PlanAgrees
      <4>2. file'[d.tree][d.mod] = file[d.tree][d.mod]
        BY <1>2, <2>2, <4>1
      <4>3. file[d.tree][d.mod] = "link" => file'[Bundle][d.mod] = file[Bundle][d.mod]
        <5>1. file[d.tree][d.mod] = "link" => e.tree # Bundle
          BY <1>2 DEF IInv, Linked, PlanKeepsBundle
        <5> QED
          BY <1>2, <2>2, <5>1
      <4> QED
        BY <2>4, <3>3, <4>2, <4>3 DEF CarriedOut, Read
    <3> QED
      BY <2>4, <3>1, <3>2, <3>3 DEF CarriedOut
  <2> QED
    BY <1>1, <1>3, <2>3, <2>4
    DEF Carried, PlanIsOwn, CachedIsAvailable, PlanAgrees, CarriedSoFar
<1> QED
  BY <1>5, <1>6

LEMMA CarriedNext == IInv /\ Carried /\ [Next]_vars => Carried'
<1> SUFFICES ASSUME IInv, Carried, [Next]_vars
             PROVE  Carried'
  OBVIOUS
<1>1. CASE BeginExecute
  BY <1>1, CarriedBegin
<1>2. CASE ExecuteFails
  <2>1. /\ run' = run + 1 /\ run \in Nat /\ pc' = "failed"
        /\ UNCHANGED <<mode, shipped, place, policy, access, bypass>>
        /\ UNCHANGED <<plan, available>>
    BY <1>2, MaxRunsAssumption DEF ExecuteFails, given, disk, IInv, TypeOK
  <2>2. \A e \in plan : e.run \in Nat
    BY DEF IInv, TypeOK, Entry
  <2> QED
    BY <2>1, <2>2
    DEF Carried, PlanIsOwn, CachedIsAvailable, PlanAgrees, CarriedSoFar, CanRemove
<1>3. CASE Plan
  BY <1>3, CarriedPlan
<1>4. CASE \E e \in todo : StageCached(e) \/ StageStub(e)
  BY <1>4, CarriedStage
<1>5. CASE NewProcess
  BY <1>5 DEF NewProcess, Carried, PlanIsOwn, CachedIsAvailable, PlanAgrees, CarriedSoFar
<1>6. CASE StageDone \/ \E e \in todo : StageFails(e)
  BY <1>6, CarriedKept DEF StageDone, StageFails, disk
<1>7. CASE DetectClean \/ DetectBypass \/ DetectBlocked \/ Launch
  BY <1>7, CarriedKept DEF DetectClean, DetectBypass, DetectBlocked, Launch, disk
<1>8. CASE \E m \in Modules : Provision(m)
  BY <1>8, CarriedKept DEF Provision
<1>9. CASE UNCHANGED vars
  BY <1>9, CarriedKept DEF vars, disk
<1> QED
  BY <1>1, <1>2, <1>3, <1>4, <1>5, <1>6, <1>7, <1>8, <1>9 DEF Next

\* At the launch every entry of the plan, of this and of the process's earlier
\* launches, has been carried out and not been undone: the Linux build is where the
\* application looks for it, the stubbed file is gone if it could be removed
\* (stage_native_substitutions, for any number of modules and launches).
THEOREM PlanCarriedOutAlways == Spec => []PlanCarriedOut
<1>1. Init => Carried
  BY DEF Init, Carried, PlanIsOwn, CachedIsAvailable, PlanAgrees, CarriedSoFar
<1>2. Carried => PlanCarriedOut
  BY DEF Carried, CarriedSoFar, CarriedOut, PlanCarriedOut
<1> QED
  BY <1>1, <1>2, CarriedNext, Inductive, PTL DEF Spec
===============================================================================
