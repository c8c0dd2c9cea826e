----------------------------- MODULE LaunchPipeline ----------------------------
(***************************************************************************)
(* One run of macrun on an application: the command line                   *)
(* (tooling/macrun-cli/main.cpp) calls orchestrate, which looks at the     *)
(* bundle (detector), asks the compatibility database, chooses a backend   *)
(* and decides whether to launch; execute_plan then drives an adapter.     *)
(*                                                                         *)
(* The bundle is read several times, and another process may change it     *)
(* between two readings.  The database's answer comes from CompatDatabase, *)
(* and what execute() does from ElectronAdapter and NativeStaging: here it *)
(* is a record, and a success or a failure.                                *)
(***************************************************************************)
EXTENDS Naturals

CONSTANTS
  Apps,        \* what an application's files may say, see IsApp
  Matches,     \* what the database may answer, see IsMatch
  Disks,       \* what may lie at the path, see IsDisk
  Settings,    \* options and environment variables that are set
  MaxChanges   \* bounds how often the path is changed

Libraries == {"Electron", "WebKit", "AppKit", "SwiftUI", "Metal",
              "Accessibility", "Hypervisor", "Sparkle"}
BundleIds == {"com.github.electron", "com.tauri", "tauri", "com.wails", "plain", ""}

IsApp(a) ==
  /\ DOMAIN a = {"id", "keys", "libs", "entitlements", "arch"}
  /\ a.id \in BundleIds
  /\ a.keys \subseteq {"ElectronAsarIntegrity", "NSPrincipalClass"}
  /\ a.libs \subseteq Libraries
  /\ a.entitlements \subseteq {"accessibility", "hypervisor"}
  /\ a.arch \in {"x86_64", "arm64", "universal"}

RecordTiers == {"native-substitution", "darling-compatible", "vm-recommended", "unsupported"}
States == {"verified", "functional", "partial", "degraded", "unsupported", "broken"}
Launchable == States \ {"unsupported", "broken"}

\* The first record of the bundle; NoMatch: there is none, or no database;
\* Throws: a file of the database ends the process (CompatDatabase).
NoMatch == [kind |-> "none"]
Throws == [kind |-> "throws"]
IsMatch(r) ==
  \/ r \in {NoMatch, Throws}
  \/ /\ DOMAIN r = {"kind", "tier", "state"} /\ r.kind = "record"
     /\ r.tier \in RecordTiers /\ r.state \in States

\* plist: the path is a directory with Contents/Info.plist; nothing, a disk
\* image, a bare executable and any other file are all refused alike.  exe: the
\* executable that the Info.plist names is there.  code: what there is of the
\* application's code under Contents/Resources.
CodeNames == {"app.asar", "default_app.asar", "app"}
IsDisk(d) ==
  /\ DOMAIN d = {"plist", "exe", "code"}
  /\ d.plist \in BOOLEAN /\ d.exe \in BOOLEAN /\ d.code \subseteq CodeNames

Options == {"launch", "wait", "MACRUN_FALLBACK_VM", "MACRUN_SHIM_DISABLE_GPU"}

ASSUME AppsAssumption == \A a \in Apps : IsApp(a)
ASSUME MatchesAssumption == \A r \in Matches : IsMatch(r)
ASSUME DisksAssumption == \A d \in Disks : IsDisk(d)
ASSUME SettingsAssumption == Settings \subseteq SUBSET Options
ASSUME MaxChangesAssumption == MaxChanges \in Nat

Tiers == {"tier0", "tier1", "tier2", "tier3", "tier4b", "tier4"}
Backends == {"ElectronRuntime", "DarlingRuntime", "CocoaLite", "ARM64Translator",
             "VMAssisted", "None"}

\* What a field holds that nobody has set: any value of the type, or none.
Garbage(T) == T \cup {"unknown"}

VARIABLES
  app, match, settings,  \* the inputs of the run
  disk, changes,
  pc,
  ok,         \* result.success
  detection,  \* result.plan.detection: what was found, and the recommendation
  plan,       \* the rest of result.plan
  target,     \* asar_path_ of the adapter; "." when it is empty
  shims,      \* preload_scripts_ of the adapter, the always present ones left out
  child,      \* the application: "none", "running", "ended"
  via,        \* exec.backend_used
  exit        \* the exit code, as text; "abort" after an uncaught exception

inputs == <<app, match, settings>>
adapter == <<target, shims, child, via>>
vars == <<inputs, disk, changes, pc, ok, detection, plan, adapter, exit>>

-------------------------------------------------------------------------------
\* Detection

\* The executable's libraries and architecture are known only if it is found.
Signals(a, d) ==
  IF d.exe THEN a ELSE [a EXCEPT !.libs = {}, !.arch = "unknown"]

\* The fingerprints that some decision depends on; the others (XPC, CoreData,
\* CloudKit, ...) add to the risk score, which is printed.
Fingerprints(s) ==
  [Electron |-> \/ "Electron" \in s.libs
                \/ s.id = "com.github.electron"
                \/ "ElectronAsarIntegrity" \in s.keys,
   Tauri |-> \/ s.id = "com.tauri"
             \/ s.id = "tauri" /\ "WebKit" \in s.libs /\ "Electron" \notin s.libs,
   Wails |-> s.id = "com.wails",
   AppKit |-> "AppKit" \in s.libs \/ "NSPrincipalClass" \in s.keys,
   SwiftUI |-> "SwiftUI" \in s.libs,
   Metal |-> "Metal" \in s.libs,
   Accessibility |-> "Accessibility" \in s.libs \/ "accessibility" \in s.entitlements,
   Hypervisor |-> "Hypervisor" \in s.libs \/ "hypervisor" \in s.entitlements,
   Sparkle |-> "Sparkle" \in s.libs]

FrameworkIds == {"Electron", "Tauri", "Wails", "AppKit", "SwiftUI", "Metal",
                 "Accessibility", "Hypervisor", "Sparkle"}

Frameworks(s) == {f \in FrameworkIds : Fingerprints(s)[f]}

\* critical_count > 0
CriticalGap(F) == F \cap {"Accessibility", "Hypervisor"} # {}

NativeFrameworks == {"Electron", "Tauri", "Wails"}

Category(F) ==
  IF "Hypervisor" \in F THEN "Hypervisor"
  ELSE IF "Electron" \in F THEN "Electron"
  ELSE IF F \cap NativeFrameworks # {} THEN "Tauri or Wails"
  ELSE IF F \cap {"Accessibility", "SwiftUI"} # {} \/ {"AppKit", "Metal"} \subseteq F
       THEN "SwiftUIHeavy"
  ELSE IF "AppKit" \in F THEN "LightweightCocoa"
  ELSE "MachOCLI"

\* The execution strategy matrix.
Advice(tier, fallback, vmRequired, state) ==
  [tier |-> tier, fallback |-> fallback, vmRequired |-> vmRequired, state |-> state]

Strategy(category, arch) ==
  CASE category = "Hypervisor" -> Advice("tier4", "tier4", FALSE, "unsupported")
    [] category = "Electron" -> Advice("tier0", "tier4b", FALSE, "functional")
    [] category = "Tauri or Wails" -> Advice("tier0", "tier2", FALSE, "functional")
    [] category = "SwiftUIHeavy" -> Advice("tier4b", "tier4", TRUE, "degraded")
    [] category = "LightweightCocoa" -> Advice("tier2", "tier4b", FALSE, "partial")
    [] category = "MachOCLI" ->
         Advice(IF arch = "arm64" THEN "tier3" ELSE "tier1", "tier3", FALSE, "functional")

\* Seeded bug: the override for critical gaps is missing.
RecommendationWithoutOverride(F, arch) == Strategy(Category(F), arch)

\* A critical gap asks for a VM, whatever the tier.
Recommendation(F, arch) ==
  LET s == Strategy(Category(F), arch) IN
  [s EXCEPT !.vmRequired = @ \/ CriticalGap(F)]

\* The state of the detection's result.  The second case never occurs: a
\* recommendation with a critical gap requires a VM.
DetectedState(F, r) ==
  IF CriticalGap(F) /\ ~r.vmRequired THEN "degraded"
  ELSE IF "Hypervisor" \in F THEN "unsupported"
  ELSE r.state

Detection(F, r, state, id) ==
  [frameworks |-> F, tier |-> r.tier, fallback |-> r.fallback,
   vmRequired |-> r.vmRequired, state |-> state, id |-> id]

-------------------------------------------------------------------------------
\* Backend selection and the decision

\* A value that is no tier has no backend.
TierToBackend(t) ==
  CASE t = "tier0" -> "ElectronRuntime"
    [] t = "tier1" -> "DarlingRuntime"
    [] t = "tier2" -> "CocoaLite"
    [] t = "tier3" -> "ARM64Translator"
    [] t = "tier4b" -> "VMAssisted"
    [] t \notin {"tier0", "tier1", "tier2", "tier3", "tier4b"} -> "None"

RecordTier(t) ==
  CASE t = "native-substitution" -> "tier0"
    [] t = "darling-compatible" -> "tier2"
    [] t = "vm-recommended" -> "tier4b"
    [] t = "unsupported" -> "tier4"

\* Seeded bug: the risks of an application on a native runtime are not looked at.
CapabilitiesOfOthers(F) ==
  {c \in {"gpu_disabled", "autoupdater_disabled"} :
     /\ F \cap NativeFrameworks = {}
     /\ \/ c = "gpu_disabled" /\ "Metal" \in F
        \/ c = "autoupdater_disabled" /\ "Sparkle" \in F}

\* required_capabilities as far as the Electron adapter's bridge uses them.
Capabilities(F) ==
  {c \in {"gpu_disabled", "autoupdater_disabled"} :
     \/ c = "gpu_disabled" /\ "Metal" \in F
     \/ c = "autoupdater_disabled" /\ "Sparkle" \in F}

CanLaunch(state, backend) ==
  state \notin {"unsupported", "broken"} /\ backend # "None"

\* A plan that orchestrate gave up: compatibility.state was never set.
Abandoned(state) ==
  [matched |-> FALSE, backend |-> "None", fallback |-> "None", vmRequired |-> FALSE,
   caps |-> {}, state |-> state, canLaunch |-> FALSE]

\* What the fields of the detection are before it is run.
Undetected(tier) ==
  Detection({}, Advice(tier, "tier4", FALSE, "functional"), "functional", "")

-------------------------------------------------------------------------------
Init ==
  /\ app \in Apps /\ match \in Matches /\ settings \in Settings
  /\ disk \in Disks /\ changes = 0
  /\ pc = "resolve"
  /\ ok = FALSE
  /\ detection = Undetected("unknown") /\ plan = Abandoned("unknown")
  /\ target = "." /\ shims = {}
  /\ child = "none" /\ via = "none"
  /\ exit = "none"

\* Another process changes what lies at the path.
ChangeDisk ==
  /\ pc # "done"
  /\ changes < MaxChanges /\ changes' = changes + 1
  /\ disk' \in Disks
  /\ UNCHANGED <<inputs, pc, ok, detection, plan, adapter, exit>>

\* orchestrate, steps 0 to 2: only a directory with an Info.plist goes on.  The
\* fields of the plan that detection would have set are printed all the same.
Resolve ==
  /\ pc = "resolve"
  /\ \/ /\ disk.plist
        /\ pc' = "detect"
        /\ UNCHANGED <<detection, plan>>
     \/ /\ ~disk.plist
        /\ pc' = "report"
        /\ \E t \in Garbage(Tiers) : detection' = Undetected(t)
        /\ \E s \in Garbage(States) : plan' = Abandoned(s)
  /\ UNCHANGED <<inputs, disk, changes, ok, adapter, exit>>

\* Seeded bug: the early return without an Info.plist leaves the state at its default.
DetectWithoutVerdict ==
  /\ pc = "detect"
  /\ pc' = "lookup"
  /\ \/ /\ ~disk.plist
        /\ \E t \in Garbage(Tiers) : detection' = Undetected(t)
     \/ /\ disk.plist
        /\ LET s == Signals(app, disk)
               F == Frameworks(s)
               r == Recommendation(F, s.arch)
           IN detection' = Detection(F, r, DetectedState(F, r), s.id)
  /\ UNCHANGED <<inputs, disk, changes, ok, plan, adapter, exit>>

\* orchestrate, step 3.  Without an Info.plist, which was there a moment ago, the
\* preferred tier is never set.
Detect ==
  /\ pc = "detect"
  /\ pc' = "lookup"
  /\ \/ /\ ~disk.plist
        /\ \E t \in Garbage(Tiers) :
             detection' = [Undetected(t) EXCEPT !.state = "unsupported"]
     \/ /\ disk.plist
        /\ LET s == Signals(app, disk)
               F == Frameworks(s)
               r == Recommendation(F, s.arch)
           IN detection' = Detection(F, r, DetectedState(F, r), s.id)
  /\ UNCHANGED <<inputs, disk, changes, ok, plan, adapter, exit>>

\* Seeded bug: the record's state is not carried over.
LookupMatchesTierOnly ==
  /\ pc = "lookup" /\ match.kind = "record" /\ detection.id # ""
  /\ detection' = [detection EXCEPT !.tier = RecordTier(match.tier)]
  /\ plan' = [plan EXCEPT !.matched = TRUE]
  /\ pc' = "select"
  /\ UNCHANGED <<inputs, disk, changes, ok, adapter, exit>>

\* orchestrate, step 4: the record takes the place of the detected tier and state,
\* and of nothing else.  No record has an empty bundle identifier.
LookupThrows ==
  /\ pc = "lookup" /\ match = Throws
  /\ pc' = "done" /\ exit' = "abort"
  /\ UNCHANGED <<inputs, disk, changes, ok, detection, plan, adapter>>

LookupMatches ==
  /\ pc = "lookup" /\ match.kind = "record" /\ detection.id # ""
  /\ detection' = [detection EXCEPT !.tier = RecordTier(match.tier), !.state = match.state]
  /\ plan' = [plan EXCEPT !.matched = TRUE]
  /\ pc' = "select"
  /\ UNCHANGED <<inputs, disk, changes, ok, adapter, exit>>

LookupFindsNothing ==
  /\ pc = "lookup" /\ match # Throws
  /\ match = NoMatch \/ detection.id = ""
  /\ pc' = "select"
  /\ UNCHANGED <<inputs, disk, changes, ok, detection, plan, adapter, exit>>

\* orchestrate, steps 5 to 9.
Select ==
  /\ pc = "select"
  /\ LET backend == TierToBackend(detection.tier) IN
     plan' = [matched |-> plan.matched,
              backend |-> backend,
              fallback |-> TierToBackend(detection.fallback),
              vmRequired |-> detection.vmRequired,
              caps |-> Capabilities(detection.frameworks),
              state |-> detection.state,
              canLaunch |-> CanLaunch(detection.state, backend)]
  /\ ok' = TRUE
  /\ pc' = "report"
  /\ UNCHANGED <<inputs, disk, changes, detection, adapter, exit>>

\* main prints the plan.  Without --launch the exit code says whether the
\* application could be launched.
Report ==
  /\ pc = "report"
  /\ \/ /\ "launch" \notin settings
        /\ exit' = IF ~ok THEN "2" ELSE IF ~plan.canLaunch THEN "3" ELSE "0"
        /\ pc' = "done"
     \/ /\ "launch" \in settings
        /\ ~(ok /\ plan.canLaunch)
        /\ exit' = "3" /\ pc' = "done"
     \/ /\ "launch" \in settings
        /\ ok /\ plan.canLaunch
        /\ pc' = "execute_plan"
        /\ UNCHANGED exit
  /\ UNCHANGED <<inputs, disk, changes, ok, detection, plan, adapter>>

\* execute_plan knows one backend.
NotImplemented ==
  /\ pc = "execute_plan" /\ plan.backend # "ElectronRuntime"
  /\ exit' = "4" /\ pc' = "done"
  /\ UNCHANGED <<inputs, disk, changes, ok, detection, plan, adapter>>

\* The application's code, by the order in which execute_plan looks for it.
CodeAt(d) ==
  IF "app.asar" \in d.code THEN "app.asar"
  ELSE IF "default_app.asar" \in d.code THEN "default_app.asar"
  ELSE IF "app" \in d.code THEN "app"
  ELSE "."

Shims(caps) ==
  {s \in {"disable-gpu", "disable-sparkle"} :
     \/ s = "disable-gpu" /\ ("gpu_disabled" \in caps \/ "MACRUN_SHIM_DISABLE_GPU" \in settings)
     \/ s = "disable-sparkle" /\ "autoupdater_disabled" \in caps}

\* configure_adapter_for_electron, the search for the code, initialize and start.
\* These two never fail on the adapter that execute_plan makes: the host checks
\* answer with constants.
Configure ==
  /\ pc = "execute_plan" /\ plan.backend = "ElectronRuntime"
  /\ target' = CodeAt(disk)
  /\ shims' = Shims(plan.caps)
  /\ pc' = "execute"
  /\ UNCHANGED <<inputs, disk, changes, ok, detection, plan, child, via, exit>>

\* execute() forks the application; its code must still be there, unless there
\* was none: then Electron is given the current directory.
Execute ==
  /\ pc = "execute"
  /\ target = "." \/ target \in disk.code
  /\ child' = "running" /\ via' = "electron-runtime"
  /\ pc' = "launched"
  /\ UNCHANGED <<inputs, disk, changes, ok, detection, plan, target, shims, exit>>

\* Seeded bug: every failure of execute() is handed to a VM.
ExecuteFailsAsSuccess ==
  /\ pc = "execute"
  /\ via' = "vm-assisted"
  /\ pc' = "launched"
  /\ UNCHANGED <<inputs, disk, changes, ok, detection, plan, target, shims, child, exit>>

\* execute() fails; with MACRUN_FALLBACK_VM=1 that is a success on a VM, which
\* nothing starts.
ExecuteFails ==
  /\ pc = "execute"
  /\ \/ /\ "MACRUN_FALLBACK_VM" \in settings
        /\ via' = "vm-assisted"
        /\ pc' = "launched"
        /\ UNCHANGED exit
     \/ /\ "MACRUN_FALLBACK_VM" \notin settings
        /\ exit' = "4" /\ pc' = "done"
        /\ UNCHANGED via
  /\ UNCHANGED <<inputs, disk, changes, ok, detection, plan, target, shims, child>>

\* --wait waits for a child, if there is one.
Finish ==
  /\ pc = "launched"
  /\ "wait" \in settings => child # "running"
  /\ exit' = "0" /\ pc' = "done"
  /\ UNCHANGED <<inputs, disk, changes, ok, detection, plan, adapter>>

AppEnds ==
  /\ child = "running"
  /\ child' = "ended"
  /\ UNCHANGED <<inputs, disk, changes, pc, ok, detection, plan, target, shims, via, exit>>

Next ==
  \/ ChangeDisk
  \/ Resolve
  \/ Detect
  \/ LookupThrows
  \/ LookupMatches
  \/ LookupFindsNothing
  \/ Select
  \/ Report
  \/ NotImplemented
  \/ Configure
  \/ Execute
  \/ ExecuteFails
  \/ Finish
  \/ AppEnds

Spec == Init /\ [][Next]_vars

-------------------------------------------------------------------------------
\* Properties

Recommendations == [frameworks : SUBSET FrameworkIds, tier : Garbage(Tiers),
                    fallback : Tiers, vmRequired : BOOLEAN, state : States, id : BundleIds]
Plans == [matched : BOOLEAN, backend : Backends, fallback : Backends,
          vmRequired : BOOLEAN, caps : SUBSET {"gpu_disabled", "autoupdater_disabled"},
          state : Garbage(States), canLaunch : BOOLEAN]

\* The plan and the adapter hold values of the types that the headers declare,
\* the fields without an initializer included; a tier of the database is always
\* translated before it is stored in the plan.
TypeOK ==
  /\ app \in Apps /\ match \in Matches /\ settings \in Settings
  /\ disk \in Disks /\ changes \in 0 .. MaxChanges
  /\ pc \in {"resolve", "detect", "lookup", "select", "report", "execute_plan",
             "execute", "launched", "done"}
  /\ ok \in BOOLEAN
  /\ detection \in Recommendations /\ plan \in Plans
  /\ target \in CodeNames \cup {"."}
  /\ shims \subseteq {"disable-gpu", "disable-sparkle"}
  /\ child \in {"none", "running", "ended"}
  /\ via \in {"none", "electron-runtime", "vm-assisted"}
  /\ exit \in {"none", "0", "2", "3", "4", "abort"}

\* What main returns is what a script can rely on: a failure leaves no application
\* behind; 0 means a launchable plan and, with --launch, an application that was
\* started (and has ended, with --wait) unless the user had asked for failures to
\* be handed to a VM; and nothing is started without --launch.
ExitTellsTheTruth ==
  /\ child # "none" => "launch" \in settings
  /\ exit \in {"2", "3", "4", "abort"} => child = "none"
  /\ exit = "0" =>
       /\ ok /\ plan.canLaunch
       /\ "launch" \in settings =>
            child # "none" \/ (via = "vm-assisted" /\ "MACRUN_FALLBACK_VM" \in settings)
       /\ {"launch", "wait"} \subseteq settings => child # "running"

\* An application is started only for a reason: the database says that it runs by
\* native substitution, or detection found a framework that macrun can substitute
\* and no dependency on the hypervisor.  In particular a tier that nobody set
\* starts nothing, whatever it happens to hold.
LaunchIsJustified ==
  child # "none" =>
    /\ plan.canLaunch /\ plan.backend = "ElectronRuntime"
    /\ IF plan.matched
       THEN match.tier = "native-substitution" /\ match.state \in Launchable
       ELSE /\ detection.frameworks \cap NativeFrameworks # {}
            /\ "Hypervisor" \notin detection.frameworks

\* can_launch of a finished plan: a record of the database has the last word, and
\* without one every application may be launched that does not need the
\* hypervisor, as long as its bundle is left alone.
DecisionIsRight ==
  ok =>
    IF plan.matched
    THEN plan.canLaunch <=> (match.tier # "unsupported" /\ match.state \in Launchable)
    ELSE /\ plan.canLaunch => "Hypervisor" \notin detection.frameworks
         /\ changes = 0 =>
              (plan.canLaunch <=> "Hypervisor" \notin Frameworks(Signals(app, disk)))

\* A plan that the application cannot do without a VM says so: vm_required is set
\* for every critical gap that was detected, also when a record chose another
\* backend, and for every VM backend that detection chose.  (When the bundle loses
\* its Info.plist the backend is anyone's guess: that plan cannot be launched.)
VmIsAnnounced ==
  ok =>
    /\ CriticalGap(detection.frameworks) => plan.vmRequired
    /\ plan.canLaunch /\ plan.backend = "VMAssisted" /\ ~plan.matched => plan.vmRequired

\* The risks that detection found reach the application as shims: the GPU is turned
\* off for one that uses Metal, or on request, and the updater for one that
\* carries Sparkle, whoever chose its backend.
RisksReachTheApp ==
  child # "none" =>
    /\ "disable-gpu" \in shims <=>
         ("Metal" \in detection.frameworks \/ "MACRUN_SHIM_DISABLE_GPU" \in settings)
    /\ "disable-sparkle" \in shims <=> "Sparkle" \in detection.frameworks

================================================================================
