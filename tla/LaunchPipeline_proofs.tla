------------------------- MODULE LaunchPipeline_proofs -------------------------
(***************************************************************************)
(* The safety properties of LaunchPipeline, for any applications, answers  *)
(* of the database, contents of the bundle, settings and number of         *)
(* changes.                                                                *)
(***************************************************************************)
EXTENDS LaunchPipeline, TLAPS

\* Whether the plan rests on a detection that was run.
Detected == pc \in {"lookup", "select"} \/ ok

\* What a verdict of the detector is worth as long as no record replaces it.
Judged ==
  Detected /\ ~plan.matched /\ detection.state \in Launchable =>
    /\ "Hypervisor" \notin detection.frameworks
    /\ detection.tier = "tier0" => detection.frameworks \cap NativeFrameworks # {}
    /\ detection.tier = "tier4b" => detection.vmRequired

\* Nobody has touched the bundle: then the detector saw it as it is.
Undisturbed ==
  changes = 0 =>
    /\ pc = "detect" => disk.plist
    /\ Detected /\ ~plan.matched =>
         /\ detection.frameworks = Frameworks(Signals(app, disk))
         /\ "Hypervisor" \notin detection.frameworks =>
              detection.state \in Launchable /\ detection.tier \in Tiers \ {"tier4"}

\* A record replaced the tier and the state.
Overridden ==
  /\ pc \in {"resolve", "detect", "lookup"} => ~plan.matched
  /\ plan.matched =>
       /\ match.kind = "record"
       /\ detection.tier = RecordTier(match.tier) /\ detection.state = match.state

\* The plan is what the detection, overridden or not, makes of it.
Planned ==
  /\ pc \in {"resolve", "detect", "lookup", "select"} => ~ok
  /\ ok =>
       /\ plan.backend = TierToBackend(detection.tier)
       /\ plan.state = detection.state
       /\ plan.canLaunch = CanLaunch(plan.state, plan.backend)
       /\ plan.vmRequired = detection.vmRequired
       /\ plan.caps = Capabilities(detection.frameworks)

\* How far the execution has come.
Progress ==
  /\ exit # "none" <=> pc = "done"
  /\ pc \in {"execute_plan", "execute", "launched"} =>
       ok /\ plan.canLaunch /\ "launch" \in settings
  /\ pc \in {"execute", "launched"} => plan.backend = "ElectronRuntime"
  /\ child # "none" =>
       /\ pc \in {"launched", "done"} /\ "launch" \in settings
       /\ ok /\ plan.canLaunch /\ plan.backend = "ElectronRuntime"
  /\ pc = "execute" \/ child # "none" => shims = Shims(plan.caps)
  /\ pc = "launched" =>
       child # "none" \/ (via = "vm-assisted" /\ "MACRUN_FALLBACK_VM" \in settings)

GapsNeedVm == CriticalGap(detection.frameworks) => detection.vmRequired

IInv ==
  /\ TypeOK
  /\ Judged
  /\ Undisturbed
  /\ Overridden
  /\ Planned
  /\ Progress
  /\ GapsNeedVm
  /\ ExitTellsTheTruth

-------------------------------------------------------------------------------
\* Every row of the strategy matrix, with the override for critical gaps, is of the
\* right type and gives a verdict that the decision can rely on.
LEMMA MatrixIsSound ==
  \A F \in SUBSET FrameworkIds : \A arch :
    LET r == Recommendation(F, arch) IN
    /\ r \in [tier : Tiers, fallback : Tiers, vmRequired : BOOLEAN, state : States]
    /\ CriticalGap(F) => r.vmRequired
    /\ r.tier = "tier0" => F \cap NativeFrameworks # {}
    /\ r.tier = "tier4b" => r.vmRequired
    /\ "Hypervisor" \in F => DetectedState(F, r) = "unsupported"
    /\ "Hypervisor" \notin F => DetectedState(F, r) \in Launchable /\ r.tier # "tier4"
    /\ DetectedState(F, r) \in States
<1> SUFFICES ASSUME NEW F \in SUBSET FrameworkIds, NEW arch
             PROVE  LET r == Recommendation(F, arch) IN
                    /\ r \in [tier : Tiers, fallback : Tiers, vmRequired : BOOLEAN, state : States]
                    /\ CriticalGap(F) => r.vmRequired
                    /\ r.tier = "tier0" => F \cap NativeFrameworks # {}
                    /\ r.tier = "tier4b" => r.vmRequired
                    /\ "Hypervisor" \in F => DetectedState(F, r) = "unsupported"
                    /\ "Hypervisor" \notin F => DetectedState(F, r) \in Launchable /\ r.tier # "tier4"
                    /\ DetectedState(F, r) \in States
  OBVIOUS
<1> DEFINE s == Strategy(Category(F), arch)
           r == Recommendation(F, arch)
           Type == [tier : Tiers, fallback : Tiers, vmRequired : BOOLEAN, state : States]
           Row(t, f, v, st) == s = Advice(t, f, v, st)
           Rows == \/ Row("tier4b", "tier4", TRUE, "degraded")
                   \/ Row("tier2", "tier4b", FALSE, "partial")
                   \/ Row("tier3", "tier3", FALSE, "functional")
                   \/ Row("tier1", "tier3", FALSE, "functional")
<1>1. ASSUME s \in Type
      PROVE  /\ r \in Type
             /\ r.tier = s.tier /\ r.state = s.state
             /\ r.vmRequired <=> (s.vmRequired \/ CriticalGap(F))
  <2>1. r = [s EXCEPT !.vmRequired = @ \/ CriticalGap(F)]
    BY Zenon DEF Recommendation
  <2>2. (s.vmRequired \/ CriticalGap(F)) \in BOOLEAN
    OBVIOUS
  <2> HIDE DEF s, r
  <2> QED BY <1>1, <2>1, <2>2
<1>2. CASE "Hypervisor" \in F
  <2>1. Row("tier4", "tier4", FALSE, "unsupported")
    BY <1>2 DEF Strategy, Category
  <2>2. CriticalGap(F)
    BY <1>2 DEF CriticalGap
  <2>3. s \in Type /\ s.tier = "tier4" /\ s.state = "unsupported"
    BY <2>1 DEF Advice, Tiers, States
  <2> HIDE DEF s, r
  <2>4. r \in Type /\ r.tier = "tier4" /\ r.vmRequired
    BY <1>1, <2>2, <2>3
  <2>5. DetectedState(F, r) = "unsupported"
    BY <1>2, <2>4 DEF DetectedState
  <2> QED BY <1>2, <2>4, <2>5 DEF States, r
<1>3. CASE "Hypervisor" \notin F /\ F \cap NativeFrameworks # {}
  <2>1. \/ Row("tier0", "tier4b", FALSE, "functional")
        \/ Row("tier0", "tier2", FALSE, "functional")
    BY <1>3 DEF Strategy, Category, NativeFrameworks
  <2> HIDE DEF s, r
  <2>2. s \in Type /\ s.tier = "tier0" /\ s.state = "functional"
    <3>1. CASE Row("tier0", "tier4b", FALSE, "functional")
      BY <3>1 DEF Advice, Tiers, States
    <3>2. CASE Row("tier0", "tier2", FALSE, "functional")
      BY <3>2 DEF Advice, Tiers, States
    <3> QED BY <2>1, <3>1, <3>2
  <2>3. r \in Type /\ r.tier = "tier0" /\ r.state = "functional"
    BY <1>1, <2>2
  <2>4. CriticalGap(F) => r.vmRequired
    BY <1>1, <2>2
  <2>5. DetectedState(F, r) = "functional"
    BY <1>3, <2>3, <2>4 DEF DetectedState
  <2> QED BY <1>3, <2>3, <2>4, <2>5 DEF States, Launchable, r
<1>4. CASE "Hypervisor" \notin F /\ F \cap NativeFrameworks = {}
  <2>1. Rows
    BY <1>4 DEF Strategy, Category, NativeFrameworks
  <2> HIDE DEF s, r
  <2>2. /\ s \in Type /\ s.tier \in Tiers \ {"tier0", "tier4"}
        /\ s.state \in Launchable
        /\ s.tier = "tier4b" => s.vmRequired
    <3>1. CASE Row("tier4b", "tier4", TRUE, "degraded")
      BY <3>1 DEF Advice, Tiers, States, Launchable
    <3>2. CASE Row("tier2", "tier4b", FALSE, "partial")
      BY <3>2 DEF Advice, Tiers, States, Launchable
    <3>3. CASE Row("tier3", "tier3", FALSE, "functional")
      BY <3>3 DEF Advice, Tiers, States, Launchable
    <3>4. CASE Row("tier1", "tier3", FALSE, "functional")
      BY <3>4 DEF Advice, Tiers, States, Launchable
    <3> QED BY <2>1, <3>1, <3>2, <3>3, <3>4
  <2>3. /\ r \in Type /\ r.tier \in Tiers \ {"tier0", "tier4"}
        /\ r.state \in Launchable
        /\ r.tier = "tier4b" => r.vmRequired
        /\ CriticalGap(F) => r.vmRequired
    BY <1>1, <2>2
  <2>4. DetectedState(F, r) \in Launchable
    BY <1>4, <2>3 DEF DetectedState
  <2> QED BY <1>4, <2>3, <2>4 DEF States, Launchable, r
<1> QED BY <1>2, <1>3, <1>4

\* What the detector sees of an application is a set of its frameworks, and the
\* bundle identifier is the application's.
LEMMA SignalsAreTyped ==
  \A a \in Apps, d \in Disks :
    /\ Frameworks(Signals(a, d)) \in SUBSET FrameworkIds
    /\ Signals(a, d).id \in BundleIds
<1> SUFFICES ASSUME NEW a \in Apps, NEW d \in Disks
             PROVE  /\ Frameworks(Signals(a, d)) \in SUBSET FrameworkIds
                    /\ Signals(a, d).id \in BundleIds
  OBVIOUS
<1>1. IsApp(a)
  BY AppsAssumption
<1>2. Signals(a, d).id = a.id
  BY <1>1 DEF IsApp, Signals
<1> QED BY <1>1, <1>2 DEF IsApp, Frameworks

-------------------------------------------------------------------------------
\* The steps, one invariant at a time.

\* A detection that was run is a value of its type.
LEMMA DetectionIsTyped ==
  ASSUME TypeOK, Detect
  PROVE  detection' \in Recommendations
<1>1. CASE ~disk.plist
  <2>1. PICK t \in Garbage(Tiers) :
          detection' = [Undetected(t) EXCEPT !.state = "unsupported"]
    BY <1>1 DEF Detect
  <2> QED BY <2>1 DEF Undetected, Detection, Advice, Recommendations, Tiers, States,
       BundleIds
<1>2. CASE disk.plist
  <2> DEFINE g == Signals(app, disk)
             F == Frameworks(g)
             r == Recommendation(F, g.arch)
  <2>1. detection' = Detection(F, r, DetectedState(F, r), g.id)
    BY <1>2 DEF Detect
  <2>2. F \in SUBSET FrameworkIds /\ g.id \in BundleIds
    BY SignalsAreTyped DEF TypeOK
  <2> HIDE DEF F, g
  <2>3. /\ r \in [tier : Tiers, fallback : Tiers, vmRequired : BOOLEAN, state : States]
        /\ DetectedState(F, r) \in States
    BY <2>2, MatrixIsSound
  <2> HIDE DEF r
  <2> QED BY <2>1, <2>2, <2>3 DEF Detection, Recommendations, Garbage
<1> QED BY <1>1, <1>2

\* What the database answers with a record is a tier and a state of its own types.
LEMMA RecordIsTyped ==
  \A r \in Matches : r.kind = "record" => r.tier \in RecordTiers /\ r.state \in States
<1> SUFFICES ASSUME NEW r \in Matches, r.kind = "record"
             PROVE  r.tier \in RecordTiers /\ r.state \in States
  OBVIOUS
<1>1. IsMatch(r)
  BY MatchesAssumption
<1>2. NoMatch.kind # "record" /\ Throws.kind # "record"
  BY DEF NoMatch, Throws
<1>3. r \notin {NoMatch, Throws}
  BY <1>2
<1> QED BY <1>1, <1>3 DEF IsMatch

\* Every step keeps the types.
LEMMA TypeStep ==
  ASSUME TypeOK, [Next]_vars
  PROVE  TypeOK'
<1>1. CASE ChangeDisk
  BY <1>1, MaxChangesAssumption DEF TypeOK, ChangeDisk, inputs, adapter
<1>2. CASE Resolve
  <2>1. CASE disk.plist
    BY <1>2, <2>1 DEF TypeOK, Resolve, inputs, adapter
  <2>2. CASE ~disk.plist
    <3>1. PICK t \in Garbage(Tiers) : detection' = Undetected(t)
      BY <1>2, <2>2 DEF Resolve
    <3>2. detection' \in Recommendations
      BY <3>1 DEF Undetected, Detection, Advice, Recommendations, Tiers, States, BundleIds
    <3>3. PICK st \in Garbage(States) : plan' = Abandoned(st)
      BY <1>2, <2>2 DEF Resolve
    <3>4. plan' \in Plans
      BY <3>3 DEF Abandoned, Plans, Backends
    <3> QED BY <1>2, <2>2, <3>2, <3>4 DEF TypeOK, Resolve, inputs, adapter
  <2> QED BY <2>1, <2>2
<1>3. CASE Detect
  <2>1. detection' \in Recommendations
    BY <1>3, DetectionIsTyped
  <2> QED BY <1>3, <2>1 DEF TypeOK, Detect, inputs, adapter
<1>4. CASE LookupThrows
  BY <1>4 DEF TypeOK, LookupThrows, inputs, adapter
<1>5. CASE LookupMatches
  <2>1. match.tier \in RecordTiers /\ match.state \in States
    BY <1>5, RecordIsTyped DEF TypeOK, LookupMatches
  <2>2. RecordTier(match.tier) \in Garbage(Tiers)
    BY <2>1 DEF RecordTier, RecordTiers, Garbage, Tiers
  <2>3. detection' \in Recommendations /\ plan' \in Plans
    BY <1>5, <2>1, <2>2 DEF TypeOK, LookupMatches, Recommendations, Plans
  <2> QED BY <1>5, <2>3 DEF TypeOK, LookupMatches, inputs, adapter
<1>6. CASE LookupFindsNothing
  BY <1>6 DEF TypeOK, LookupFindsNothing, inputs, adapter
<1>7. CASE Select
  <2>1. \A t : TierToBackend(t) \in Backends
    BY DEF TierToBackend, Backends
  <2>2. Capabilities(detection.frameworks) \subseteq {"gpu_disabled", "autoupdater_disabled"}
    BY DEF Capabilities
  <2>3. CanLaunch(detection.state, TierToBackend(detection.tier)) \in BOOLEAN
    BY DEF CanLaunch
  <2>4. plan' \in Plans
    BY <1>7, <2>1, <2>2, <2>3 DEF TypeOK, Select, Plans, Recommendations, Garbage
  <2> QED BY <1>7, <2>4 DEF TypeOK, Select, inputs, adapter
<1>8. CASE Report
  BY <1>8 DEF TypeOK, Report, inputs, adapter
<1>9. CASE NotImplemented
  BY <1>9 DEF TypeOK, NotImplemented, inputs, adapter
<1>10. CASE Configure
  <2>1. target' \in CodeNames \cup {"."}
    BY <1>10 DEF Configure, CodeAt, CodeNames
  <2>2. shims' \subseteq {"disable-gpu", "disable-sparkle"}
    BY <1>10 DEF Configure, Shims
  <2> QED BY <1>10, <2>1, <2>2 DEF TypeOK, Configure, inputs
<1>11. CASE Execute
  BY <1>11 DEF TypeOK, Execute, inputs, adapter
<1>12. CASE ExecuteFails
  BY <1>12 DEF TypeOK, ExecuteFails, inputs, adapter
<1>13. CASE Finish
  BY <1>13 DEF TypeOK, Finish, inputs, adapter
<1>14. CASE AppEnds
  BY <1>14 DEF TypeOK, AppEnds, inputs, adapter
<1>15. CASE UNCHANGED vars
  BY <1>15 DEF vars, inputs, adapter, TypeOK
<1> QED BY <1>1, <1>2, <1>3, <1>4, <1>5, <1>6, <1>7, <1>8, <1>9, <1>10, <1>11, <1>12, <1>13, <1>14, <1>15 DEF Next

\* What the detector concludes, from a bundle that is there or from none.
LEMMA DetectJudges ==
  ASSUME TypeOK, Undisturbed, Overridden, Planned, Detect
  PROVE  Judged' /\ Undisturbed' /\ GapsNeedVm'
<1>1. CASE ~disk.plist
  <2>1. PICK t \in Garbage(Tiers) :
          detection' = [Undetected(t) EXCEPT !.state = "unsupported"]
    BY <1>1 DEF Detect
  <2>2. detection'.state = "unsupported" /\ detection'.frameworks = {}
    BY <2>1 DEF Undetected, Detection, Advice
  <2>3. changes' # 0
    BY <1>1 DEF Detect, Undisturbed
  <2> QED BY <2>2, <2>3 DEF Judged, Undisturbed, GapsNeedVm, Launchable, CriticalGap
<1>2. CASE disk.plist
  <2> DEFINE g == Signals(app, disk)
             F == Frameworks(g)
             r == Recommendation(F, g.arch)
  <2>1. detection' = Detection(F, r, DetectedState(F, r), g.id)
    BY <1>2 DEF Detect
  <2>2. F \in SUBSET FrameworkIds
    BY SignalsAreTyped DEF TypeOK
  <2>3. F' = F
    BY DEF Detect, inputs
  <2>4. /\ r \in [tier : Tiers, fallback : Tiers, vmRequired : BOOLEAN, state : States]
        /\ CriticalGap(F) => r.vmRequired
        /\ r.tier = "tier0" => F \cap NativeFrameworks # {}
        /\ r.tier = "tier4b" => r.vmRequired
        /\ "Hypervisor" \in F => DetectedState(F, r) = "unsupported"
        /\ "Hypervisor" \notin F => DetectedState(F, r) \in Launchable /\ r.tier # "tier4"
    <3> HIDE DEF F, g
    <3> QED BY <2>2, MatrixIsSound
  <2>5. /\ detection'.frameworks = F /\ detection'.tier = r.tier
        /\ detection'.vmRequired = r.vmRequired /\ detection'.state = DetectedState(F, r)
    BY <2>1 DEF Detection
  <2>6. pc' = "lookup" /\ plan' = plan /\ changes' = changes
    BY DEF Detect
  <2>7. Judged'
    <3> HIDE DEF F, g, r
    <3> QED BY <2>4, <2>5 DEF Judged, Launchable
  <2>8. GapsNeedVm'
    <3> HIDE DEF F, g, r
    <3> QED BY <2>4, <2>5 DEF GapsNeedVm
  <2>9. F' = Frameworks(Signals(app, disk))'
    OBVIOUS
  <2>10. Undisturbed'
    <3> HIDE DEF F, g, r
    <3> QED BY <2>3, <2>4, <2>5, <2>6, <2>9 DEF Undisturbed
  <2> QED BY <2>7, <2>8, <2>10
<1> QED BY <1>1, <1>2

\* Every step keeps the plan true to the detection, and the detection to the bundle.
LEMMA DecisionStep ==
  ASSUME TypeOK, Judged, Undisturbed, Overridden, Planned, GapsNeedVm, [Next]_vars
  PROVE  (Judged /\ Undisturbed /\ Overridden /\ Planned /\ GapsNeedVm)'
<1>1. CASE ChangeDisk
  <2>1. changes' # 0
    BY <1>1, MaxChangesAssumption DEF TypeOK, ChangeDisk
  <2> QED BY <1>1, <2>1 DEF ChangeDisk, inputs, adapter, Judged, Undisturbed, Overridden,
             Planned, GapsNeedVm, Detected
<1>2. CASE Resolve
  <2>1. CASE disk.plist
    BY <1>2, <2>1 DEF Resolve, inputs, adapter, Judged, Undisturbed, Overridden,
         Planned, GapsNeedVm, Detected
  <2>2. CASE ~disk.plist
    <3>1. PICK t \in Garbage(Tiers) : detection' = Undetected(t)
      BY <1>2, <2>2 DEF Resolve
    <3>2. detection'.frameworks = {}
      BY <3>1 DEF Undetected, Detection
    <3>3. PICK st \in Garbage(States) : plan' = Abandoned(st)
      BY <1>2, <2>2 DEF Resolve
    <3>4. ~plan'.matched
      BY <3>3 DEF Abandoned
    <3>5. ~ok' /\ pc' = "report"
      BY <1>2, <2>2 DEF Resolve, Planned
    <3> QED BY <3>2, <3>4, <3>5 DEF CriticalGap, Judged, Undisturbed, Overridden,
         Planned, GapsNeedVm, Detected
  <2> QED BY <2>1, <2>2
<1>3. CASE Detect
  <2>1. Overridden' /\ Planned'
    BY <1>3 DEF Detect, Overridden, Planned
  <2> QED BY <1>3, <2>1, DetectJudges
<1>4. CASE LookupThrows
  BY <1>4 DEF LookupThrows, inputs, adapter, Judged, Undisturbed, Overridden, Planned,
       GapsNeedVm, Detected
<1>5. CASE LookupMatches
  <2>1. plan'.matched
    BY <1>5 DEF LookupMatches, TypeOK, Plans
  <2>2. /\ detection'.tier = RecordTier(match.tier) /\ detection'.state = match.state
        /\ detection'.frameworks = detection.frameworks
        /\ detection'.vmRequired = detection.vmRequired
    BY <1>5 DEF LookupMatches, TypeOK, Recommendations
  <2>3. match.kind = "record" /\ match' = match /\ ~ok' /\ pc' = "select"
    BY <1>5 DEF LookupMatches, Planned, inputs
  <2>4. Judged' /\ Undisturbed'
    BY <2>1, <2>3 DEF Judged, Undisturbed
  <2>5. Overridden'
    BY <2>2, <2>3 DEF Overridden
  <2>6. Planned' /\ GapsNeedVm'
    BY <2>2, <2>3 DEF Planned, GapsNeedVm
  <2> QED BY <2>4, <2>5, <2>6
<1>6. CASE LookupFindsNothing
  BY <1>6 DEF LookupFindsNothing, inputs, adapter, Judged, Undisturbed, Overridden,
       Planned, GapsNeedVm, Detected
<1>7. CASE Select
  <2> DEFINE backend == TierToBackend(detection.tier)
  <2>1. /\ plan'.matched = plan.matched
        /\ plan'.backend = backend
        /\ plan'.state = detection.state
        /\ plan'.canLaunch = CanLaunch(detection.state, backend)
        /\ plan'.vmRequired = detection.vmRequired
        /\ plan'.caps = Capabilities(detection.frameworks)
    BY <1>7 DEF Select
  <2>2. /\ detection' = detection /\ pc = "select" /\ pc' = "report"
        /\ match' = match /\ app' = app /\ disk' = disk /\ changes' = changes
    BY <1>7 DEF Select, inputs
  <2>3. Judged' /\ Undisturbed' /\ Overridden' /\ GapsNeedVm'
    BY <2>1, <2>2 DEF Judged, Undisturbed, Overridden, GapsNeedVm, Detected
  <2>4. Planned'
    BY <2>1, <2>2 DEF Planned
  <2> QED BY <2>3, <2>4
<1>8. CASE Report
  BY <1>8 DEF Report, inputs, adapter, Judged, Undisturbed, Overridden, Planned,
       GapsNeedVm, Detected
<1>9. CASE NotImplemented
  BY <1>9 DEF NotImplemented, inputs, adapter, Judged, Undisturbed, Overridden,
       Planned, GapsNeedVm, Detected
<1>10. CASE Configure
  BY <1>10 DEF Configure, inputs, adapter, Judged, Undisturbed, Overridden, Planned,
       GapsNeedVm, Detected
<1>11. CASE Execute
  BY <1>11 DEF Execute, inputs, adapter, Judged, Undisturbed, Overridden, Planned,
       GapsNeedVm, Detected
<1>12. CASE ExecuteFails
  BY <1>12 DEF ExecuteFails, inputs, adapter, Judged, Undisturbed, Overridden, Planned,
       GapsNeedVm, Detected
<1>13. CASE Finish
  BY <1>13 DEF Finish, inputs, adapter, Judged, Undisturbed, Overridden, Planned,
       GapsNeedVm, Detected
<1>14. CASE AppEnds
  BY <1>14 DEF AppEnds, inputs, adapter, Judged, Undisturbed, Overridden, Planned,
       GapsNeedVm, Detected
<1>15. CASE UNCHANGED vars
  BY <1>15 DEF vars, inputs, adapter, Judged, Undisturbed, Overridden, Planned,
       GapsNeedVm, Detected
<1> QED BY <1>1, <1>2, <1>3, <1>4, <1>5, <1>6, <1>7, <1>8, <1>9, <1>10, <1>11, <1>12, <1>13, <1>14, <1>15 DEF Next

\* Every step leaves an exit code that fits what was started.
LEMMA ProgressStep ==
  ASSUME TypeOK, Planned, Progress, ExitTellsTheTruth, [Next]_vars
  PROVE  Progress' /\ ExitTellsTheTruth'
<1>1. CASE ChangeDisk
  BY <1>1 DEF TypeOK, ChangeDisk, inputs, adapter, Planned, Progress,
       ExitTellsTheTruth, Shims
<1>2. CASE Resolve
  BY <1>2 DEF TypeOK, Resolve, inputs, adapter, Planned, Progress, ExitTellsTheTruth,
       Shims
<1>3. CASE Detect
  BY <1>3 DEF TypeOK, Detect, inputs, adapter, Planned, Progress, ExitTellsTheTruth, Shims
<1>4. CASE LookupThrows
  BY <1>4 DEF TypeOK, LookupThrows, inputs, adapter, Planned, Progress,
       ExitTellsTheTruth, Shims
<1>5. CASE LookupMatches
  BY <1>5 DEF TypeOK, LookupMatches, inputs, adapter, Planned, Progress,
       ExitTellsTheTruth, Shims
<1>6. CASE LookupFindsNothing
  BY <1>6 DEF TypeOK, LookupFindsNothing, inputs, adapter, Planned, Progress,
       ExitTellsTheTruth, Shims
<1>7. CASE Select
  BY <1>7 DEF TypeOK, Select, inputs, adapter, Planned, Progress, ExitTellsTheTruth, Shims
<1>8. CASE Report
  BY <1>8 DEF TypeOK, Report, inputs, adapter, Planned, Progress, ExitTellsTheTruth, Shims
<1>9. CASE NotImplemented
  BY <1>9 DEF TypeOK, NotImplemented, inputs, adapter, Planned, Progress,
       ExitTellsTheTruth, Shims
<1>10. CASE Configure
  <2>1. plan' = plan /\ settings' = settings /\ shims' = Shims(plan.caps)
    BY <1>10 DEF Configure, inputs
  <2>2. Shims(plan.caps)' = Shims(plan.caps)
    BY <2>1 DEF Shims
  <2>3. Progress'
    BY <1>10, <2>1, <2>2 DEF Configure, inputs, Progress
  <2>4. ExitTellsTheTruth'
    BY <1>10 DEF Configure, inputs, Progress, ExitTellsTheTruth
  <2> QED BY <2>3, <2>4
<1>11. CASE Execute
  BY <1>11 DEF TypeOK, Execute, inputs, adapter, Planned, Progress, ExitTellsTheTruth,
       Shims
<1>12. CASE ExecuteFails
  BY <1>12 DEF TypeOK, ExecuteFails, inputs, adapter, Planned, Progress,
       ExitTellsTheTruth, Shims
<1>13. CASE Finish
  BY <1>13 DEF TypeOK, Finish, inputs, adapter, Planned, Progress, ExitTellsTheTruth,
       Shims
<1>14. CASE AppEnds
  BY <1>14 DEF TypeOK, AppEnds, inputs, adapter, Planned, Progress, ExitTellsTheTruth,
       Shims
<1>15. CASE UNCHANGED vars
  BY <1>15 DEF vars, inputs, adapter, Progress, ExitTellsTheTruth, Shims
<1> QED BY <1>1, <1>2, <1>3, <1>4, <1>5, <1>6, <1>7, <1>8, <1>9, <1>10, <1>11, <1>12, <1>13, <1>14, <1>15 DEF Next

-------------------------------------------------------------------------------
\* The invariant holds initially and is kept.
THEOREM InvariantHolds == Spec => []IInv
<1>1. Init => IInv
  <2> SUFFICES ASSUME Init PROVE IInv
    OBVIOUS
  <2>1. detection = Undetected("unknown") /\ plan = Abandoned("unknown")
    BY DEF Init
  <2>2. detection \in Recommendations /\ detection.frameworks = {}
    BY <2>1 DEF Undetected, Detection, Advice, Recommendations, Garbage, Tiers, States,
         BundleIds
  <2>3. plan \in Plans /\ ~plan.matched
    BY <2>1 DEF Abandoned, Plans, Backends, Garbage
  <2>4. TypeOK
    <3>1. changes \in 0 .. MaxChanges
      BY MaxChangesAssumption DEF Init
    <3> QED BY <2>2, <2>3, <3>1 DEF Init, TypeOK, inputs
  <2>5. GapsNeedVm
    BY <2>2 DEF GapsNeedVm, CriticalGap
  <2> QED BY <2>3, <2>4, <2>5 DEF Init, IInv, Judged, Undisturbed, Detected, Overridden,
             Planned, Progress, ExitTellsTheTruth
<1>2. IInv /\ [Next]_vars => IInv'
  BY TypeStep, DecisionStep, ProgressStep DEF IInv
<1> QED BY <1>1, <1>2, PTL DEF Spec

\* TypeOK: the plan and the adapter keep the types of the headers (macrun_types.hpp,
\* types.hpp), whatever the unset fields of an abandoned plan hold.
THEOREM TypeCorrect == Spec => []TypeOK
<1>1. IInv => TypeOK
  BY DEF IInv
<1> QED BY <1>1, InvariantHolds, PTL

\* ExitTellsTheTruth: main's exit code, the child and --wait agree.
THEOREM ExitTellsTheTruthAlways == Spec => []ExitTellsTheTruth
<1>1. IInv => ExitTellsTheTruth
  BY DEF IInv
<1> QED BY <1>1, InvariantHolds, PTL

\* LaunchIsJustified: execute_plan starts an application only on a verdict of the
\* database or of the detector, never on a tier that nobody set.
THEOREM LaunchIsJustifiedAlways == Spec => []LaunchIsJustified
<1>1. IInv => LaunchIsJustified
  <2> SUFFICES ASSUME IInv, child # "none" PROVE LaunchIsJustified
    BY DEF LaunchIsJustified
  <2>1. ok /\ plan.canLaunch /\ plan.backend = "ElectronRuntime"
    BY DEF IInv, Progress
  <2>2. /\ TierToBackend(detection.tier) = "ElectronRuntime"
        /\ detection.state \notin {"unsupported", "broken"}
    BY <2>1 DEF IInv, Planned, CanLaunch
  <2>3. detection.tier = "tier0" /\ detection.state \in Launchable
    <3>1. detection.state \in States
      BY DEF IInv, TypeOK, Recommendations
    <3> QED BY <2>2, <3>1 DEF TierToBackend, Launchable
  <2>4. CASE plan.matched
    <3>1. match.tier \in RecordTiers
      BY <2>4, RecordIsTyped DEF IInv, TypeOK, Overridden
    <3>2. RecordTier(match.tier) = "tier0" /\ match.state \in Launchable
      BY <2>3, <2>4 DEF IInv, Overridden
    <3>3. match.tier = "native-substitution"
      BY <3>1, <3>2 DEF RecordTier, RecordTiers
    <3> QED BY <2>1, <2>4, <3>2, <3>3 DEF LaunchIsJustified
  <2>5. CASE ~plan.matched
    BY <2>1, <2>3, <2>5 DEF IInv, Judged, Detected, LaunchIsJustified
  <2> QED BY <2>4, <2>5
<1> QED BY <1>1, InvariantHolds, PTL

\* DecisionIsRight: can_launch is the record's verdict, or else the detector's.
THEOREM DecisionIsRightAlways == Spec => []DecisionIsRight
<1>1. IInv => DecisionIsRight
  <2> SUFFICES ASSUME IInv, ok PROVE DecisionIsRight
    BY DEF DecisionIsRight
  <2>1. plan.canLaunch = CanLaunch(detection.state, TierToBackend(detection.tier))
    BY DEF IInv, Planned
  <2>2. detection.state \in States
    BY DEF IInv, TypeOK, Recommendations
  <2>3. plan.canLaunch <=>
          (detection.state \in Launchable /\ TierToBackend(detection.tier) # "None")
    BY <2>1, <2>2 DEF CanLaunch, Launchable
  <2>4. CASE plan.matched
    <3>1. match.tier \in RecordTiers
      BY <2>4, RecordIsTyped DEF IInv, TypeOK, Overridden
    <3>2. detection.tier = RecordTier(match.tier) /\ detection.state = match.state
      BY <2>4 DEF IInv, Overridden
    <3>3. TierToBackend(RecordTier(match.tier)) = "None" <=> match.tier = "unsupported"
      BY <3>1 DEF RecordTier, RecordTiers, TierToBackend
    <3> QED BY <2>3, <2>4, <3>2, <3>3 DEF DecisionIsRight
  <2>5. CASE ~plan.matched
    <3>1. plan.canLaunch => "Hypervisor" \notin detection.frameworks
      BY <2>3, <2>5 DEF IInv, Judged, Detected
    <3>2. ASSUME changes = 0
          PROVE  plan.canLaunch <=> "Hypervisor" \notin Frameworks(Signals(app, disk))
      <4>1. /\ detection.frameworks = Frameworks(Signals(app, disk))
            /\ "Hypervisor" \notin detection.frameworks =>
                 detection.state \in Launchable /\ detection.tier \in Tiers \ {"tier4"}
        BY <2>5, <3>2 DEF IInv, Undisturbed, Detected
      <4>2. detection.tier \in Tiers \ {"tier4"} => TierToBackend(detection.tier) # "None"
        BY DEF TierToBackend, Tiers
      <4> QED BY <2>3, <3>1, <4>1, <4>2
    <3> QED BY <2>5, <3>1, <3>2 DEF DecisionIsRight
  <2> QED BY <2>4, <2>5
<1> QED BY <1>1, InvariantHolds, PTL

\* VmIsAnnounced: the override of a record takes no gap out of the plan.
THEOREM VmIsAnnouncedAlways == Spec => []VmIsAnnounced
<1>1. IInv => VmIsAnnounced
  <2> SUFFICES ASSUME IInv, ok PROVE VmIsAnnounced
    BY DEF VmIsAnnounced
  <2>1. plan.vmRequired = detection.vmRequired
    BY DEF IInv, Planned
  <2>2. CriticalGap(detection.frameworks) => plan.vmRequired
    BY <2>1 DEF IInv, GapsNeedVm
  <2>3. ASSUME plan.canLaunch, plan.backend = "VMAssisted", ~plan.matched
        PROVE  plan.vmRequired
    <3>1. detection.state \in Launchable
      BY <2>3 DEF IInv, Planned, CanLaunch, TypeOK, Recommendations, Launchable
    <3>2. TierToBackend(detection.tier) = "VMAssisted"
      BY <2>3 DEF IInv, Planned
    <3>3. detection.tier = "tier4b"
      BY <3>2 DEF TierToBackend
    <3> QED BY <2>1, <2>3, <3>1, <3>3 DEF IInv, Judged, Detected
  <2> QED BY <2>2, <2>3 DEF VmIsAnnounced
<1> QED BY <1>1, InvariantHolds, PTL

\* RisksReachTheApp: the shims of a started application are those that the detected
\* risks ask for, whoever chose its backend.
THEOREM RisksReachTheAppAlways == Spec => []RisksReachTheApp
<1>1. IInv => RisksReachTheApp
  <2> SUFFICES ASSUME IInv, child # "none" PROVE RisksReachTheApp
    BY DEF RisksReachTheApp
  <2>1. shims = Shims(Capabilities(detection.frameworks))
    BY DEF IInv, Progress, Planned
  <2> QED BY <2>1 DEF RisksReachTheApp, Shims, Capabilities
<1> QED BY <1>1, InvariantHolds, PTL

================================================================================
