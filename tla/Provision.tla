------------------------------- MODULE Provision -------------------------------
(***************************************************************************)
(* macrun provision (tooling/macrun-cli/provision.cpp) and the launch that *)
(* comes after it.  provision decides which Electron the application is    *)
(* for, looks up every native module in the registry, builds those that are*)
(* governed (NativeBuilder) and writes them to the cache; it goes on after *)
(* every failure and always returns 0.  The launch decides by itself which *)
(* Electron it runs, and looks in the cache for what was built for that    *)
(* one (ElectronAdapter::scan_and_plan_native_modules).  The two agree only*)
(* through the cache key, which contains the text of the version.          *)
(*                                                                         *)
(* The magic of an ELF module is compared in the wrong byte order (see     *)
(* NativeStaging), so that provision's first skip, of modules that are     *)
(* already ELF, is never taken and is left out.  What happens to an entry  *)
(* between probes and writes of several processes is NativeCache's subject;*)
(* what the launch does with its plan, NativeStaging's.                    *)
(***************************************************************************)
EXTENDS NativeBuilder

CONSTANTS
  Situations   \* what provision may find, see IsSituation

NotSet == <<99>>    \* a variable or a flag that is not there
Default == <<28, 3, 3>>

\* A governed version as find_replacement returns it: npm is the text that goes
\* into the key, shim is shim_type = "napi", and spec the rest of the BuildSpec.
IsReplacement(g) ==
  /\ IsGoverned(g)
  /\ DOMAIN g = {"electrons", "bad", "nmv", "npm", "shim", "spec"}
  /\ g.npm \in STRING /\ g.shim \in BOOLEAN
  /\ \A v \in Versions \cup {AutoVersion} : [g.spec EXCEPT !.electron = v] \in Orders

\* modules: those beside app.asar, in the order of the scan; packed: those inside
\* it, which only the launch unpacks; stubs: always_stub; shims: those with a file
\* under shims/.
IsSituation(s) ==
  /\ DOMAIN s = {"modules", "packed", "stubs", "shims", "registry", "env", "flag",
                 "detected", "force"}
  /\ s.modules \in Seq(STRING)
  /\ s.packed \cup s.stubs \cup s.shims \subseteq STRING
  /\ \A m \in DOMAIN s.registry :
       /\ s.registry[m] \in Seq({s.registry[m][i] : i \in DOMAIN s.registry[m]})
       /\ \A i \in DOMAIN s.registry[m] : IsReplacement(s.registry[m][i])
  /\ {s.env, s.flag} \subseteq Versions \cup {AutoVersion, NotSet}
  /\ s.detected \in Versions \cup {AutoVersion}
  /\ s.force \in BOOLEAN

ASSUME SituationsAssumption == \A s \in Situations : IsSituation(s)
ASSUME VersionsCoverAssumption == Default \in Versions /\ NotSet \notin Versions

VARIABLES
  situation,
  pc,          \* where provision_command is
  electron,    \* electron_version
  rest,        \* the modules that the loop has not reached
  tally,       \* built, skipped, failed
  entries,     \* the cache: a function from keys to what is stored
  runtime,     \* the launch's resolved_version_
  plan         \* the launch's native_plan_: an action for each module

mine == <<situation, pc, electron, rest, tally, entries, runtime, plan>>
vars == <<buildVars, mine>>

-------------------------------------------------------------------------------
\* Types

Scanned == {situation.modules[i] : i \in DOMAIN situation.modules}

Modules == Scanned \cup situation.packed

NewEntry == [binary |-> result.binary, headers |-> work.headers, version |-> work.version]

TypeOK ==
  /\ BuildTypeOK
  /\ situation \in Situations
  /\ pc \in {"begin", "loop", "building", "over", "launched", "refused"}
  /\ electron \in Versions \cup {AutoVersion}
  /\ rest \in Seq(STRING)
  /\ tally \in [built : Nat, skipped : Nat, failed : Nat]
  /\ tally.built + tally.skipped + tally.failed + Len(rest) <= Len(situation.modules)
  /\ \A k \in DOMAIN entries :
       /\ k \in Scanned \X STRING \X (Versions \cup {AutoVersion})
       /\ entries[k].binary \in Nodes
       /\ entries[k].headers \in {"none", "asked", "nearest", "elsewhere"}
       /\ entries[k].version \in Versions \cup {AutoVersion}
  /\ runtime \in Versions \cup {AutoVersion}
  /\ pc = "launched" =>
       plan \in [Modules -> {"stub", "shim", "cached", "provision_needed"}]

-------------------------------------------------------------------------------
\* Decisions

\* Seeded bug: the detected version is asked before the record.
ElectronForDetectedFirst(s) ==
  IF s.env # NotSet THEN s.env
  ELSE IF s.detected # AutoVersion THEN s.detected
  ELSE IF s.flag # NotSet THEN s.flag ELSE Default

\* The version provision builds for.
ElectronFor(s) ==
  IF s.env # NotSet THEN s.env
  ELSE IF s.flag # NotSet THEN s.flag
  ELSE IF s.detected # AutoVersion THEN s.detected ELSE Default

\* The version the launch looks for: resolve_runtime_version with what was
\* detected, initialize with the record's flag, then the environment.
Wanted(s) ==
  IF s.env # NotSet THEN s.env
  ELSE IF s.flag # NotSet THEN s.flag ELSE s.detected

Found(m, v) ==
  IF m \in DOMAIN situation.registry
  THEN Replacement(situation.registry[m], v, world.abi_map) ELSE NoneFits

Governed(m, v) == situation.registry[m][Found(m, v)]

\* compute_cache_key, less the architecture and the host's glibc.
Key(m, v) == <<m, Governed(m, v).npm, v>>

Dropped(m, v) == m \in situation.stubs \/ Found(m, v) = NoneFits

\* scan_and_plan_native_modules, for one module.
Planned(m, v) ==
  IF Dropped(m, v) THEN "stub"
  ELSE IF Governed(m, v).shim /\ m \in situation.shims THEN "shim"
  ELSE IF Key(m, v) \in DOMAIN entries THEN "cached" ELSE "provision_needed"

-------------------------------------------------------------------------------
\* The command

Init ==
  /\ BuildInit
  /\ situation \in Situations
  /\ pc = "begin" /\ electron = AutoVersion /\ rest = <<>>
  /\ tally = [built |-> 0, skipped |-> 0, failed |-> 0]
  /\ entries = <<>>
  /\ runtime = AutoVersion /\ plan = <<>>

\* HOME is not set, no framework is detected, or load_directory throws.
Refused ==
  /\ pc = "begin"
  /\ pc' = "refused"
  /\ UNCHANGED <<buildVars, situation, electron, rest, tally, entries, runtime, plan>>

\* Modules inside app.asar are not seen: it is not extracted here.
Begin ==
  /\ pc = "begin"
  /\ pc' = "loop"
  /\ electron' = ElectronFor(situation)
  /\ rest' = situation.modules
  /\ UNCHANGED <<buildVars, situation, tally, entries, runtime, plan>>

\* A stub, an unknown module, or one that is in the cache.
Skips(m) ==
  IF Dropped(m, electron) THEN TRUE
  ELSE Key(m, electron) \in DOMAIN entries /\ ~situation.force

Skip ==
  /\ pc = "loop" /\ rest # <<>>
  /\ Skips(Head(rest))
  /\ rest' = Tail(rest)
  /\ tally' = [tally EXCEPT !.skipped = @ + 1]
  /\ UNCHANGED <<buildVars, situation, pc, electron, entries, runtime, plan>>

StartBuild ==
  /\ pc = "loop" /\ rest # <<>>
  /\ ~Skips(Head(rest))
  /\ Call([Governed(Head(rest), electron).spec EXCEPT !.electron = electron])
  /\ pc' = "building"
  /\ UNCHANGED <<situation, electron, rest, tally, entries, runtime, plan>>

\* The cache once write_to_cache has got through.
Stored(k) == [j \in DOMAIN entries \cup {k} |-> IF j = k THEN NewEntry ELSE entries[j]]

\* Seeded bug: a build that is not stored is counted as failed, too.
EndBuildCountsTwice ==
  /\ pc = "building" /\ step = "idle"
  /\ pc' = "loop" /\ rest' = Tail(rest)
  /\ \E stored \in BOOLEAN :
       /\ stored => result.success
       /\ tally' = [tally EXCEPT !.built = IF result.success THEN @ + 1 ELSE @,
                                 !.failed = IF stored THEN @ ELSE @ + 1]
       /\ entries' = IF stored THEN Stored(Key(Head(rest), electron)) ELSE entries
  /\ UNCHANGED <<buildVars, situation, electron, runtime, plan>>

\* Seeded bug: a failed build is tried again, and nothing counts the attempts.
EndBuildRetries ==
  /\ pc = "building" /\ step = "idle"
  /\ pc' = "loop"
  /\ \/ /\ result.success
        /\ rest' = Tail(rest)
        /\ tally' = [tally EXCEPT !.built = @ + 1]
        /\ entries' = Stored(Key(Head(rest), electron))
     \/ ~result.success /\ UNCHANGED <<rest, tally, entries>>
  /\ UNCHANGED <<buildVars, situation, electron, runtime, plan>>

\* write_to_cache may fail, and the build is counted all the same.
EndBuild ==
  /\ pc = "building" /\ step = "idle"
  /\ pc' = "loop" /\ rest' = Tail(rest)
  /\ \/ /\ result.success
        /\ tally' = [tally EXCEPT !.built = @ + 1]
        /\ \E stored \in BOOLEAN :
             entries' = IF stored THEN Stored(Key(Head(rest), electron)) ELSE entries
     \/ /\ ~result.success
        /\ tally' = [tally EXCEPT !.failed = @ + 1]
        /\ UNCHANGED entries
  /\ UNCHANGED <<buildVars, situation, electron, runtime, plan>>

Finish ==
  /\ pc = "loop" /\ rest = <<>>
  /\ pc' = "over"
  /\ UNCHANGED <<buildVars, situation, electron, rest, tally, entries, runtime, plan>>

\* The environment, the record and the registry are those of provision; the
\* Electrons in the cache need not be.
Launch ==
  /\ pc = "over" /\ cached # {}
  /\ pc' = "launched"
  /\ \E v \in Runtimes(Wanted(situation), cached) :
       /\ runtime' = v
       /\ plan' = [m \in Modules |-> Planned(m, v)]
  /\ UNCHANGED <<buildVars, situation, electron, rest, tally, entries>>

-------------------------------------------------------------------------------
\* Specification

CommandStep == Refused \/ Begin \/ Skip \/ StartBuild \/ EndBuild \/ Finish

\* What happens to the cache after the launch concerns nobody here.
Next ==
  \/ CommandStep
  \/ Launch
  \/ BuilderStep /\ UNCHANGED mine
  \/ SandboxExits /\ UNCHANGED mine
  \/ \E v \in Installable : Acquire(v) /\ pc # "launched" /\ UNCHANGED mine

Spec == Init /\ [][Next]_vars

\* Both are straight-line code between calls that return, and the deadline of
\* the polling loop comes; nothing makes the compiler end.
FairSpec ==
  /\ Spec
  /\ WF_vars(CommandStep)
  /\ WF_vars(BuilderStep /\ UNCHANGED mine)

-------------------------------------------------------------------------------
\* Properties

\* An entry holds a build of a governed version that is not known to be bad on
\* the Electron in its key, and headers that were asked for are that Electron's.
EntriesAreGoverned ==
  \A k \in DOMAIN entries :
    LET m == k[1] v == k[3] IN
    /\ m \in Scanned \ situation.stubs
    /\ \E i \in DOMAIN situation.registry[m] :
         /\ situation.registry[m][i].npm = k[2]
         /\ TargetMajor(v) \notin situation.registry[m][i].bad
    /\ entries[k].binary.elf
    /\ entries[k].headers = "asked" => entries[k].version = v

\* find_replacement agrees with its reference: a version known to be bad is
\* never the answer, and no other version would be a better one.
AnswersAreBest ==
  \A m \in DOMAIN situation.registry : \A v \in Versions :
    LET governed == situation.registry[m]
        usable == {i \in DOMAIN governed : TargetMajor(v) \notin governed[i].bad}
        found == Found(m, v)
    IN IF usable = {} THEN found = NoneFits
       ELSE found \in usable /\ \A i \in usable : ~Closer(governed, i, found, v, world.abi_map)

\* Where a version is wanted, the runtime keeps its major version if any installed one
\* has it: then it is the very version if that is there, and older than it only if
\* nothing newer has that major version.  Otherwise it is the next higher one, and
\* where none is higher the newest.  (Not the nearest, and not the order
\* of docs/architecture/RUNTIME_NEGOTIATION.md:106-108, in which any higher version
\* comes before a lower one.)
RuntimeKeepsMajor ==
  pc = "launched" /\ Wanted(situation) # AutoVersion =>
    LET wanted == Wanted(situation)
        major == {v \in cached : Major(v) = Major(wanted)}
    IN IF major # {}
       THEN /\ runtime \in major
            /\ \A v \in major : Same(v, wanted) => Same(runtime, v)
            /\ Older(runtime, wanted) => \A v \in major : ~Older(wanted, v)
       ELSE \A v \in cached :
              /\ Older(wanted, runtime) => ~(Older(wanted, v) /\ Older(v, runtime))
              /\ Older(runtime, wanted) => Older(v, wanted) /\ ~Older(runtime, v)

\* If the environment, the record or the detection names a version, and the very
\* version that provision built for is installed, under one name only, the launch runs
\* that one.  A launch that runs the version provision built for, named or not, uses
\* what provision has put into the cache.  Where nothing names a version, the launch runs
\* the newest one and provision builds for 28.3.3: then it may use nothing of it.
ProvisionedIsFound ==
  pc = "launched" =>
    /\ Wanted(situation) # AutoVersion /\ {v \in cached : Same(v, electron)} = {electron}
         => runtime = electron
    /\ runtime = electron
         => \A k \in DOMAIN entries : plan[k[1]] \in {"cached", "shim"}

\* How much is left to do: the modules to come, then what is left of the build of
\* the one that is at work, and of the loop inside it.
Phase == IF pc = "begin" THEN 2 ELSE IF pc \in {"loop", "building"} THEN 1 ELSE 0

StepsLeft ==
  [idle |-> 0, collect |-> 1, reaping |-> 2, waiting |-> 3, compile |-> 4, patches |-> 5,
   dependencies |-> 6, locate |-> 7, unpackHeaders |-> 8, unpack |-> 9, headers |-> 10,
   tarball |-> 11, check |-> 12]

ToDo ==
  <<Phase, Len(rest), IF pc = "loop" THEN 1 ELSE 0, StepsLeft[step], Len(left)>>

Below(a, b) == \E i \in 1..5 : a[i] < b[i] /\ \A j \in 1..(i - 1) : a[j] = b[j]

\* Whatever fails, every step of provision and of the builder leaves less to do,
\* and what others do in between adds nothing: no failure makes it start again.
ProvisionAdvances ==
  [][IF CommandStep \/ (BuilderStep /\ UNCHANGED mine)
     THEN Below(ToDo', ToDo) ELSE UNCHANGED ToDo]_vars

\* provision ends, whatever fails, if every compiler ends that it starts.
ProvisionEnds ==
  []<>(sandbox # "running") => <>(pc \in {"over", "launched", "refused"})

===============================================================================
