# macRun in TLA+

macRun launches macOS applications on Linux. It looks at an application,
decides how it could run (natively as Electron, with Darling, with WebKit, in a
VM), and drives one of four *adapters*; the Electron adapter is the only one
that starts something. This directory models the parts of macRun that hold
state, fail half way, or run beside other processes, checks them with TLC, and
proves the central invariants with TLAPS.

Paths below are relative to the repository (`platform/...`), line numbers
included.

## 1. Inventory

| component | state | operations | talks to |
|---|---|---|---|
| Adapter contract (`platform/adapters/interfaces.hpp`, `darling_`, `qemu_`, `webkit_adapter.cpp`) | `status_` | initialize, start, stop, suspend, resume, destruction | the orchestrator calls it |
| Electron adapter, processes (`platform/adapters/electron_adapter.cpp`) | `status_`, `child_pid_`, `exit_code_`, `use_mocks_`; the kernel's process table | initialize 48, start 87, stop 97, suspend 152, resume 165, execute 1025 (fork at 1445) | the child, its group, SIGCHLD |
| Electron adapter, native modules (same file, `platform/native/native_discovery.cpp`) | the extracted tree, the bundle, `native_plan_`, the degradation report | extract_asar 500, scan_and_plan 653, stage 751, detect 581, record_degradation 1548 | registry, cache, report's reader |
| Native module cache (`platform/native/native_cache.cpp`) | per key: binary, digest, manifest; `.lock` | probe_cache, stage_from_cache, write_to_cache, evict_if_needed | launches and `macrun provision`, other processes |
| `macrun provision` (`tooling/macrun-cli/provision.cpp`) | none of its own | scan, probe, build, write | registry, builder, cache |
| Native builder (`platform/native/native_builder.cpp`) | a temporary directory, child processes | download, extract, build with a timeout, clean up | provision |
| Runtime negotiation (electron_adapter.cpp 293-465), ABI map (`native_abi_db.cpp`), native registry (`compat-db/src/native_registry.cpp`) | tables read once | resolve_runtime_binary, resolve, find_replacement, is_always_stub | launch, provision |
| Orchestrator and backend selection (`platform/macrun/`) | one plan per run | orchestrate, select_backend, execute_plan | detector, compat-db, adapters |
| Capability detector (`platform/detector/`) | none: a pipeline | classify, score, strategy | orchestrator |
| Compatibility database (`compat-db/src/database.cpp`, `validator.cpp`) | records, their indices, the counts and messages of what was refused | load_directory 448, load_file 517, add_record 554, lookups | orchestrator, adapter, `compatctl`; the files' writers |
| LifecycleManager (`runtime/common/lifecycle.cpp`) | a state and pids per substrate | initialize, provision, record_failure, teardown | its tests only |
| Command line, JavaScript shims, acquire scripts, host/vm/runtime placeholders, development tools, vendored JSON | - | - | - |

**How they interact.** The command line calls `orchestrate` (detector, database,
backend) and `execute_plan`, which makes one adapter and calls initialize,
start, execute and later stop. Everything in one macRun process is called from
one thread. The concurrency is between *processes*: the adapter and the
application it forked, with the kernel between them; a launch and one or more
`macrun provision`, with the cache directory between them; and successive
launches, with the disk between them.

**What is hard.** The order of the parent's signals and the child's `setpgid`
and `execvp`; a stop whose deadline races with the child's exit; helpers and
frozen members of the group; several launches by one adapter. Readers without a
lock beside a writer that rewrites files in place; processes that die with the
lock; system calls that fail half way through an entry. Substitutions that fail
or are cut short, on a directory that may be the user's own bundle, and a report
that must still say what was done. PROJECT.json lists every such place
("hazards") with the properties that watch it.

**What makes each component correct.**
- Adapter: Terminated means the application is gone; the exit code is the
  application's; no signal reaches a stranger; nobody stays frozen; stop returns.
- Native modules: nothing Mach-O is launched where the search for it looks; what
  was planned was done; what was done is reported, and a launch found unsafe is never
  reported as a milder one; an asar bundle survives.
- Cache: a settled entry is whole; a hit is whole; nobody waits for ever; what
  was provisioned is used.
- Builder: no compiler starts without package, headers and patches, and it is gone
  before its directory is; a success names an ELF file on the disk; a build that gives
  up before its compiler's verdict leaves nothing under /tmp.
- Negotiation and registry: where a version is wanted and installed, launch and
  provision agree on the cache key; the launch keeps the major version it wants if it
  can; no usable replacement is better, by known ABI distance, than the one chosen.
- Orchestrator, detector: tier, backend and plan agree; errors reach the caller.
- Database: the indices agree with the records, whatever was loaded or rejected;
  the record that decides a launch does not depend on the order of a directory;
  nothing is refused in silence.
- LifecycleManager: a process that was registered is ended, and not forgotten.

## 2. Modules

| module | what it is |
|---|---|
| `AdapterLifecycle` | abstract: what an adapter promises its caller |
| `ElectronAdapter` | the adapter's lifecycle with its processes; implements `AdapterLifecycle` for one launch |
| `NativeStaging` | what execute() does to the native modules before it forks, over several launches |
| `CacheEntry` | abstract: what the lock of the cache promises about an entry |
| `NativeCache` | one cache entry and the processes that share it; implements `CacheEntry` |
| `CompatDatabase` | the compatibility database: loading, validating, indexing |
| `LaunchPipeline` | one run of macrun: detection, database, decision, launch, exit code |
| `VersionNegotiation` | pure operators: versions, the choice of a runtime, the ABI map, find_replacement and its reference definition |
| `NativeBuilder` | build_in_sandbox: from the downloads to the binary, with the compiler as a process of its own |
| `Provision` | composes these two: `macrun provision` with its loop over modules, its builds and its cache, and the launch that comes after it |
| `LifecycleManager` | the states and registered processes of the substrates |
| `MC...` | instances for TLC; `..._proofs` theorems with their proofs |

The detailed modules meet at narrow points, and each represents the others
there. `ElectronAdapter` takes all of execute() before the fork as success or
failure (`ExecuteFails`); `NativeStaging` takes the fork as `Launch` and the
cache as the set `available`; `NativeCache` takes a launch as probe and stage.
`LaunchPipeline` is what happens around them: it takes the first match of
`CompatDatabase` as the input `match`, and execute() as `Execute` or
`ExecuteFails`. `Provision` takes write_to_cache as one step that may fail
(`NativeCache` is about what happens inside it), and a launch as its choice of a
runtime and its plan (`NativeStaging` carries such a plan out).

### ElectronAdapter

`status`, `exit_code`, `child_pid`, `use_mocks` are the fields of that name. `pc`
is where the caller's thread is inside stop(): between SIGTERM and the end of the
200ms loop ("polling"), after it ("killing"), in the blocking waitpid
("waiting"). `proc` and `helper` are the kernel's view: a child is forked, then a
group leader, then running, and dies to a zombie (or is reaped at once when
SIGCHLD is ignored, `auto_reap`); one helper stands for the rest of its group.
`latest` is a history variable. Every public operation is one action, except
stop(), which is cut at its system calls, and calls that are refused because of
the status, which only log. kill(-pid) reaches nobody unless the child is the
leader of its group, and its failure is ignored, as in the code. A frozen process
takes no step; SIGTERM to a frozen one is pending; on SIGTERM an application may
end or not.

Pids are never reused: `PidStaysOurs` is the property that makes this harmless.

### NativeStaging

`file[t][m]` is what lies under the name of module `m` in tree `t`: tree 0 is the
user's bundle, tree n what the n-th execute() extracted. A module lies inside the asar
or beside it (`place`): a file beside `app.asar` becomes a symbolic link into the
bundle, a directory beside it a link to the whole directory ("linked"), which neither
the scan nor the second search enters (`Searched` are the modules that they see). Magic numbers are four bytes, read
as a little-endian word, as the code reads them. `Decision` gives what the
registry and the cache say about a module, `plan` is `native_plan_` (never
cleared), `Record` is record_degradation with all the records of a step at once.
`NewProcess` may happen in any state: a process that dies in the middle of the
staging leaves the disk as it is. Who runs macRun (`access`) decides which writes
fail. Left out: the shim's text, the command line and the environment of the
child, which no property here is about; a failing copy for lack of space.

### NativeCache

`bin`, `sha` and `manifest` are the three files of an entry. Every build has
contents of its own; `Partial` is a file that is truncated or cut short, and what
a reader gets that overlaps a rewrite. write_to_cache is cut at every file it
opens, writes or closes, and each of those may fail if its name is in `Faults`, as
may the removal of an entry, of which any part is then left.
A crash releases the flock and nothing else. `clean` is a history variable: since
the lock was last taken, its holder neither failed nor died.

`CacheEntry` is what this looks like to those who wait for the lock: an entry that
its holder replaces as a whole or removes, or leaves damaged when it fails or dies.
`ToGo` counts how far a process is from its end; it is a measure for the property
`EveryoneAdvances` and models no code.

Two readings are coarser than the code: a probe tests for its two files in one
step, and computes the digest of a file in one step (a file that changes
meanwhile is `Partial`, and matches nothing).

### CompatDatabase

`records`, `idIndex`, `bundleIndex`, `validCount`, `invalidCount` and `loadErrors`
are the members of the class; the index by tag, one more of the same kind, is left
out. A file is what the validator tells apart: its identifiers, tier and state as
text, its issues, the degradation category, and two bits for the required fields
and the runtime policy. `ParseRecord` does what parse_record does to them, unknown
enum values included. load_directory is a step per file, because a file may be
written between the listing and its turn (`WriteFile`), and because a type error
in one of them ends the process half-way (`pc = "aborted"`, where nothing is
rebuilt). `listed` and `asRead` are history variables: the files of the last
directory and what was found in them. The indices are right by a scan
(`IndexAgrees`) and not only after a rebuild; `FirstFileWins` speaks of a database
with one load_directory, which is how the orchestrator, the adapter and provision
use it.

### LaunchPipeline

The inputs are an application (what its property list, executable and entitlements
say), the database's answer, and the options; `disk` is what lies at the path, which
another process may change between the three times that macRun reads it. The stages
of the detector are operators: `Signals`, `Fingerprints`, `CriticalGap`, `Category`,
`Strategy`, `Recommendation`, `DetectedState`, then `TierToBackend`, `Capabilities`
and `CanLaunch` of the orchestrator. Of the fingerprints those are kept that decide
something; the others only add to a printed score. `detection` and `plan` are
result.plan, `pc` the steps of orchestrate, main and execute_plan. Fields without an
initializer (`preferred_tier`, `compatibility.state`) hold any value (`Garbage`) when
an early return leaves them unset. initialize() and start() do not fail on an adapter
that execute_plan has just made, and have no action.

Issues, workarounds, rules and logs are left out, so are the formats that are refused
one like the other (disk image, bare Mach-O, anything else).

### VersionNegotiation

A version is the sequence of the numbers it is written with: <<30>> and
<<30, 0, 0>> are different texts of equal versions. The negotiation compares
versions, a cache key contains the text. `Runtimes` is the set of the versions
that resolve_runtime_binary may choose; it has several members where the order of
a directory decides. `Replacement` is find_replacement with its two phases, the
second of them the loop of the code (`Consider` is one round); `Closer` is the
reference that says which of two governed versions is the better answer.

### NativeBuilder

`step` is the place in build_in_sandbox, `order` its argument, `left` what a loop
has still to do, `work` what is in the directory. Everything before the compiler
waits for its child, and is one action each that may fail; where the code does not
look at a failure (a fork for the extraction, a rename), the action goes on with
the tree as it is. With SIGCHLD ignored (`auto_reap`) no wait learns a status, and
what the code then reads is any value (`Seen`). The compiler is `sandbox`, an
actor beside the builder, which polls it (`PollExited`), gives up at any moment
(`StopWaiting`, the 600 seconds) and then waits without a limit (`Reap`). `jobs` is
a history variable: for each directory made under /tmp whether it is still there,
and why its build ended. A .node file is told apart by where it comes from, its
magic, its name and its size, which is all that the search for the binary looks
at. Hashes are not computed by the code, and so neither here.

### Provision

`pc` is the place in provision_command, `electron` the version it decides on,
`rest` what the loop has still to do, `tally` its three counters, `entries` the
cache as a function from keys to what was stored. The builder's variables are
those of `NativeBuilder`: `StartBuild` calls it, `EndBuild` takes its answer.
`situation` is what provision finds: modules, registry, environment, record,
detection. `Launch` is the negotiation of a later launch with the same
environment and record and its plan (`runtime`, `plan`); Electrons may have been
installed in between (`Acquire`). provision sees the modules that lie on the disk,
the launch also those `packed` in app.asar.

### LifecycleManager

`state` and `path` (whether a binary is known) are the entry of each substrate,
`registered` the list of pids; `installed` says what the probes of the file system
find. Every public operation is one action. Processes that were registered live in
`alive` and end when they like; `signalled` are those that teardown has sent a SIGTERM.
Nothing but the tests calls this component: the adapters end their applications
themselves.

### Seeded bugs

Operators commented "Seeded bug" are variants of the definition they precede,
each with one plausible mistake: a dropped unlock, a wrong pid, the wrong signal,
a forgotten record. Nothing in a specification uses them. Each is there to be put
in the place of the definition that follows it, and the property that it belongs
to then fails: PROJECT.json ("mutants") says which.

## 3. Runs

Each passing run finishes within about three minutes.

| run | module, cfg | shows | bounds |
|---|---|---|---|
| two | `MCElectronAdapter_two` | the safety properties of stop, suspend and resume, and that stop returns | two launches by one adapter: enough for one to be forgotten while the other is tracked; every property speaks of one or two of them |
| one | `MCElectronAdapter_one` | with one launch, the adapter implements `AdapterLifecycle` | one launch, which is what the command line does |
| writers | `MCNativeCache_writers` | a hit is complete, what was provisioned is used | two provisioners and a launch: two writers and a reader without the lock; every fault but `sha_open` |
| evict | `MCNativeCache_evict` | a settled entry is sound with an evictor and every fault, the entry implements `CacheEntry`, no step leads anybody back, and everybody finishes | the same, and one evictor |
| launch | `MCNativeStaging_launch` | what is launched, reported, and left on the disk | two modules, so that one may fail after the other; two executes, in one process or two; all three ways an application may come; each module in the asar, a file beside it, or in a directory beside it |
| database | `MCCompatDatabase_load` | the indices, the deciding record, which no later addition changes, and the account of refusals | three files, so that one may lie between two others; two identifiers that clash, two bundles, one file of each kind that is refused; two calls, one write by another process |
| run | `MCLaunchPipeline_run` | what is started, announced and returned agrees with what was detected and recorded | 23 applications, at least one for each row of the strategy matrix and each dependency that changes the verdict; a record for each tier and for launchable and other states; five bundles, one change of the bundle, which may fall between any two readings |
| provision | `MCProvision_provision` | no compiler starts without package, headers and patches or outlives its directory, and a success names an ELF file on the disk; what is cached is governed; the launch keeps the wanted major version, and finds what was provisioned if it runs the version that was built for; no failure makes provision start anything again, and it ends | two builds, so that one may end differently from the other; seven situations, with every source of a version, a module twice, one behind a shim, one inside the asar; two sound worlds and one with SIGCHLD ignored; five versions, two of them one version in two spellings, one never installed, one without a known ABI; ELF files from the tarball and from a dependency, smaller and larger than what is compiled |
| stuck, torn, relaunch, leak | | four disagreements of the code with its comments and guides, section 6 | stuck, torn, relaunch: the smallest instance that shows them; leak: the instance of provision |

`HitIsComplete` is not claimed with `sha_open` or with an evictor: probe_cache
takes an entry without a digest file for verified. When the digest file cannot be
created, or an eviction removed it first, a probe in the middle of the next
rewrite reports a torn binary. `QuiescentEntrySound` holds with both, and is checked in
the run that has both.

The type invariants of `NativeCache`, `NativeStaging` and `LaunchPipeline` are proved
for every instance (section 4) and not checked again by the runs.

CHECK_DEADLOCK is FALSE where a system stops for good: an adapter that is
Terminated with its applications gone, processes that are done, the last call of
execute(); a database whose calls are used up or whose process has ended; a run of macrun that
has returned; a launch that has made its plan.

**Fairness.** `ElectronAdapter`: the thread inside stop() is scheduled (its loop
sleeps 10ms at a time and ends after 20 rounds), and so is a child on its way from
fork to execvp, which is straight-line code, and the kernel's default action on a
SIGTERM. Nothing makes an application exit, not even SIGTERM: stop() may not count
on it. Nothing makes the child call setpgid before the parent's next step either.
`NativeCache`: every process is scheduled, and a free flock is given to one that
waits and is never passed over for ever; a flock that fails is never counted on; builds end (their own timeout is not
modelled). `NativeStaging` has no liveness property: it is one thread, each of
whose steps either goes on or fails; `CompatDatabase` has none either: its loop is
over a finite list; nor has `LaunchPipeline`: it is straight-line code, and --wait ends
when the application does. `Provision`: the loop of provision and the builder are
straight-line code between calls that return, and the deadline of the polling loop
comes (weak fairness of `CommandStep` and of `BuilderStep`). Nothing makes the
compiler end, not even the deadline: `ProvisionEnds` has it as a premise.

## 4. Proofs

TLC checks the instances above; the following hold for every value of the
constants - any set of pids, any set of modules and number of launches, any
numbers of provisioners, launches and evictors, any files, any applications and
bundles, any registry, ABI map, installed versions and number of builds. The
assumptions are those of the modules' ASSUMEs only: the constants that stand for "none" are not members of the
sets they are added to, process kinds are disjoint, the bounds are natural numbers,
a file, an application, a bundle and a record are of the kinds above.

**`ElectronAdapter_proofs`**: `TypeOK`, `StopReapsChild`, `PidStaysOurs`,
`NoFrozenApp`, `ExitCodeIsChilds`, `KillTakesHelpers`, and the refinement
`ImplementsLifecycle` for a caller that launches once. The inductive invariant
adds to them `Tracking` (child_pid_ is the last child forked until stop() has
collected it), `StopInProgress` (inside stop() there is a child and the status is
still what it was) and `FrozenIsTracked` (whoever is frozen is the child that
child_pid_ names, in its group, under status Suspended). Without the last one
resume() might continue the wrong application. All signals go through one lemma,
`KillGroupEffect`. `KillTakesHelpers` has an invariant of its own, `KilledGroup`:
whoever SIGKILL ended is dead, and so starts no new helper. The refinement maps
each call to the contract's call of the same name; of stop() only the step that
reports Terminated is the contract's Stop, which needs `Tracking` and
`StopInProgress`: the child collected is the application the caller sees.
`StopStaysOnCourse` is the part of `StopReturns` that needs no fairness: from the
moment that the child is in its group while stop() polls or is about to kill, no step
of anybody leads stop() back, and it waits only for a child that is dead
(`Returning`).

**`NativeStaging_proofs`**: `TypeOK`, `LaunchedIsDarwinFree`, `UnsafeNeverHidden`,
`SubstitutionIsReported`, `AsarKeepsBundle`, `PlanCarriedOut`. `DarwinFree` carries the result of
the second search to the fork, for the modules that it looks at (`Searched`); it needs
nothing from the plan, which is the point of the second search. `PlanIsSearched` says
that no entry of the plan is about a module behind a linked directory. `Unreported` says what is still true of a process that has
reported no substitution: an empty plan and the modules it found. `Linked` and
`PlanKeepsBundle` keep the bundle of an asar application out of reach.
`RecordEffect` is the lemma that the worst category wins.
`PlanCarriedOut` is about all that a process ever planned, because native_plan_ is
never cleared; its invariant `Carried` says whose directory an entry is about
(`PlanIsOwn`), that a build once planned stays available, that two entries for one
file agree unless the file cannot be removed (`PlanAgrees`), and which entries are
carried out at each step.

**`NativeCache_proofs`**: `TypeOK`, mutual exclusion, `QuiescentEntrySound`, and
`HitIsComplete` under its two conditions. `WrittenSoFar` says what the holder of
the lock has put into the entry by each of its steps if nothing failed; with
`Exclusive` it gives the first result when the lock is released. `HitIsComplete`
rests on `DigestRecorded`, which needs no mutual exclusion: once there is a
manifest there is a digest file, and nothing partial matches a digest.
The refinement of `CacheEntry` follows from the same invariant: taking the lock is
`Begin`, the unlock of a writer that got through is `Commit` of its own build, the end
of an eviction `Remove`, every failure and death under the lock `Abandon`, and all
other steps are invisible. `EveryoneAdvances` says that each step lowers `ToGo` of its
process and of nobody else; for an evictor at work that is mutual exclusion, since
otherwise a writer would add files to those it has to remove. `ServingStands` is the
part of `ProvisionedIsUsed` that needs no fairness (`Serving`).

**`CompatDatabase_proofs`**: `TypeOK`, `IndexAgrees`, `FirstFileWins`,
`RejectsAreReported`, `VerdictIsFinal`. `Fresh`
(the indices are those of the records whenever the process is idle) gives the
second. The third needs the invariant of the loop, `Batch`: what is still to be
read comes after everything read, the records are in the order of the files, their
identifiers differ, each comes from the file as it was read, and no valid file was
passed over but for an identifier already there. That a set of numbers has a least
and a greatest element is proved from the library's well-founded induction.
`RejectsAreReported` compares numbers of files. `NoneLost` says that every file read is
a record or among the errors by its name, `FirstCount` that in the first
load_directory each is counted once; the library's theorems on finite sets do the rest.
`VerdictIsFinal` holds because records are only appended (`RecordsGrow`), and a
bundle's first match is the smallest position in the list (`FirstStands`).

**`LaunchPipeline_proofs`**: all six invariants of the run. `Judged` says what a
verdict of the detector is worth while no record replaces it, `Undisturbed` that it is
about the bundle as it is, `Overridden` and `Planned` that tier, state and plan follow
from record and detection, `Progress` how far the execution has come. `MatrixIsSound`
is the lemma about the strategy matrix: every row, with the override for critical
gaps, for every set of frameworks. It needs the state "unsupported" of the early
return in pipeline.cpp:172: without it a tier that nobody set could be launched.

**`NativeBuilder_proofs`**: `BuildTypeOK`, `SandboxReady`, `SandboxIsContained`,
`EarlyEndsCleanUp`, `SuccessNamesBinary`. `Prepared` says for each step what the
steps before it have left in the tree, unless SIGCHLD is ignored: the code looks at
hardly any result of its own, and each gap (a fork that fails unnoticed) is closed
by a later step that does look. `Open`, `Verdicts` and `Contained` say that the
directory is there while a build is under way, and the sandbox only while somebody
polls it or waits for it. `Answer` carries the choice of the binary to the return.

**`Provision_proofs`**: `TypeOK`, `AnswersAreBest`, `EntriesAreGoverned`,
`RuntimeKeepsMajor`, `ProvisionedIsFound`. That the loop of find_replacement finds the
best version is an induction over its rounds (`BestSoFar`), as the least round at
which it would fail; `OlderIsOrder` (versions are totally ordered by their numbers)
gives the four tiers of the negotiation. `BuilderIsCalled` is the composition: a run
of Provision is a run of NativeBuilder, whose theorems then hold here
(`BuilderGuarantees`). `CommandInv` is the inductive invariant: `Served` (the builder
works for the Electron that provision decided on, and headers it asked for are that
one's) and `EntriesFit` (each entry lies under the key that its module has for that
Electron) give the properties of the cache, `Decided` (the launch's plan is what it
would decide again) those of the launch. `ProvisionAdvancesAlways` has three parts:
every step of provision and the builder lowers `ToDo` and nobody else's changes it;
`ToDo` is always one of `Measures`; and the order on these is well-founded, which is
proved from the existence of least numbers, component by component
(`LeastComponent`). So no run has infinitely many steps of provision.

**`LifecycleManager_proofs`**: `TypeOK`, and `Idle`: no operation sets Acquired,
Running, Suspended or the path of a binary. Hence provision never answers that a
substrate is ready, and teardown_all forgets every process that was registered without
a signal (`TeardownForgets`). These theorems are all that is shown of this module: it
is small, only tests call it, and no run is spent on it.

Only model-checked: the four properties under fairness (`StopReturns`,
`EveryoneFinishes`, `ProvisionedIsUsed`, `ProvisionEnds`), which the prover does not
reach: it has neither fairness nor ENABLED. What is proved of each is its safety half: whatever step is taken, it leads
towards the end and not away from it (`StopStaysOnCourse`, `EveryoneAdvancesAlways`,
`ServingStands`, `ProvisionAdvancesAlways`). That a step is possible as long as the end
is not reached, and that it is then taken, is left to TLC.

## 5. Plan

Done, in this order: the processes of the adapter (runs two, one, stuck), the shared
cache entry (writers, evict, torn), a launch on the disk (launch, relaunch), the
proofs of these; the compatibility database (database) and a run of macrun (run) with
their proofs; the builder, the negotiation and provision (provision, leak) and the
LifecycleManager with theirs.

Every invariant and action property that a passing run checks is also proved, and so
is the safety half of every liveness property.

Left: the choice of victims by evict_if_needed; one run that follows the two
databases that macRun reads (the current directory's and the user's).

## 6. Where the code does not do what it says

Found by runs that expect a violation; PROJECT.json quotes the lines.

- **stuck**: stop() right after execute() signals a group that does not exist yet
  and then waits, without a timeout, for an application nobody told to end.
- **torn**: a launch that has verified a cached binary may copy it while another
  provision rewrites it in place.
- **relaunch**: a staged module is read-only; launching an application directory
  a second time fails, except as root.
- **leak**: "Temp directory cleanup on ALL exit paths" (`native_builder.cpp:7`,
  `provision.cpp:32`): the directories of builds that came to their compiler's verdict
  stay under /tmp, good or bad. `EarlyEndsCleanUp` is about all other ends.

Found while modelling `CompatDatabase`, without a run of their own:
- "Duplicate IDs rejected" is true of one load_directory only; afterwards
  lookup_by_id finds the last record, the launch the first.
- The validator's checks of tier and state can never fail: unknown texts became
  Unsupported and Broken before.
- A field of an unexpected type throws an exception that nobody catches: one such
  file in the directory ends every macrun.

Found while modelling `LaunchPipeline`, without a run of their own:
- Exit codes: an input that is refused returns 2, or 3 with --launch, where the usage
  says 1; 4 is not documented.
- "VM execution required" is printed about applications that are then launched
  natively; the branch that would call their state degraded is never taken.
- A launch that fails with `MACRUN_FALLBACK_VM=1` returns 0 and says "Process
  launched", with nothing started.
- The rule "TauriBridge backend" never selects that backend; Tauri and Wails
  applications are given to Electron, with "." for their code when they have no asar.
- The plan of a refused input prints a tier and a state that nobody set.

Found while modelling `NativeStaging`, without a run of its own:
- A directory beside `app.asar` is linked into the extraction, and no search enters
  the link: an application with a Mach-O module in it is launched, unreported, where
  `electron_adapter.hpp:8` says that such modules are rejected. `LaunchedIsDarwinFree`
  and `UnsafeNeverHidden` are about the modules that the search sees.
- No ELF module is ever recognised (byte order); Linux modules are stubbed, that is,
  removed, and provision never skips one.

Found while modelling `NativeBuilder`, `Provision` and `LifecycleManager`, without a
run of their own:
- The "compiled .node file" (`native_builder.cpp:509`) is the largest ELF file of the
  whole tree: a prebuilt one of the package or of a dependency that is larger than what
  was compiled is taken for the build, and cached. `SuccessNamesBinary` does not say
  where the file comes from.
- `docs/architecture/RUNTIME_NEGOTIATION.md:106-108` has the next higher version before
  any lower one; the code has the newest of the same major version first, which may be
  lower (28.4.0 is wanted, 28.3.3 and 30.0.0 are installed: 28.3.3 runs).
  `RuntimeKeepsMajor` states what the code does.
- provision builds for the text of the version it detects, or for 28.3.3; the launch
  looks for the one it negotiates, or the newest: with two Electrons installed and none
  named, `macrun provision` does not help, however often it is run. Nor does it when the
  version that is wanted is not installed, or is spelt otherwise. `ProvisionedIsFound`
  has these premises.
- The exit status of a compilation is tee's: node-gyp's failure is never seen, and an
  ELF file that came with the package, or from before the failure, is cached.
- A build that takes too long is waited for all the same: the two signals go to a
  process group that does not exist. If it succeeds meanwhile, it is thrown away.
- Headers of another Electron are taken when those asked for cannot be had; the
  result is cached under the version that was asked for.
- Hashes are accepted and never compared.
- provision does not look into app.asar.
- A process is registered with the LifecycleManager for cleanup, and teardown_all
  forgets it without a signal, because no substrate is ever Running
  (`TeardownForgetsAlways`); provision() never answers that one is ready
  (`NeverReadyAlways`).

Checked while modelling, and not kept as runs:
- An adapter that executes twice keeps track of the second application only; the
  first survives stop().
- A helper that ignores SIGTERM, or was frozen by suspend(), survives a stop()
  whose leader ended on SIGTERM (`KillTakesHelpers` is about the escalation only).
- execute() failing after an earlier success leaves status Error and the first
  application running; stop() does nothing in Error.
- suspend() before the child's setpgid stops nobody, and the status says Suspended.
- `macrun provision` prints OK although write_to_cache failed
  (`tooling/macrun-cli/provision.cpp:202`).
- README.md:25 of the repository says bundles are not modified; an application
  directory is modified in place, and an asar application beside its asar.
- The second launch of an application directory finds the stubbed modules gone
  and reports nothing (compare `DEGRADATION_MODEL.md:198`).
- The bypass and the experimental mode may be combined, and the report then says
  experimental (compare `DEGRADATION_MODEL.md:148`).

## 7. Not modelled, and why

Byte-level parsing (Mach-O, plists, asar headers, JSON) and printing: input
handling without state; what it can produce is an input of the models. The other
adapters' launches: they write a log line. The order in which an eviction chooses
its entries: `NativeCache` lets it choose any. The JavaScript shims: their behaviour
is Electron's. The acquire scripts, the host, VM and runtime placeholders, the
development tools and the vendored JSON library: scripts run by hand, empty stubs,
offline helpers and third-party code. Versions that are spelt otherwise than with
digits and dots.
