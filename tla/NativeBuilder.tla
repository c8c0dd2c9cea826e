----------------------------- MODULE NativeBuilder -----------------------------
(***************************************************************************)
(* build_in_sandbox (platform/native/native_builder.cpp): one native module*)
(* is downloaded, unpacked with the Electron headers, its dependencies and *)
(* its patches into a fresh directory under /tmp, compiled by node-gyp in a*)
(* bubblewrap sandbox, and the .node file that came out of it is reported. *)
(*                                                                         *)
(* Everything before the compiler is a chain of child processes, each of   *)
(* which is waited for before the next: one step here, which may fail.  The*)
(* compiler runs beside the builder, which polls it and gives up at a      *)
(* deadline: the sandbox is an actor of its own.  There are two ways out of*)
(* a build that failed, and only one of them removes the directory.        *)
(*                                                                         *)
(* The caller is Provision.  A call of build_in_sandbox is Call, and it has*)
(* returned when step is "idle" again, with its answer in result.          *)
(***************************************************************************)
EXTENDS VersionNegotiation

CONSTANTS
  Orders,      \* the BuildSpecs that callers pass, see IsOrder
  Worlds,      \* what may surround a build, see IsWorld
  Versions,    \* the Electron versions that may be asked for
  Installable, \* those that may be in the cache
  Outputs,     \* the .node files that a compilation may leave
  MaxBuilds    \* bounds the directories that are made

\* A .node file: what comes with it, and how large it is.
IsNode(n) ==
  /\ DOMAIN n = {"from", "elf", "test", "size"}
  /\ n.from \in {"tarball", "compiler"}
  /\ n.elf \in BOOLEAN     \* it begins with 7F 45 4C 46
  /\ n.test \in BOOLEAN    \* its name contains "test"
  /\ n.size \in Nat \ {0}

\* shipped: the .node files in the npm tarball; carried: those in the tarball
\* of each dependency.  Dependencies and patches are in the order of the loops.
IsOrder(o) ==
  /\ DOMAIN o = {"electron", "sha256", "dependencies", "patches", "shipped", "carried"}
  /\ IsVersion(o.electron)
  /\ o.sha256 \in BOOLEAN
  /\ o.dependencies \in Seq(STRING) /\ o.patches \in Seq(STRING)
  /\ \A n \in o.shipped \cup o.carried : IsNode(n) /\ n.from = "tarball"

\* auto_reap: SIGCHLD is ignored, so that no waitpid learns how a child ended;
\* headers_url: MACRUN_ELECTRON_HEADERS_URL is set; abi_map: what is in
\* electron-abi-map.json, empty when it is missing.
IsWorld(w) ==
  /\ DOMAIN w = {"auto_reap", "headers_url", "abi_map"}
  /\ w.auto_reap \in BOOLEAN /\ w.headers_url \in BOOLEAN
  /\ DOMAIN w.abi_map \subseteq Nat /\ \A v \in DOMAIN w.abi_map : w.abi_map[v] \in 0..(Far - 1)

ASSUME OrdersAssumption == \A o \in Orders : IsOrder(o)
ASSUME WorldsAssumption == \A w \in Worlds : IsWorld(w)
ASSUME VersionsAssumption ==
  Installable \subseteq Versions /\ \A v \in Versions : IsVersion(v) /\ v # AutoVersion
ASSUME OutputsAssumption == \A n \in Outputs : IsNode(n) /\ n.from = "compiler"
ASSUME MaxBuildsAssumption == MaxBuilds \in Nat

VARIABLES
  step,        \* where the builder is in build_in_sandbox
  order,       \* spec
  left,        \* what the loop over dependencies or patches has still to do
  work,        \* what is in the directory of the running or the successful build
  jobs,        \* history: for each directory made, what became of it
  sandbox,     \* the process build_pid, or its exit status
  result,      \* what the last call returned
  world,
  cached       \* the Electron versions under ~/.cache/macrun/electron

buildVars == <<step, order, left, work, jobs, sandbox, result, world, cached>>

-------------------------------------------------------------------------------
\* Types

Steps ==
  {"idle", "check", "tarball", "headers", "unpack", "unpackHeaders", "locate",
   "dependencies", "patches", "compile", "waiting", "reaping", "collect"}

\* error_message: no sandbox or no directory to begin with, a step that failed
\* before the compiler ran, and what became of the compiler.
Errors == {"none", "bwrap", "tempdir", "preparation", "timeout", "failed", "no output"}

NoOrder == [electron |-> AutoVersion, sha256 |-> FALSE, dependencies |-> <<>>,
            patches |-> <<>>, shipped |-> {}, carried |-> {}]

\* headers: whose headers were downloaded, and of which version where that is
\* known; patched: how many patches the sources carry; gyp: node-gyp's success.
EmptyWork == [tarball |-> FALSE, headers |-> "none", version |-> AutoVersion,
              package |-> FALSE, nodedir |-> FALSE, patched |-> 0,
              nodes |-> {}, gyp |-> "none"]

NoNode == [from |-> "none", elf |-> FALSE, test |-> FALSE, size |-> 0]

Nodes == Outputs \cup UNION {o.shipped \cup o.carried : o \in Orders}

WorkType ==
  [tarball : BOOLEAN,
   headers : {"none", "asked", "nearest", "elsewhere"},
   version : Versions \cup {AutoVersion} \cup {o.electron : o \in Orders},
   package : BOOLEAN, nodedir : BOOLEAN, patched : Nat,
   nodes : SUBSET Nodes, gyp : {"none", "ok", "failed"}]

ResultType == [success : BOOLEAN, binary : Nodes \cup {NoNode}, error : Errors]

BuildTypeOK ==
  /\ step \in Steps
  /\ order \in Orders \cup {NoOrder}
  /\ left \in Seq(STRING)
  /\ work \in WorkType
  /\ jobs \in Seq([kept : BOOLEAN, error : Errors])
  /\ sandbox \in {"none", "running", "exit 0", "exit 1"}
  /\ result \in ResultType
  /\ world \in Worlds
  /\ cached \subseteq Installable

-------------------------------------------------------------------------------
\* Leaving

Failure(e) == [success |-> FALSE, binary |-> NoNode, error |-> e]

\* The caller gets no more of the directory than the path of the binary, and of
\* a build that failed nothing that it looks at.
Return(e, kept, binary) ==
  /\ step' = "idle"
  /\ result' = [success |-> e = "none", binary |-> binary, error |-> e]
  /\ jobs' = [jobs EXCEPT ![Len(jobs)] = [kept |-> kept, error |-> e]]
  /\ work' = IF e = "none" THEN work ELSE EmptyWork
  /\ left' = <<>> /\ order' = NoOrder

\* Seeded bug: the directory stays.
GiveUpInPlace(e) == Return(e, TRUE, NoNode)

\* fs::remove_all(build_dir); return result;
GiveUp(e) == Return(e, FALSE, NoNode)

GoOn(next, tree) ==
  /\ step' = next /\ work' = tree
  /\ UNCHANGED <<order, left, jobs, result>>

\* What a child did and what its parent makes of it: the exit status, or, where
\* waitpid fails and leaves status uninitialised, anything.
Seen(done) == IF world.auto_reap THEN BOOLEAN ELSE {done}

-------------------------------------------------------------------------------
\* Preparing the sources

BuildInit ==
  /\ step = "idle" /\ order = NoOrder /\ left = <<>> /\ work = EmptyWork
  /\ jobs = <<>> /\ sandbox = "none" /\ result = Failure("none")
  /\ world \in Worlds
  /\ cached \in SUBSET Installable

Call(o) ==
  /\ step = "idle" /\ Len(jobs) < MaxBuilds
  /\ step' = "check" /\ order' = o /\ result' = Failure("none")
  /\ UNCHANGED <<left, work, jobs, sandbox, world, cached>>

\* is_bubblewrap_available and mkdtemp; there is no directory to remove yet.
Refuse ==
  /\ step = "check"
  /\ step' = "idle"
  /\ \E e \in {"bwrap", "tempdir"} : result' = Failure(e)
  /\ order' = NoOrder
  /\ UNCHANGED <<left, work, jobs, sandbox, world, cached>>

MakeDirectory ==
  /\ step = "check"
  /\ step' = "tarball"
  /\ jobs' = Append(jobs, [kept |-> TRUE, error |-> "none"])
  /\ work' = EmptyWork
  /\ UNCHANGED <<order, left, sandbox, result, world, cached>>

\* download_file.  The hash is not compared; with one, the file must be there.
FetchTarball ==
  /\ step = "tarball"
  /\ \E done \in BOOLEAN : \E seen \in Seen(done) :
       IF seen /\ (order.sha256 => done)
       THEN GoOn("headers", [work EXCEPT !.tarball = done])
       ELSE GiveUp("preparation")
  /\ UNCHANGED <<sandbox, world, cached>>

\* The cached versions of the nearest ABI; directory order chooses among them.
Nearest(v) ==
  LET known == {w \in cached : Nmv(world.abi_map, w) # Unknown}
      delta(w) == Distance(Nmv(world.abi_map, w), Nmv(world.abi_map, v))
  IN IF Nmv(world.abi_map, v) = Unknown THEN {}
     ELSE {w \in known : \A u \in known : delta(w) <= delta(u)}

HeadersOf(kind, version, done) ==
  IF done THEN [work EXCEPT !.headers = kind, !.version = version] ELSE work

\* The headers of the version that was asked for, or of the nearest cached one.
FetchHeaders ==
  /\ step = "headers"
  /\ \E done \in BOOLEAN : \E seen \in Seen(done) :
       IF seen
       THEN GoOn("unpack", IF world.headers_url THEN HeadersOf("elsewhere", AutoVersion, done)
                           ELSE HeadersOf("asked", order.electron, done))
       ELSE \/ \E v \in Nearest(order.electron), again \in BOOLEAN :
                 TRUE \in Seen(again) /\ GoOn("unpack", HeadersOf("nearest", v, again))
            \/ GiveUp("preparation")
  /\ UNCHANGED <<sandbox, world, cached>>

\* A failed fork is not noticed here.
Unpack ==
  /\ step = "unpack"
  /\ \E forked, done \in BOOLEAN : \E seen \in Seen(done) :
       /\ done => forked /\ work.tarball
       /\ IF forked => seen
          THEN GoOn("unpackHeaders",
                    IF done THEN [work EXCEPT !.package = TRUE, !.nodes = order.shipped]
                    ELSE work)
          ELSE GiveUp("preparation")
  /\ UNCHANGED <<sandbox, world, cached>>

UnpackHeaders ==
  /\ step = "unpackHeaders"
  /\ \E done \in BOOLEAN : \E seen \in Seen(done) :
       /\ done => work.headers # "none"
       /\ IF seen THEN GoOn("locate", [work EXCEPT !.nodedir = done])
          ELSE GiveUp("preparation")
  /\ UNCHANGED <<sandbox, world, cached>>

\* package_dir: the first directory beside headers.
LocatePackage ==
  /\ step = "locate"
  /\ \/ /\ work.package
        /\ step' = "dependencies" /\ left' = order.dependencies
        /\ UNCHANGED <<order, work, jobs, result>>
     \/ ~work.package /\ GiveUp("preparation")
  /\ UNCHANGED <<sandbox, world, cached>>

\* One round of a loop: the next item, and what the directory then contains.
Round(tree) ==
  /\ left' = Tail(left) /\ work' = tree
  /\ UNCHANGED <<step, order, jobs, result>>

\* Downloaded, unpacked and renamed into node_modules; a failed rename is not
\* noticed, and then the dependency is removed with its temporary directory.
FetchDependency ==
  /\ step = "dependencies" /\ left # <<>>
  /\ \E done, moved \in BOOLEAN : \E seen \in Seen(done) :
       /\ moved => done
       /\ IF seen
          THEN Round(IF moved THEN [work EXCEPT !.nodes = @ \cup order.carried] ELSE work)
          ELSE GiveUp("preparation")
  /\ UNCHANGED <<sandbox, world, cached>>

DependenciesDone ==
  /\ step = "dependencies" /\ left = <<>>
  /\ step' = "patches" /\ left' = order.patches
  /\ UNCHANGED <<order, work, jobs, sandbox, result, world, cached>>

\* Seeded bug: a patch that is not found is skipped.
ApplyPatchIfFound ==
  /\ step = "patches" /\ left # <<>>
  /\ \E found \in BOOLEAN :
       Round(IF found THEN [work EXCEPT !.patched = @ + 1] ELSE work)
  /\ UNCHANGED <<sandbox, world, cached>>

\* The patch is looked for in the cache and under ./compat-db.
ApplyPatch ==
  /\ step = "patches" /\ left # <<>>
  /\ \E found, done \in BOOLEAN : \E seen \in Seen(done) :
       /\ done => found
       /\ IF found /\ seen
          THEN Round(IF done THEN [work EXCEPT !.patched = @ + 1] ELSE work)
          ELSE GiveUp("preparation")
  /\ UNCHANGED <<sandbox, world, cached>>

PatchesDone ==
  /\ step = "patches" /\ left = <<>>
  /\ GoOn("compile", work)
  /\ UNCHANGED <<sandbox, world, cached>>

-------------------------------------------------------------------------------
\* The compiler

StartSandbox ==
  /\ step = "compile"
  /\ \/ sandbox' = "running" /\ GoOn("waiting", work)
     \/ GiveUp("preparation") /\ UNCHANGED sandbox
  /\ UNCHANGED <<world, cached>>

\* "node-gyp rebuild 2>&1 | tee build.log": the exit status is tee's, unless
\* bwrap itself fails before there is a shell.  A compilation that fails may
\* have linked some of its targets.
SandboxExits ==
  /\ sandbox = "running"
  /\ \/ \E gyp \in {"ok", "failed"}, made \in SUBSET Outputs, exit \in {"exit 0", "exit 1"} :
          /\ gyp = "ok" => work.package /\ work.nodedir
          /\ work' = [work EXCEPT !.gyp = gyp, !.nodes = @ \cup made]
          /\ sandbox' = exit
     \/ sandbox' = "exit 1" /\ UNCHANGED work
  /\ UNCHANGED <<step, order, left, jobs, result, world, cached>>

Exited == sandbox \in {"exit 0", "exit 1"}

\* waitpid(WNOHANG) in the polling loop reaps the sandbox.
PollExited ==
  /\ step = "waiting" /\ Exited /\ ~world.auto_reap
  /\ sandbox' = "none"
  /\ IF sandbox = "exit 0" THEN GoOn("collect", work) ELSE Return("failed", TRUE, NoNode)
  /\ UNCHANGED <<world, cached>>

\* The loop ends without a status: after 600s, or when waitpid fails because
\* the kernel has reaped the sandbox.  No process group has build_pid's number,
\* so that kill(-build_pid, ..) reaches nobody, twice.
StopWaiting ==
  /\ step = "waiting"
  /\ GoOn("reaping", work)
  /\ UNCHANGED <<sandbox, world, cached>>

\* Seeded bug: the last waitpid does not block either.
ReapNoHang ==
  /\ step = "reaping"
  /\ sandbox' = IF Exited THEN "none" ELSE sandbox
  /\ GiveUp("timeout")
  /\ UNCHANGED <<world, cached>>

\* The blocking waitpid.
Reap ==
  /\ step = "reaping" /\ Exited
  /\ sandbox' = "none"
  /\ GiveUp("timeout")
  /\ UNCHANGED <<world, cached>>

Largest(N) == {n \in N : \A o \in N : o.size <= n.size}

\* Seeded bug: the second search takes any file, as the first one would not.
BinariesOfAnyKind ==
  LET proper == {n \in work.nodes : n.elf /\ ~n.test}
  IN IF proper # {} THEN Largest(proper) ELSE work.nodes

\* The largest ELF file that is not a test, else any ELF file.
Binaries ==
  LET elf == {n \in work.nodes : n.elf}
      proper == {n \in elf : ~n.test}
  IN IF proper # {} THEN Largest(proper) ELSE elf

Collect ==
  /\ step = "collect"
  /\ \/ \E n \in Binaries : Return("none", TRUE, n)
     \/ Binaries = {} /\ Return("no output", TRUE, NoNode)
  /\ UNCHANGED <<sandbox, world, cached>>

-------------------------------------------------------------------------------
\* Specification

\* acquire.sh adds an Electron to the cache.
Acquire(v) ==
  /\ v \notin cached
  /\ cached' = cached \cup {v}
  /\ UNCHANGED <<step, order, left, work, jobs, sandbox, result, world>>

BuilderStep ==
  \/ Refuse \/ MakeDirectory \/ FetchTarball \/ FetchHeaders
  \/ Unpack \/ UnpackHeaders \/ LocatePackage
  \/ FetchDependency \/ DependenciesDone \/ ApplyPatch \/ PatchesDone
  \/ StartSandbox \/ PollExited \/ StopWaiting \/ Reap \/ Collect

BuildNext ==
  \/ BuilderStep
  \/ SandboxExits
  \/ \E o \in Orders : Call(o)
  \/ \E v \in Installable : Acquire(v)

BuildSpec == BuildInit /\ [][BuildNext]_buildVars

-------------------------------------------------------------------------------
\* Properties

\* The compiler starts only when the sources and the headers are unpacked and every
\* patch is in, although one failed fork goes unnoticed.  Dependencies may be missing:
\* nothing looks for one whose rename failed.
SandboxReady ==
  sandbox # "none" /\ ~world.auto_reap =>
    /\ work.package /\ work.nodedir
    /\ work.headers # "none"
    /\ work.patched = Len(order.patches)

\* Whatever a deadline does, build_in_sandbox neither returns nor removes the
\* directory while its sandbox lives, in which it would go on writing.
SandboxIsContained ==
  sandbox # "none" =>
    /\ step \in {"waiting", "reaping"}
    /\ jobs[Len(jobs)].kept

\* The builds that are over.
Ended == IF step = "idle" THEN DOMAIN jobs ELSE (DOMAIN jobs) \ {Len(jobs)}

\* A build that ends before the compiler's verdict leaves no directory under /tmp:
\* neither a preparation that fails in any of its steps nor a deadline does.  (Of the
\* others see CleanedUpOnAllPaths.)
EarlyEndsCleanUp ==
  \A j \in Ended : jobs[j].error \notin {"none", "failed", "no output"} => ~jobs[j].kept

\* A success names an ELF file that is on disk, the name of a test only where every
\* ELF file there has one, and the sandbox was seen to exit with 0.  That the file
\* comes from the compiler is not said and not so: a larger ELF file of the package or
\* of a dependency is taken, although native_builder.cpp:509 says "the compiled .node
\* file".
SuccessNamesBinary ==
  result.success =>
    /\ step = "idle" /\ ~world.auto_reap
    /\ result.binary.elf /\ result.binary \in work.nodes
    /\ jobs[Len(jobs)].kept
    /\ result.binary.test => \A n \in work.nodes : n.elf => n.test

-------------------------------------------------------------------------------
\* What comments of the repository say, and the code does not do

\* native_builder.cpp:7, "Temp directory cleanup on ALL exit paths": no build that is
\* over leaves its directory under /tmp, but the one whose binary was just returned.
CleanedUpOnAllPaths ==
  \A j \in Ended : jobs[j].kept => result.success /\ j = Len(jobs)

===============================================================================
