-------------------------- MODULE NativeBuilder_proofs --------------------------
(***************************************************************************)
(* Proofs about NativeBuilder, for any orders, worlds, versions, outputs   *)
(* and number of builds.                                                   *)
(*                                                                         *)
(* The properties hold because of what the builder knows at each step of   *)
(* build_in_sandbox: how much of the tree is there (Prepared), that the    *)
(* directory it works in is still there (Open), and that there is a        *)
(* sandbox only while it waits for one (Contained).                        *)
(***************************************************************************)
EXTENDS NativeBuilder, TLAPS, SequenceTheorems

-------------------------------------------------------------------------------
\* Types

\* What the assumption on the constants says of an order.
LEMMA OrderParts ==
  ASSUME NEW o \in Orders \cup {NoOrder}
  PROVE  /\ o.dependencies \in Seq(STRING) /\ o.patches \in Seq(STRING)
         /\ o.shipped \subseteq Nodes /\ o.carried \subseteq Nodes
         /\ o.electron \in Versions \cup {AutoVersion} \cup {q.electron : q \in Orders}
<1>1. CASE o \in Orders
  <2>1. IsOrder(o)
    BY <1>1, OrdersAssumption
  <2>2. o.shipped \cup o.carried \subseteq Nodes
    BY <1>1 DEF Nodes
  <2> QED
    BY <1>1, <2>1, <2>2 DEF IsOrder
<1>2. CASE o = NoOrder
  <2>1. /\ o.dependencies = <<>> /\ o.patches = <<>> /\ o.electron = AutoVersion
        /\ o.shipped = {} /\ o.carried = {}
    BY <1>2, Zenon DEF NoOrder
  <2>2. <<>> \in Seq(STRING)
    OBVIOUS
  <2> QED
    BY <2>1, <2>2
<1> QED
  BY <1>1, <1>2

LEMMA EmptyWorkType == EmptyWork \in WorkType
  BY DEF EmptyWork, WorkType

LEMMA NothingReturnedType == \A e \in Errors : Failure(e) \in ResultType
  BY DEF Failure, NoNode, ResultType

\* Replacing an element of a sequence.
LEMMA ReplaceTypes ==
  \A S : \A q \in Seq(S), x \in S : \A i :
    [q EXCEPT ![i] = x] \in Seq(S) /\ Len([q EXCEPT ![i] = x]) = Len(q)
<1> SUFFICES ASSUME NEW S, NEW q \in Seq(S), NEW i, NEW x \in S
             PROVE  [q EXCEPT ![i] = x] \in Seq(S) /\ Len([q EXCEPT ![i] = x]) = Len(q)
  OBVIOUS
<1>1. CASE i \in 1..Len(q)
  BY <1>1, ExceptSeq
<1>2. CASE i \notin 1..Len(q)
  <2>1. q = [j \in 1..Len(q) |-> q[j]] /\ DOMAIN q = 1..Len(q)
    OBVIOUS
  <2>2. [q EXCEPT ![i] = x] = q
    BY <1>2, <2>1
  <2> QED
    BY <2>2
<1> QED
  BY <1>1, <1>2

LEMMA ReturnTypes ==
  ASSUME BuildTypeOK, NEW e \in Errors, NEW kept \in BOOLEAN,
         NEW n \in Nodes \cup {NoNode}, Return(e, kept, n)
  PROVE  /\ step' \in Steps /\ order' \in Orders \cup {NoOrder}
         /\ left' \in Seq(STRING) /\ work' \in WorkType
         /\ jobs' \in Seq([kept : BOOLEAN, error : Errors])
         /\ result' \in ResultType
<1>1. jobs' \in Seq([kept : BOOLEAN, error : Errors])
  <2> DEFINE job == [kept |-> kept, error |-> e]
             Jobs == [kept : BOOLEAN, error : Errors]
  <2>1. job \in Jobs
    OBVIOUS
  <2>2. jobs \in Seq(Jobs)
    BY DEF BuildTypeOK
  <2>3. jobs' = [jobs EXCEPT ![Len(jobs)] = job]
    BY DEF Return
  <2> HIDE DEF job, Jobs
  <2>4. /\ [jobs EXCEPT ![Len(jobs)] = job] \in Seq(Jobs)
        /\ Len([jobs EXCEPT ![Len(jobs)] = job]) = Len(jobs)
    BY <2>1, <2>2, ReplaceTypes
  <2>5. jobs' \in Seq(Jobs)
    BY <2>3, <2>4
  <2> QED
    BY <2>5 DEF Jobs
<1>2. result' \in ResultType
  BY DEF Return, ResultType
<1>3. work' \in WorkType
  BY EmptyWorkType DEF BuildTypeOK, Return
<1>4. step' \in Steps /\ order' \in Orders \cup {NoOrder}
  BY DEF Return, Steps
<1>5. left' \in Seq(STRING)
  <2>1. <<>> \in Seq(STRING)
    OBVIOUS
  <2> QED
    BY <2>1 DEF Return
<1> QED
  BY <1>1, <1>2, <1>3, <1>4, <1>5

LEMMA GiveUpTypes ==
  ASSUME BuildTypeOK, NEW e \in Errors, GiveUp(e)
  PROVE  /\ step' \in Steps /\ order' \in Orders \cup {NoOrder}
         /\ left' \in Seq(STRING) /\ work' \in WorkType
         /\ jobs' \in Seq([kept : BOOLEAN, error : Errors])
         /\ result' \in ResultType
  BY ReturnTypes DEF GiveUp

\* What is changed of the tree leaves it a tree.
LEMMA TreeTypes ==
  ASSUME NEW w \in WorkType
  PROVE  /\ \A b \in BOOLEAN : [w EXCEPT !.tarball = b] \in WorkType
         /\ \A b \in BOOLEAN : [w EXCEPT !.nodedir = b] \in WorkType
         /\ \A N \in SUBSET Nodes : [w EXCEPT !.package = TRUE, !.nodes = N] \in WorkType
         /\ \A N \in SUBSET Nodes : [w EXCEPT !.nodes = @ \cup N] \in WorkType
         /\ [w EXCEPT !.patched = @ + 1] \in WorkType
         /\ \A g \in {"ok", "failed"}, N \in SUBSET Nodes :
              [w EXCEPT !.gyp = g, !.nodes = @ \cup N] \in WorkType
         /\ \A h \in {"asked", "nearest", "elsewhere"},
               v \in Versions \cup {AutoVersion} \cup {o.electron : o \in Orders} :
              [w EXCEPT !.headers = h, !.version = v] \in WorkType
<1> DEFINE Vs == Versions \cup {AutoVersion} \cup {o.electron : o \in Orders}
<1> HIDE DEF Vs
<1>1. WorkType =
        [tarball : BOOLEAN, headers : {"none", "asked", "nearest", "elsewhere"},
         version : Vs, package : BOOLEAN, nodedir : BOOLEAN, patched : Nat,
         nodes : SUBSET Nodes, gyp : {"none", "ok", "failed"}]
  BY Zenon DEF WorkType, Vs
<1>2. \A h \in {"asked", "nearest", "elsewhere"}, v \in Vs :
        [w EXCEPT !.headers = h, !.version = v] \in WorkType
  BY <1>1
<1>3. \A b \in BOOLEAN : [w EXCEPT !.tarball = b] \in WorkType
  BY <1>1
<1>4. \A b \in BOOLEAN : [w EXCEPT !.nodedir = b] \in WorkType
  BY <1>1
<1>5. \A N \in SUBSET Nodes : [w EXCEPT !.package = TRUE, !.nodes = N] \in WorkType
  BY <1>1
<1>6. \A N \in SUBSET Nodes : [w EXCEPT !.nodes = @ \cup N] \in WorkType
  BY <1>1
<1>7. [w EXCEPT !.patched = @ + 1] \in WorkType
  BY <1>1
<1>8. \A g \in {"ok", "failed"}, N \in SUBSET Nodes :
        [w EXCEPT !.gyp = g, !.nodes = @ \cup N] \in WorkType
  BY <1>1
<1> QED
  BY <1>2, <1>3, <1>4, <1>5, <1>6, <1>7, <1>8 DEF Vs

LEMMA GoOnTypes ==
  ASSUME BuildTypeOK, GoOn(step', work'), step' \in Steps, work' \in WorkType,
         UNCHANGED <<sandbox, world, cached>>
  PROVE  BuildTypeOK'
  BY DEF BuildTypeOK, GoOn

LEMMA LeaveTypes ==
  ASSUME BuildTypeOK, NEW e \in Errors, GiveUp(e),
         sandbox' \in {"none", "running", "exit 0", "exit 1"}, UNCHANGED <<world, cached>>
  PROVE  BuildTypeOK'
  BY GiveUpTypes DEF BuildTypeOK

LEMMA RoundTypes ==
  ASSUME BuildTypeOK, Round(work'), work' \in WorkType, left # <<>>,
         UNCHANGED <<sandbox, world, cached>>
  PROVE  BuildTypeOK'
<1>1. \A S : \A q \in Seq(S) : q # <<>> => Tail(q) \in Seq(S)
  OBVIOUS
<1>2. left' \in Seq(STRING)
  BY <1>1, Zenon DEF BuildTypeOK, Round
<1> QED
  BY <1>2 DEF BuildTypeOK, Round

\* A step that only goes on or gives up.
LEMMA HeadersTypes ==
  ASSUME BuildTypeOK, FetchHeaders
  PROVE  BuildTypeOK'
<1> DEFINE Vs == Versions \cup {AutoVersion} \cup {o.electron : o \in Orders}
<1>1. \A kind \in {"asked", "nearest", "elsewhere"}, v \in Vs, done \in BOOLEAN :
        HeadersOf(kind, v, done) \in WorkType
  BY TreeTypes DEF HeadersOf, BuildTypeOK
<1>2. order.electron \in Vs
  BY OrderParts DEF BuildTypeOK
<1>3. \A v \in Nearest(order.electron) : v \in Vs
  BY VersionsAssumption DEF Nearest, BuildTypeOK
<1> HIDE DEF Vs
<1>4. AutoVersion \in Vs
  BY DEF Vs
<1>5. CASE GiveUp("preparation")
  BY <1>5, LeaveTypes DEF FetchHeaders, BuildTypeOK, Errors
<1>6. CASE ~GiveUp("preparation")
  <2>1. \E t \in WorkType : GoOn("unpack", t)
    BY <1>1, <1>2, <1>3, <1>4, <1>6 DEF FetchHeaders
  <2>2. UNCHANGED <<sandbox, world, cached>>
    BY DEF FetchHeaders
  <2> QED
    BY <2>1, <2>2, GoOnTypes DEF GoOn, Steps
<1> QED
  BY <1>5, <1>6

LEMMA CompilerTypes ==
  ASSUME BuildTypeOK, SandboxExits
  PROVE  BuildTypeOK'
<1>1. work' \in WorkType
  <2>1. Outputs \subseteq Nodes
    BY DEF Nodes
  <2>2. ASSUME NEW gyp \in {"ok", "failed"}, NEW made \in SUBSET Outputs,
               work' = [work EXCEPT !.gyp = gyp, !.nodes = @ \cup made]
        PROVE  work' \in WorkType
    <3>1. made \in SUBSET Nodes
      BY <2>1
    <3> HIDE DEF WorkType
    <3> QED
      BY <2>2, <3>1, TreeTypes DEF BuildTypeOK
  <2> QED
    BY <2>2 DEF SandboxExits, BuildTypeOK
<1> QED
  BY <1>1 DEF SandboxExits, BuildTypeOK

LEMMA CollectTypes ==
  ASSUME BuildTypeOK, Collect
  PROVE  BuildTypeOK'
<1>1. \A n \in Binaries : n \in Nodes
  <2>1. work.nodes \in SUBSET Nodes
    BY DEF BuildTypeOK, WorkType
  <2> QED
    BY <2>1 DEF Binaries, Largest
<1>2. PICK e \in Errors, n \in Nodes \cup {NoNode} : Return(e, TRUE, n)
  BY <1>1 DEF Collect, Errors
<1> QED
  BY <1>2, ReturnTypes DEF Collect, BuildTypeOK

LEMMA PollTypes ==
  ASSUME BuildTypeOK, PollExited
  PROVE  BuildTypeOK'
<1>1. CASE sandbox = "exit 0"
  BY <1>1 DEF PollExited, GoOn, BuildTypeOK, Steps
<1>2. CASE sandbox # "exit 0"
  BY <1>2, ReturnTypes DEF PollExited, BuildTypeOK, Errors
<1> QED
  BY <1>1, <1>2

LEMMA UnpackTypes ==
  ASSUME BuildTypeOK, Unpack
  PROVE  BuildTypeOK'
<1>1. CASE GiveUp("preparation")
  BY <1>1, LeaveTypes DEF Unpack, BuildTypeOK, Errors
<1>2. CASE ~GiveUp("preparation")
  <2>1. order.shipped \in SUBSET Nodes
    BY OrderParts DEF BuildTypeOK
  <2>2. [work EXCEPT !.package = TRUE, !.nodes = order.shipped] \in WorkType
    BY <2>1, TreeTypes DEF BuildTypeOK
  <2>3. \E t \in WorkType : GoOn("unpackHeaders", t)
    BY <1>2, <2>2 DEF Unpack, BuildTypeOK
  <2> QED
    BY <2>3, GoOnTypes DEF GoOn, Steps, Unpack
<1> QED
  BY <1>1, <1>2

LEMMA DependencyTypes ==
  ASSUME BuildTypeOK, FetchDependency
  PROVE  BuildTypeOK'
<1>1. CASE GiveUp("preparation")
  BY <1>1, LeaveTypes DEF FetchDependency, BuildTypeOK, Errors
<1>2. CASE ~GiveUp("preparation")
  <2>1. order.carried \in SUBSET Nodes
    BY OrderParts DEF BuildTypeOK
  <2>2. [work EXCEPT !.nodes = @ \cup order.carried] \in WorkType
    BY <2>1, TreeTypes DEF BuildTypeOK
  <2>3. \E t \in WorkType : Round(t)
    BY <1>2, <2>2 DEF FetchDependency, BuildTypeOK
  <2> QED
    BY <2>3, RoundTypes DEF Round, FetchDependency
<1> QED
  BY <1>1, <1>2

LEMMA PatchTypes ==
  ASSUME BuildTypeOK, ApplyPatch
  PROVE  BuildTypeOK'
<1>1. CASE GiveUp("preparation")
  BY <1>1, LeaveTypes DEF ApplyPatch, BuildTypeOK, Errors
<1>2. CASE ~GiveUp("preparation")
  <2>1. \E t \in WorkType : Round(t)
    BY <1>2, TreeTypes DEF ApplyPatch, BuildTypeOK
  <2> QED
    BY <2>1, RoundTypes DEF Round, ApplyPatch
<1> QED
  BY <1>1, <1>2

\* The variables of build_in_sandbox keep their types for any orders, worlds and
\* outputs, whichever of its steps fails and whenever the compiler ends.
THEOREM BuildTypeCorrect == BuildSpec => []BuildTypeOK
<1>1. BuildInit => BuildTypeOK
  <2>1. \A S : <<>> \in Seq(S)
    OBVIOUS
  <2>2. Failure("none") \in ResultType
    BY NothingReturnedType DEF Errors
  <2> QED
    BY <2>1, <2>2, EmptyWorkType DEF BuildInit, BuildTypeOK, Steps
<1>2. ASSUME BuildTypeOK, [BuildNext]_buildVars PROVE BuildTypeOK'
  <2> USE <1>2
  <2>1. ASSUME NEW o \in Orders, Call(o) PROVE BuildTypeOK'
    <3>1. Failure("none") \in ResultType
      BY NothingReturnedType DEF Errors
    <3> QED
      BY <2>1, <3>1 DEF Call, BuildTypeOK, Steps
  <2>2. CASE Refuse
    <3>1. \A e \in {"bwrap", "tempdir"} : Failure(e) \in ResultType
      BY NothingReturnedType DEF Errors
    <3> QED
      BY <2>2, <3>1 DEF Refuse, BuildTypeOK, Steps
  <2>3. CASE MakeDirectory
    <3> DEFINE job == [kept |-> TRUE, error |-> "none"]
               Jobs == [kept : BOOLEAN, error : Errors]
    <3>1. job \in Jobs
      BY DEF Errors
    <3>2. jobs \in Seq(Jobs) /\ jobs' = Append(jobs, job)
      BY <2>3 DEF MakeDirectory, BuildTypeOK
    <3> HIDE DEF job, Jobs
    <3>3. jobs' \in Seq(Jobs)
      BY <3>1, <3>2
    <3> QED
      BY <2>3, <3>3, EmptyWorkType DEF MakeDirectory, BuildTypeOK, Steps, Jobs
  <2>4. CASE FetchTarball
    <3>1. CASE GiveUp("preparation")
      BY <2>4, <3>1, LeaveTypes DEF FetchTarball, BuildTypeOK, Errors
    <3>2. CASE ~GiveUp("preparation")
      <4>1. \E t \in WorkType : GoOn("headers", t)
        BY <2>4, <3>2, TreeTypes DEF FetchTarball, BuildTypeOK
      <4> QED
        BY <2>4, <4>1, GoOnTypes DEF GoOn, Steps, FetchTarball
    <3> QED
      BY <3>1, <3>2
  <2>5. CASE FetchHeaders
    BY <2>5, HeadersTypes
  <2>6. CASE Unpack
    BY <2>6, UnpackTypes
  <2>7. CASE UnpackHeaders
    <3>1. CASE GiveUp("preparation")
      BY <2>7, <3>1, LeaveTypes DEF UnpackHeaders, BuildTypeOK, Errors
    <3>2. CASE ~GiveUp("preparation")
      <4>1. \E t \in WorkType : GoOn("locate", t)
        BY <2>7, <3>2, TreeTypes DEF UnpackHeaders, BuildTypeOK
      <4> QED
        BY <2>7, <4>1, GoOnTypes DEF GoOn, Steps, UnpackHeaders
    <3> QED
      BY <3>1, <3>2
  <2>8. CASE LocatePackage
    <3>1. CASE GiveUp("preparation")
      BY <2>8, <3>1, LeaveTypes DEF LocatePackage, BuildTypeOK, Errors
    <3>2. CASE ~GiveUp("preparation")
      BY <2>8, <3>2, OrderParts DEF LocatePackage, BuildTypeOK, Steps
    <3> QED
      BY <3>1, <3>2
  <2>9. CASE FetchDependency
    BY <2>9, DependencyTypes
  <2>10. CASE DependenciesDone
    BY <2>10, OrderParts DEF DependenciesDone, BuildTypeOK, Steps
  <2>11. CASE ApplyPatch
    BY <2>11, PatchTypes
  <2>12. CASE PatchesDone
    BY <2>12 DEF PatchesDone, GoOn, BuildTypeOK, Steps
  <2>13. CASE StartSandbox
    <3>1. CASE GiveUp("preparation") /\ UNCHANGED sandbox
      BY <2>13, <3>1, LeaveTypes DEF StartSandbox, BuildTypeOK, Errors
    <3>2. CASE sandbox' = "running" /\ GoOn("waiting", work)
      BY <2>13, <3>2 DEF StartSandbox, GoOn, BuildTypeOK, Steps
    <3> QED
      BY <2>13, <3>1, <3>2 DEF StartSandbox
  <2>14. CASE PollExited
    BY <2>14, PollTypes
  <2>15. CASE StopWaiting
    BY <2>15 DEF StopWaiting, GoOn, BuildTypeOK, Steps
  <2>16. CASE Reap
    BY <2>16, LeaveTypes DEF Reap, Errors
  <2>17. CASE Collect
    BY <2>17, CollectTypes
  <2>18. CASE SandboxExits
    BY <2>18, CompilerTypes
  <2>19. ASSUME NEW v \in Installable, Acquire(v) PROVE BuildTypeOK'
    BY <2>19 DEF Acquire, BuildTypeOK
  <2>20. CASE UNCHANGED buildVars
    BY <2>20 DEF buildVars, BuildTypeOK
  <2> QED
    BY <2>1, <2>2, <2>3, <2>4, <2>5, <2>6, <2>7, <2>8, <2>9, <2>10, <2>11, <2>12,
       <2>13, <2>14, <2>15, <2>16, <2>17, <2>18, <2>19, <2>20 DEF BuildNext, BuilderStep
<1> QED
  BY <1>1, <1>2, PTL DEF BuildSpec

-------------------------------------------------------------------------------
\* The directories and the sandbox

Underway == step \in Steps \ {"idle", "check"}

Job == [kept : BOOLEAN, error : Errors]

Verdict(job) == job.kept <=> job.error \in {"none", "failed", "no output"}

Open == Underway => jobs # <<>> /\ jobs[Len(jobs)].kept

\* The builds that are over, as long as no new directory has been made.
Verdicts ==
  \A j \in DOMAIN jobs : Verdict(jobs[j]) \/ (Underway /\ j = Len(jobs))

Contained == sandbox # "none" => step \in {"waiting", "reaping"}

Directories == Open /\ Verdicts /\ Contained

\* A step that leaves the directories alone.
LEMMA DirectoriesKept ==
  ASSUME BuildTypeOK, Directories, UNCHANGED jobs, Underway, Underway', Contained'
  PROVE  Directories'
  BY DEF Directories, Open, Verdicts

\* Returning from a build that has a directory.
LEMMA DirectoriesReturned ==
  ASSUME BuildTypeOK, Directories, Underway, sandbox' = "none",
         NEW job \in Job, jobs' = [jobs EXCEPT ![Len(jobs)] = job], step' = "idle",
         Verdict(job)
  PROVE  Directories'
<1>1. jobs \in Seq(Job) /\ jobs # <<>>
  BY DEF Directories, Open, BuildTypeOK, Job
<1>2. DOMAIN jobs' = DOMAIN jobs /\ Len(jobs) \in DOMAIN jobs /\ DOMAIN jobs = 1..Len(jobs)
  BY <1>1
<1>3. \A j \in DOMAIN jobs : jobs'[j] = IF j = Len(jobs) THEN job ELSE jobs[j]
  BY <1>1, <1>2
<1>4. Verdicts'
  BY <1>2, <1>3 DEF Directories, Verdicts, Verdict
<1> QED
  BY <1>4 DEF Directories, Open, Contained, Underway

LEMMA DirectoriesGivenUp ==
  ASSUME BuildTypeOK, Directories, Underway, sandbox' = "none",
         NEW e \in {"preparation", "timeout"}, GiveUp(e)
  PROVE  Directories'
<1> DEFINE job == [kept |-> FALSE, error |-> e]
<1>1. job \in Job /\ Verdict(job)
  BY DEF Job, Errors, Verdict
<1>2. step' = "idle" /\ jobs' = [jobs EXCEPT ![Len(jobs)] = job]
  BY DEF GiveUp, Return
<1> HIDE DEF job
<1> QED
  BY <1>1, <1>2, DirectoriesReturned

LEMMA DirectoriesLeft ==
  ASSUME BuildTypeOK, Directories, Underway, sandbox' = "none",
         NEW e \in {"none", "failed", "no output"}, NEW n, Return(e, TRUE, n)
  PROVE  Directories'
<1> DEFINE job == [kept |-> TRUE, error |-> e]
<1>1. job \in Job /\ Verdict(job)
  BY DEF Job, Errors, Verdict
<1>2. step' = "idle" /\ jobs' = [jobs EXCEPT ![Len(jobs)] = job]
  BY DEF Return
<1> HIDE DEF job
<1> QED
  BY <1>1, <1>2, DirectoriesReturned

\* The steps before the compiler: on to another one, or out.
LEMMA DirectoriesPreparing ==
  ASSUME BuildTypeOK, Directories, Underway, step \notin {"waiting", "reaping"},
         UNCHANGED sandbox,
         \/ GiveUp("preparation")
         \/ UNCHANGED jobs /\ Underway'
  PROVE  Directories'
<1>1. sandbox = "none"
  BY DEF Directories, Contained
<1> QED
  BY <1>1, DirectoriesGivenUp, DirectoriesKept DEF Contained

\* A build under way has its directory under /tmp, a build that is over has left it
\* there just if it came to the compiler's verdict, and nothing runs in a sandbox
\* but while build_in_sandbox polls it or waits for it.
THEOREM DirectoriesAlways == BuildSpec => []Directories
<1>1. BuildInit => Directories
  BY DEF BuildInit, Directories, Open, Verdicts, Contained, Underway, Steps
<1>2. ASSUME BuildTypeOK, Directories, [BuildNext]_buildVars PROVE Directories'
  <2> USE <1>2
  <2>1. ASSUME NEW o \in Orders, Call(o) PROVE Directories'
    BY <2>1 DEF Call, Directories, Open, Verdicts, Contained, Underway, Steps
  <2>2. CASE Refuse
    BY <2>2 DEF Refuse, Directories, Open, Verdicts, Contained, Underway, Steps
  <2>3. CASE MakeDirectory
    <3> DEFINE job == [kept |-> TRUE, error |-> "none"]
    <3>1. job.kept /\ Verdict(job)
      BY DEF Verdict
    <3>2. jobs \in Seq(Job) /\ jobs' = Append(jobs, job)
      BY <2>3 DEF MakeDirectory, BuildTypeOK, Job
    <3> HIDE DEF job
    <3>3. /\ jobs' # <<>> /\ Len(jobs') \in DOMAIN jobs' /\ jobs'[Len(jobs')] = job
          /\ \A j \in DOMAIN jobs' : j = Len(jobs') \/ (j \in DOMAIN jobs /\ jobs'[j] = jobs[j])
      BY <3>2
    <3>4. ~Underway /\ Underway' /\ sandbox' = "none"
      BY <2>3 DEF MakeDirectory, Underway, Steps, Directories, Contained
    <3> QED
      BY <3>1, <3>3, <3>4 DEF Directories, Open, Verdicts, Contained
  <2>4. CASE FetchTarball \/ FetchHeaders \/ Unpack \/ UnpackHeaders
    <3>1. Underway /\ step \notin {"waiting", "reaping"} /\ UNCHANGED sandbox
      BY <2>4 DEF FetchTarball, FetchHeaders, Unpack, UnpackHeaders, Underway, Steps
    <3>2. GiveUp("preparation") \/ (UNCHANGED jobs /\ Underway')
      BY <2>4 DEF FetchTarball, FetchHeaders, Unpack, UnpackHeaders, GoOn, Underway, Steps
    <3> QED
      BY <3>1, <3>2, DirectoriesPreparing
  <2>5. CASE LocatePackage \/ FetchDependency \/ DependenciesDone
    <3>1. Underway /\ step \notin {"waiting", "reaping"} /\ UNCHANGED sandbox
      BY <2>5 DEF LocatePackage, FetchDependency, DependenciesDone, Underway, Steps
    <3>2. GiveUp("preparation") \/ (UNCHANGED jobs /\ Underway')
      BY <2>5 DEF LocatePackage, FetchDependency, DependenciesDone, Round, Underway, Steps
    <3> QED
      BY <3>1, <3>2, DirectoriesPreparing
  <2>6. CASE ApplyPatch \/ PatchesDone
    <3>1. Underway /\ step \notin {"waiting", "reaping"} /\ UNCHANGED sandbox
      BY <2>6 DEF ApplyPatch, PatchesDone, Underway, Steps
    <3>2. GiveUp("preparation") \/ (UNCHANGED jobs /\ Underway')
      BY <2>6 DEF ApplyPatch, PatchesDone, Round, GoOn, Underway, Steps
    <3> QED
      BY <3>1, <3>2, DirectoriesPreparing
  <2>7. CASE StartSandbox
    <3>1. Underway /\ step \notin {"waiting", "reaping"}
      BY <2>7 DEF StartSandbox, Underway, Steps
    <3>2. CASE GiveUp("preparation") /\ UNCHANGED sandbox
      BY <3>1, <3>2, DirectoriesPreparing
    <3>3. CASE sandbox' = "running" /\ GoOn("waiting", work)
      BY <3>1, <3>3, DirectoriesKept DEF GoOn, Underway, Steps, Contained
    <3> QED
      BY <2>7, <3>2, <3>3 DEF StartSandbox
  <2>8. CASE SandboxExits
    <3>1. Underway /\ Underway' /\ UNCHANGED <<jobs, step>>
      BY <2>8 DEF SandboxExits, Directories, Contained, Underway, Steps
    <3> QED
      BY <2>8, <3>1 DEF Directories, Open, Verdicts, Contained, SandboxExits
  <2>9. CASE PollExited
    <3>1. Underway /\ sandbox' = "none"
      BY <2>9 DEF PollExited, Underway, Steps
    <3>2. CASE GoOn("collect", work)
      BY <3>1, <3>2, DirectoriesKept DEF GoOn, Underway, Steps, Contained
    <3>3. CASE Return("failed", TRUE, NoNode)
      BY <3>1, <3>3, DirectoriesLeft
    <3> QED
      BY <2>9, <3>2, <3>3 DEF PollExited
  <2>10. CASE StopWaiting
    BY <2>10, DirectoriesKept DEF StopWaiting, GoOn, Underway, Steps, Contained
  <2>11. CASE Reap
    BY <2>11, DirectoriesGivenUp DEF Reap, Underway, Steps
  <2>12. CASE Collect
    <3>1. Underway /\ sandbox' = "none"
      BY <2>12 DEF Collect, Underway, Steps, Directories, Contained
    <3>2. PICK e \in {"none", "no output"}, n \in Binaries \cup {NoNode} : Return(e, TRUE, n)
      BY <2>12 DEF Collect
    <3> QED
      BY <3>1, <3>2, DirectoriesLeft
  <2>13. ASSUME NEW v \in Installable, Acquire(v) PROVE Directories'
    BY <2>13 DEF Acquire, Directories, Open, Verdicts, Contained, Underway
  <2>14. CASE UNCHANGED buildVars
    BY <2>14 DEF buildVars, Directories, Open, Verdicts, Contained, Underway
  <2> QED
    BY <2>1, <2>2, <2>3, <2>4, <2>5, <2>6, <2>7, <2>8, <2>9, <2>10, <2>11, <2>12,
       <2>13, <2>14 DEF BuildNext, BuilderStep
<1> QED
  BY <1>1, <1>2, BuildTypeCorrect, PTL DEF BuildSpec

\* build_in_sandbox neither returns nor removes the directory while its sandbox
\* lives, whatever the deadline of the polling loop does.
THEOREM SandboxIsContainedAlways == BuildSpec => []SandboxIsContained
<1>1. Directories => SandboxIsContained
  BY DEF Directories, Open, Contained, SandboxIsContained, Underway, Steps
<1> QED
  BY <1>1, DirectoriesAlways, PTL

\* After any number of builds, none of those has left its directory under /tmp that
\* ended before the compiler's verdict.
THEOREM EarlyEndsCleanUpAlways == BuildSpec => []EarlyEndsCleanUp
<1>1. Directories => EarlyEndsCleanUp
  BY DEF Directories, Verdicts, Verdict, EarlyEndsCleanUp, Ended, Underway, Steps
<1> QED
  BY <1>1, DirectoriesAlways, PTL

-------------------------------------------------------------------------------
\* What is in the tree at each step

Compiling == {"compile", "waiting", "reaping"}
FromPatches == {"patches"} \cup Compiling
FromDependencies == {"dependencies"} \cup FromPatches
FromLocate == {"locate"} \cup FromDependencies
FromUnpack == {"unpack", "unpackHeaders"} \cup FromLocate
BeforePatches == {"tarball", "headers", "unpack", "unpackHeaders", "locate", "dependencies"}

HasHeaders == step \in FromUnpack => work.headers # "none"
HasNodedir == step \in FromLocate => work.nodedir
HasPackage == step \in FromDependencies => work.package
HasPatches ==
  /\ step \in BeforePatches => work.patched = 0
  /\ step = "patches" => work.patched + Len(left) = Len(order.patches)
  /\ step \in Compiling => work.patched = Len(order.patches)

Prepared == ~world.auto_reap => HasHeaders /\ HasNodedir /\ HasPackage /\ HasPatches

\* Before and after a build, and when the compiler is done, nothing is claimed.
LEMMA PreparedOutside ==
  ASSUME step' \in {"idle", "check", "collect"}
  PROVE  Prepared'
  BY DEF Prepared, HasHeaders, HasNodedir, HasPackage, HasPatches, FromUnpack, FromLocate,
         FromDependencies, FromPatches, BeforePatches, Compiling

LEMMA PreparedGivenUp ==
  ASSUME NEW e, GiveUp(e)
  PROVE  Prepared'
  BY PreparedOutside DEF GiveUp, Return

LEMMA PreparedByHeaders ==
  ASSUME BuildTypeOK, Prepared, FetchHeaders
  PROVE  Prepared'
<1>1. CASE GiveUp("preparation")
  BY <1>1, PreparedGivenUp
<1>2. CASE ~GiveUp("preparation") /\ ~world.auto_reap
  <2>1. \A kind \in {"asked", "nearest", "elsewhere"} : \A v :
          /\ HeadersOf(kind, v, TRUE).headers = kind
          /\ HeadersOf(kind, v, TRUE).patched = work.patched
    BY DEF HeadersOf, BuildTypeOK, WorkType
  <2>2. \E kind \in {"asked", "nearest", "elsewhere"} : \E v : GoOn("unpack", HeadersOf(kind, v, TRUE))
    BY <1>2 DEF FetchHeaders, Seen
  <2>3. work'.headers # "none" /\ work'.patched = work.patched /\ step' = "unpack"
    BY <2>1, <2>2 DEF GoOn
  <2> QED
    BY <2>3 DEF Prepared, FetchHeaders, HasHeaders, HasNodedir, HasPackage, HasPatches,
       FromUnpack, FromLocate, FromDependencies, FromPatches, BeforePatches, Compiling
<1>3. CASE world.auto_reap
  BY <1>3 DEF Prepared, FetchHeaders
<1> QED
  BY <1>1, <1>2, <1>3

\* A step that changes neither the headers nor the number of patches nor removes
\* anything that is there, and brings what the next one needs.
LEMMA PreparedFurther ==
  ASSUME BuildTypeOK, Prepared, UNCHANGED <<world, order>>,
         work'.headers = work.headers, work'.patched = work.patched,
         work.package => work'.package,
         \/ step = "tarball" /\ step' = "headers"
         \/ step = "unpack" /\ step' = "unpackHeaders"
         \/ step = "unpackHeaders" /\ step' = "locate" /\ (world.auto_reap \/ work'.nodedir)
         \/ /\ step = "locate" /\ step' = "dependencies"
            /\ work.nodedir => work'.nodedir
            /\ work'.package
         \/ /\ step = "dependencies" /\ step' = "dependencies"
            /\ work.nodedir => work'.nodedir
         \/ /\ step = "dependencies" /\ step' = "patches"
            /\ work.nodedir => work'.nodedir
            /\ left' = order.patches
         \/ /\ step = "patches" /\ step' = "compile" /\ left = <<>>
            /\ work.nodedir => work'.nodedir
         \/ /\ step = "compile" /\ step' = "waiting"
            /\ work.nodedir => work'.nodedir
         \/ /\ step = "waiting" /\ step' \in {"waiting", "reaping"}
            /\ work.nodedir => work'.nodedir
         \/ /\ step = "reaping" /\ step' = "reaping"
            /\ work.nodedir => work'.nodedir
  PROVE  Prepared'
<1>1. work.patched \in Nat /\ order.patches \in Seq(STRING)
  BY OrderParts DEF BuildTypeOK, WorkType
<1>2. Len(order.patches) \in Nat /\ Len(<<>>) = 0
  BY <1>1
<1> HIDE DEF BuildTypeOK
<1>3. HasHeaders' \/ world.auto_reap
  BY DEF Prepared, HasHeaders, FromUnpack, FromLocate, FromDependencies, FromPatches, Compiling
<1>4. HasNodedir' \/ world.auto_reap
  BY DEF Prepared, HasNodedir, FromLocate, FromDependencies, FromPatches, Compiling
<1>5. HasPackage' \/ world.auto_reap
  BY DEF Prepared, HasPackage, FromDependencies, FromPatches, Compiling
<1>6. HasPatches' \/ world.auto_reap
  BY <1>1, <1>2 DEF Prepared, HasPatches, BeforePatches, Compiling
<1> QED
  BY <1>3, <1>4, <1>5, <1>6 DEF Prepared

LEMMA PreparedByPatch ==
  ASSUME BuildTypeOK, Prepared, ApplyPatch
  PROVE  Prepared'
<1>1. CASE GiveUp("preparation")
  BY <1>1, PreparedGivenUp
<1>2. CASE ~GiveUp("preparation") /\ ~world.auto_reap
  <2>1. Round([work EXCEPT !.patched = @ + 1])
    BY <1>2 DEF ApplyPatch, Seen
  <2>2. /\ work'.headers = work.headers /\ work'.nodedir = work.nodedir
        /\ work'.package = work.package /\ work'.patched = work.patched + 1
    BY <2>1 DEF Round, BuildTypeOK, WorkType
  <2>3. work.patched \in Nat /\ Len(order.patches) \in Nat
    <3>1. order.patches \in Seq(STRING)
      BY OrderParts DEF BuildTypeOK
    <3>2. work.patched \in Nat
      BY DEF BuildTypeOK, WorkType
    <3> QED
      BY <3>1, <3>2
  <2>4. Len(left') = Len(left) - 1 /\ Len(left) \in Nat
    <3>1. \A S : \A q \in Seq(S) : q # <<>> => Len(Tail(q)) = Len(q) - 1 /\ Len(q) \in Nat
      OBVIOUS
    <3>2. left \in Seq(STRING) /\ left # <<>> /\ left' = Tail(left)
      BY <2>1 DEF ApplyPatch, Round, BuildTypeOK
    <3> QED
      BY <3>1, <3>2, Zenon
  <2>5. step = "patches" /\ step' = "patches" /\ UNCHANGED <<order, world>>
    BY <2>1 DEF ApplyPatch, Round
  <2>6. work'.patched + Len(left') = Len(order'.patches)
    BY <1>2, <2>2, <2>3, <2>4, <2>5 DEF Prepared, HasPatches
  <2> QED
    BY <1>2, <2>2, <2>5, <2>6 DEF Prepared, HasHeaders, HasNodedir, HasPackage, HasPatches,
       FromUnpack, FromLocate, FromDependencies, FromPatches, BeforePatches, Compiling
<1>3. CASE world.auto_reap
  BY <1>3 DEF Prepared, ApplyPatch
<1> QED
  BY <1>1, <1>2, <1>3

\* Unless SIGCHLD is ignored, each step of build_in_sandbox finds the headers, the
\* node directory, the package and the patches that the steps before it are for.
THEOREM PreparedAlways == BuildSpec => []Prepared
<1>1. BuildInit => Prepared
  BY DEF BuildInit, Prepared, HasHeaders, HasNodedir, HasPackage, HasPatches, FromUnpack,
     FromLocate, FromDependencies, FromPatches, BeforePatches, Compiling
<1>2. ASSUME BuildTypeOK, Directories, Prepared, [BuildNext]_buildVars PROVE Prepared'
  <2> USE <1>2
  <2>1. ASSUME NEW o \in Orders, Call(o) PROVE Prepared'
    BY <2>1, PreparedOutside DEF Call
  <2>2. CASE Refuse
    BY <2>2, PreparedOutside DEF Refuse
  <2>3. CASE MakeDirectory
    BY <2>3 DEF MakeDirectory, EmptyWork, Prepared, HasHeaders, HasNodedir, HasPackage,
       HasPatches, FromUnpack, FromLocate, FromDependencies, FromPatches, Compiling
  <2>4. CASE FetchTarball
    <3>1. CASE GiveUp("preparation")
      BY <3>1, PreparedGivenUp
    <3>2. CASE ~GiveUp("preparation")
      BY <2>4, <3>2, PreparedFurther DEF FetchTarball, GoOn, BuildTypeOK, WorkType
    <3> QED
      BY <3>1, <3>2
  <2>5. CASE FetchHeaders
    BY <2>5, PreparedByHeaders
  <2>6. CASE Unpack
    <3>1. CASE GiveUp("preparation")
      BY <3>1, PreparedGivenUp
    <3>2. CASE ~GiveUp("preparation")
      BY <2>6, <3>2, PreparedFurther DEF Unpack, GoOn, BuildTypeOK, WorkType
    <3> QED
      BY <3>1, <3>2
  <2>7. CASE UnpackHeaders
    <3>1. CASE GiveUp("preparation")
      BY <3>1, PreparedGivenUp
    <3>2. CASE ~GiveUp("preparation")
      <4>1. PICK done \in BOOLEAN :
              GoOn("locate", [work EXCEPT !.nodedir = done]) /\ (world.auto_reap \/ done)
        BY <2>7, <3>2 DEF UnpackHeaders, Seen
      <4>2. work' = [work EXCEPT !.nodedir = done] /\ step' = "locate" /\ UNCHANGED order
        BY <4>1 DEF GoOn
      <4>3. /\ work'.headers = work.headers /\ work'.package = work.package
            /\ work'.patched = work.patched /\ work'.nodedir = done
        BY <4>2 DEF BuildTypeOK, WorkType
      <4>4. world.auto_reap \/ work'.nodedir
        BY <4>1, <4>3
      <4>5. step = "unpackHeaders" /\ UNCHANGED world
        BY <2>7 DEF UnpackHeaders
      <4> QED
        BY <4>2, <4>3, <4>4, <4>5, PreparedFurther
    <3> QED
      BY <3>1, <3>2
  <2>8. CASE LocatePackage
    <3>1. CASE GiveUp("preparation")
      BY <3>1, PreparedGivenUp
    <3>2. CASE ~GiveUp("preparation")
      BY <2>8, <3>2, PreparedFurther DEF LocatePackage
    <3> QED
      BY <3>1, <3>2
  <2>9. CASE FetchDependency
    <3>1. CASE GiveUp("preparation")
      BY <3>1, PreparedGivenUp
    <3>2. CASE ~GiveUp("preparation")
      BY <2>9, <3>2, PreparedFurther DEF FetchDependency, Round, BuildTypeOK, WorkType
    <3> QED
      BY <3>1, <3>2
  <2>10. CASE DependenciesDone
    BY <2>10, PreparedFurther DEF DependenciesDone
  <2>11. CASE ApplyPatch
    BY <2>11, PreparedByPatch
  <2>12. CASE PatchesDone
    BY <2>12, PreparedFurther DEF PatchesDone, GoOn
  <2>13. CASE StartSandbox
    <3>1. CASE GiveUp("preparation")
      BY <3>1, PreparedGivenUp
    <3>2. CASE ~GiveUp("preparation")
      BY <2>13, <3>2, PreparedFurther DEF StartSandbox, GoOn
    <3> QED
      BY <3>1, <3>2
  <2>14. CASE SandboxExits
    <3>1. step \in {"waiting", "reaping"}
      BY <2>14 DEF SandboxExits, Directories, Contained
    <3>2. /\ work'.headers = work.headers /\ work'.package = work.package
          /\ work'.nodedir = work.nodedir /\ work'.patched = work.patched
      BY <2>14 DEF SandboxExits, BuildTypeOK, WorkType
    <3> QED
      BY <2>14, <3>1, <3>2, PreparedFurther DEF SandboxExits
  <2>15. CASE PollExited
    BY <2>15, PreparedOutside DEF PollExited, GoOn, Return
  <2>16. CASE StopWaiting
    BY <2>16, PreparedFurther DEF StopWaiting, GoOn
  <2>17. CASE Reap
    BY <2>17, PreparedGivenUp DEF Reap
  <2>18. CASE Collect
    BY <2>18, PreparedOutside DEF Collect, Return
  <2>19. ASSUME NEW v \in Installable, Acquire(v) PROVE Prepared'
    BY <2>19 DEF Acquire, Prepared, HasHeaders, HasNodedir, HasPackage, HasPatches
  <2>20. CASE UNCHANGED buildVars
    BY <2>20 DEF buildVars, Prepared, HasHeaders, HasNodedir, HasPackage, HasPatches
  <2> QED
    BY <2>1, <2>2, <2>3, <2>4, <2>5, <2>6, <2>7, <2>8, <2>9, <2>10, <2>11, <2>12,
       <2>13, <2>14, <2>15, <2>16, <2>17, <2>18, <2>19, <2>20 DEF BuildNext, BuilderStep
<1> QED
  BY <1>1, <1>2, BuildTypeCorrect, DirectoriesAlways, PTL DEF BuildSpec

\* No compiler is started, or is running, on a tree that lacks the sources, the
\* headers or one of the patches, unless SIGCHLD is ignored.
THEOREM SandboxReadyAlways == BuildSpec => []SandboxReady
<1>1. Directories /\ Prepared => SandboxReady
  BY DEF Directories, Contained, Prepared, HasHeaders, HasNodedir, HasPackage, HasPatches,
     FromUnpack, FromLocate, FromDependencies, FromPatches, Compiling, SandboxReady
<1> QED
  BY <1>1, DirectoriesAlways, PreparedAlways, PTL

-------------------------------------------------------------------------------
\* What is returned

\* success is set by Collect alone, and kept until the next call.
Answer ==
  /\ step # "idle" => result.success = FALSE
  /\ step = "collect" => ~world.auto_reap
  /\ SuccessNamesBinary

\* A step of a build that has not succeeded so far.
LEMMA AnswerOpen ==
  ASSUME BuildTypeOK, Answer, step # "idle", UNCHANGED <<result, world>>,
         step' # "collect" \/ ~world.auto_reap
  PROVE  Answer'
  BY DEF Answer, SuccessNamesBinary

LEMMA AnswerFailed ==
  ASSUME step' \in {"idle", "check"}, result'.success = FALSE
  PROVE  Answer'
  BY DEF Answer, SuccessNamesBinary

LEMMA AnswerGivenUp ==
  ASSUME NEW e \in {"preparation", "timeout"}, GiveUp(e)
  PROVE  Answer'
<1>1. step' = "idle" /\ result'.success = FALSE
  BY DEF GiveUp, Return
<1> QED
  BY <1>1, AnswerFailed

LEMMA AnswerCollected ==
  ASSUME BuildTypeOK, Directories, Answer, Collect
  PROVE  Answer'
<1>1. CASE Return("no output", TRUE, NoNode)
  <2>1. step' = "idle" /\ result'.success = FALSE
    BY <1>1 DEF Return
  <2> QED
    BY <2>1, AnswerFailed
<1>2. ASSUME NEW n \in Binaries, Return("none", TRUE, n) PROVE Answer'
  <2>1. n \in work.nodes /\ n.elf
    BY DEF Binaries, Largest
  <2>2. n.test => \A k \in work.nodes : k.elf => k.test
    BY DEF Binaries, Largest
  <2>3. result'.binary = n /\ work' = work /\ step' = "idle"
    BY <1>2 DEF Return
  <2>4. ~world.auto_reap /\ UNCHANGED world
    BY DEF Answer, Collect
  <2>5. jobs'[Len(jobs')].kept
    <3> DEFINE job == [kept |-> TRUE, error |-> "none"]
    <3>1. job.kept
      OBVIOUS
    <3>2. jobs \in Seq(Job) /\ jobs # <<>>
      BY DEF Collect, Directories, Open, Underway, Steps, BuildTypeOK, Job
    <3>3. jobs' = [jobs EXCEPT ![Len(jobs)] = job]
      BY <1>2 DEF Return
    <3> HIDE DEF job
    <3>4. Len(jobs') = Len(jobs) /\ jobs'[Len(jobs)] = job
      BY <3>2, <3>3
    <3> QED
      BY <3>1, <3>4
  <2> QED
    BY <2>1, <2>2, <2>3, <2>4, <2>5 DEF Answer, SuccessNamesBinary
<1> QED
  BY <1>1, <1>2 DEF Collect

\* While build_in_sandbox runs no earlier success is left in its answer, it looks
\* for a binary only where somebody waits for the compiler, and a success names one.
THEOREM AnswerAlways == BuildSpec => []Answer
<1>1. BuildInit => Answer
  BY DEF BuildInit, Failure, Answer, SuccessNamesBinary
<1>2. ASSUME BuildTypeOK, Directories, Answer, [BuildNext]_buildVars PROVE Answer'
  <2> USE <1>2
  <2>1. ASSUME NEW o \in Orders, Call(o) PROVE Answer'
    BY <2>1, AnswerFailed DEF Call, Failure
  <2>2. CASE Refuse
    BY <2>2, AnswerFailed DEF Refuse, Failure
  <2>3. CASE MakeDirectory
    BY <2>3, AnswerOpen DEF MakeDirectory
  <2>4. CASE FetchTarball \/ FetchHeaders \/ Unpack \/ UnpackHeaders
    <3>1. CASE GiveUp("preparation")
      BY <3>1, AnswerGivenUp
    <3>2. CASE ~GiveUp("preparation")
      BY <2>4, <3>2, AnswerOpen DEF FetchTarball, FetchHeaders, Unpack, UnpackHeaders, GoOn
    <3> QED
      BY <3>1, <3>2
  <2>5. CASE LocatePackage \/ FetchDependency \/ DependenciesDone
    <3>1. CASE GiveUp("preparation")
      BY <3>1, AnswerGivenUp
    <3>2. CASE ~GiveUp("preparation")
      BY <2>5, <3>2, AnswerOpen DEF LocatePackage, FetchDependency, DependenciesDone, Round
    <3> QED
      BY <3>1, <3>2
  <2>6. CASE ApplyPatch \/ PatchesDone \/ StartSandbox
    <3>1. CASE GiveUp("preparation")
      BY <3>1, AnswerGivenUp
    <3>2. CASE ~GiveUp("preparation")
      BY <2>6, <3>2, AnswerOpen DEF ApplyPatch, PatchesDone, StartSandbox, Round, GoOn
    <3> QED
      BY <3>1, <3>2
  <2>7. CASE SandboxExits
    <3>1. step # "idle" /\ step # "collect" /\ UNCHANGED <<step, result, world>>
      BY <2>7 DEF SandboxExits, Directories, Contained
    <3> QED
      BY <3>1, AnswerOpen
  <2>8. CASE PollExited
    <3>1. CASE GoOn("collect", work)
      BY <2>8, <3>1, AnswerOpen DEF PollExited, GoOn
    <3>2. CASE Return("failed", TRUE, NoNode)
      BY <3>2, AnswerFailed DEF Return
    <3> QED
      BY <2>8, <3>1, <3>2 DEF PollExited
  <2>9. CASE StopWaiting
    BY <2>9, AnswerOpen DEF StopWaiting, GoOn
  <2>10. CASE Reap
    BY <2>10, AnswerGivenUp DEF Reap
  <2>11. CASE Collect
    BY <2>11, AnswerCollected
  <2>12. ASSUME NEW v \in Installable, Acquire(v) PROVE Answer'
    BY <2>12 DEF Acquire, Answer, SuccessNamesBinary
  <2>13. CASE UNCHANGED buildVars
    BY <2>13 DEF buildVars, Answer, SuccessNamesBinary
  <2> QED
    BY <2>1, <2>2, <2>3, <2>4, <2>5, <2>6, <2>7, <2>8, <2>9, <2>10, <2>11, <2>12,
       <2>13 DEF BuildNext, BuilderStep
<1> QED
  BY <1>1, <1>2, BuildTypeCorrect, DirectoriesAlways, PTL DEF BuildSpec

\* What build_in_sandbox calls a success is an ELF file that is still on the disk,
\* and a file of a test only where there is nothing else.
THEOREM SuccessNamesBinaryAlways == BuildSpec => []SuccessNamesBinary
<1>1. Answer => SuccessNamesBinary
  BY DEF Answer
<1> QED
  BY <1>1, AnswerAlways, PTL

===============================================================================
