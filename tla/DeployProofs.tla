----------------------------- MODULE DeployProofs -----------------------------
(***************************************************************************)
(* Proofs about Deploy: the wait group counts the goroutines that are      *)
(* left, so none is when the channel is closed, and every failure sent on  *)
(* it is in the count that Deploy returns.                                 *)
(***************************************************************************)
EXTENDS Deploy, FiniteSetTheorems, TLAPS

(* The types of all variables but the two counts, whose ranges follow from *)
(* what they count.                                                        *)
Typed ==
  /\ cluster \in Deployments
  /\ main \in {"app", "proxy", "loadtest", "count", "wait", "closed", "deployed",
               "next", "launch", "tested"}
  /\ job \in [Job -> {"none", "ready", "working", "report", "gone"}]
  /\ failed \in SUBSET Job
  /\ reader \in {"none", "receive", "count", "gone"}
  /\ has \in [Machine -> SUBSET Thing]
  /\ target \in [Test -> {NoProxy} \union (0 .. NumProxies - 1)]
  /\ power \in [Machine -> {"up", "stopping", "down"}]
  /\ poll \in [Machine -> {"none", "sleep", "dial", "connected", "gone"}]
  /\ instanceNum \in 0 .. cluster.tests - 1 \/ instanceNum = 0
  /\ err \in BOOLEAN
  /\ test \in [Test -> {"none", "start", "connect", "run", "check", "gone"}]
  /\ number \in [Test -> {NoNumber} \union (0 .. cluster.tests - 1)]
  /\ result \in [Test -> BOOLEAN]
  /\ logged \in SUBSET Test

(* The goroutines that are left.                                           *)
Live     == {"ready", "working", "report"}
LiveJobs == {j \in Job : job[j] \in Live}

WaitGroupCounts == wg = Cardinality(LiveJobs)

(* A failure is on its way to the channel, or between it and the count, or *)
(* counted.                                                                *)
Received == {j \in failed : job[j] = "gone"}

ReceivedCounts ==
  /\ reader = "count" => failedCount + 1 = Cardinality(Received)
  /\ reader # "count" => failedCount = Cardinality(Received)
  /\ failedCount \in Nat

FailedReport == \A j \in Job :
  /\ job[j] = "report" => j \in failed
  /\ j \in failed => job[j] \in {"report", "gone"}

(* The goroutine of a kind has not started before main comes to it.        *)
NotYet ==
  /\ main = "app" => job[<<"app", 0>>] = "none"
  /\ main \in {"app", "proxy"} => job[<<"proxy", 0>>] = "none"
  /\ main \in {"app", "proxy", "loadtest"} => job[<<"loadtest", 0>>] = "none"

(* The reader lives from when main starts it until the channel is closed.  *)
ReaderLives ==
  /\ reader = "none" <=> main \in {"app", "proxy", "loadtest", "count"}
  /\ reader = "gone" => Returned \/ main = "closed"
  /\ Returned => reader = "gone"

IInv ==
  Typed /\ WaitGroupCounts /\ ReceivedCounts /\ FailedReport /\ NotYet /\ ReaderLives /\ NoneLeft

-----------------------------------------------------------------------------

(* The goroutines are known by their kind and number.                      *)
LEMMA JobsFinite ==
  ASSUME cluster \in Deployments
  PROVE  IsFiniteSet(Job) /\ IsFiniteSet(Machine) /\ Cardinality(Job) \in Nat
<1>1. IsFiniteSet({"app"}) /\ IsFiniteSet({"proxy"}) /\ IsFiniteSet({"loadtest"}) /\ IsFiniteSet({0})
  BY FS_Singleton
<1>2. IsFiniteSet({"app", "proxy"})
  <2>1. IsFiniteSet({"app"} \union {"proxy"})
    BY <1>1, FS_Union
  <2>2. {"app", "proxy"} = {"app"} \union {"proxy"}
    OBVIOUS
  <2> QED
    BY <2>1, <2>2
<1>3. IsFiniteSet(Kind)
  <2>1. IsFiniteSet({"app", "proxy"} \union {"loadtest"})
    BY <1>1, <1>2, FS_Union
  <2>2. Kind = {"app", "proxy"} \union {"loadtest"}
    BY DEF Kind
  <2> QED
    BY <2>1, <2>2
<1>4. IsFiniteSet(Coordinator)
  BY <1>1, <1>3, FS_Product DEF Coordinator
<1>5. IsFiniteSet(1 .. cluster.apps + cluster.tests)
  BY DeploymentsAssumption, FS_Interval
<1>6. IsFiniteSet(Kind \X (1 .. cluster.apps + cluster.tests))
  BY <1>3, <1>5, FS_Product
<1>7. Machine \in SUBSET (Kind \X (1 .. cluster.apps + cluster.tests))
  BY DEF Machine
<1>8. IsFiniteSet(Machine)
  BY <1>6, <1>7, FS_Subset
<1> QED
  BY <1>4, <1>8, FS_Union, FS_CardinalityType DEF Job

LEMMA LiveFinite ==
  ASSUME Typed
  PROVE  /\ IsFiniteSet(LiveJobs) /\ Cardinality(LiveJobs) \in 0 .. Cardinality(Job)
         /\ IsFiniteSet(Received) /\ Cardinality(Received) \in 0 .. Cardinality(Job)
<1>1. LiveJobs \in SUBSET Job /\ Received \in SUBSET Job
  BY DEF LiveJobs, Received, Typed
<1> QED
  BY <1>1, JobsFinite, FS_Subset, FS_CardinalityType DEF Typed

(* IInv implies what it is for.                                            *)
LEMMA Implied == IInv => TypeOK /\ FailuresCounted
<1> SUFFICES ASSUME IInv
             PROVE  TypeOK /\ FailuresCounted
  OBVIOUS
<1>1. wg \in 0 .. Cardinality(Job)
  BY LiveFinite DEF IInv, WaitGroupCounts
<1>2. failedCount \in 0 .. Cardinality(Job)
  <2>1. Cardinality(Received) \in 0 .. Cardinality(Job) /\ Cardinality(Job) \in Nat
    BY LiveFinite, JobsFinite DEF IInv, Typed
  <2> QED
    BY <2>1 DEF IInv, ReceivedCounts
<1>3. TypeOK
  BY <1>1, <1>2 DEF IInv, Typed, TypeOK
<1>4. FailuresCounted
  <2> SUFFICES ASSUME Returned
               PROVE  failedCount = Cardinality(failed)
    BY DEF FailuresCounted
  <2>1. Received = failed
    BY DEF IInv, Typed, NoneLeft, FailedReport, Received
  <2> QED
    BY <2>1 DEF IInv, ReceivedCounts, ReaderLives
<1> QED
  BY <1>3, <1>4

-----------------------------------------------------------------------------
(* The effects of the steps of goroutines on the counts.                   *)

LEMMA SameMachines ==
  ASSUME cluster' = cluster
  PROVE  Job' = Job /\ Machine' = Machine /\ Test' = Test /\ NumProxies' = NumProxies
  BY DEF Job, Coordinator, Machine, Size, NumProxies, Test

(* What the lemmas say of the next state.                                  *)
Counts == WaitGroupCounts /\ ReceivedCounts /\ FailedReport

LEMMA DoCounts ==
  ASSUME IInv, NEW j \in Job, job[j] = "none", Do(j), cluster' = cluster, failed' = failed,
         failedCount' = failedCount, reader' \in {reader, "receive"}, reader' = reader \/ reader = "none"
  PROVE  Counts'
<1>1. Job' = Job
  BY SameMachines
<1>2. LiveJobs' = LiveJobs \union {j} /\ j \notin LiveJobs
  BY <1>1 DEF IInv, Typed, Do, LiveJobs, Live
<1>3. Cardinality(LiveJobs \union {j}) = Cardinality(LiveJobs) + 1
  BY <1>2, LiveFinite, FS_AddElement DEF IInv
<1>4. Received' = Received
  BY <1>1 DEF IInv, Typed, Do, Received, FailedReport
<1> QED
  BY <1>1, <1>2, <1>3, <1>4 DEF IInv, Typed, Do, Counts, WaitGroupCounts, ReceivedCounts, FailedReport


LEMMA DoneCounts ==
  ASSUME IInv, NEW j \in Job, job[j] \in {"ready", "working"}, Done(j), cluster' = cluster,
         failedCount' = failedCount, reader' = reader
  PROVE  Counts'
<1>1. Job' = Job
  BY SameMachines
<1>2. LiveJobs' = LiveJobs \ {j} /\ j \in LiveJobs
  BY <1>1 DEF IInv, Typed, Done, LiveJobs, Live
<1>3. Cardinality(LiveJobs \ {j}) = Cardinality(LiveJobs) - 1
  BY <1>2, LiveFinite, FS_RemoveElement DEF IInv
<1>4. Received' = Received
  BY <1>1 DEF IInv, Typed, Done, Received, FailedReport
<1> QED
  BY <1>1, <1>2, <1>3, <1>4
     DEF IInv, Typed, Done, Counts, WaitGroupCounts, ReceivedCounts, FailedReport

LEMMA FailCounts ==
  ASSUME IInv, NEW j \in Job, job[j] \in {"ready", "working"}, Fail(j), cluster' = cluster,
         failedCount' = failedCount, reader' = reader
  PROVE  Counts'
<1>1. Job' = Job
  BY SameMachines
<1>2. LiveJobs' = LiveJobs
  BY <1>1 DEF IInv, Typed, Fail, LiveJobs, Live
<1>3. Received' = Received
  BY <1>1 DEF IInv, Typed, Fail, Received, FailedReport
<1> QED
  BY <1>1, <1>2, <1>3
     DEF IInv, Typed, Fail, Counts, WaitGroupCounts, ReceivedCounts, FailedReport

LEMMA WorkingCounts ==
  ASSUME IInv, NEW j \in Job, job[j] = "ready", job' = [job EXCEPT ![j] = "working"],
         UNCHANGED <<cluster, failed, wg, reader, failedCount>>
  PROVE  Counts'
<1>1. Job' = Job
  BY SameMachines
<1>2. LiveJobs' = LiveJobs
  BY <1>1 DEF IInv, Typed, LiveJobs, Live
<1>3. Received' = Received
  BY <1>1 DEF IInv, Typed, Received, FailedReport
<1> QED
  BY <1>1, <1>2, <1>3
     DEF IInv, Typed, Counts, WaitGroupCounts, ReceivedCounts, FailedReport

LEMMA ReportCounts ==
  ASSUME IInv, NEW j \in Job, Report(j)
  PROVE  Counts'
<1>1. Job' = Job
  BY SameMachines DEF Report
<1>2. LiveJobs' = LiveJobs \ {j} /\ j \in LiveJobs
  BY <1>1 DEF IInv, Typed, Report, Done, LiveJobs, Live
<1>3. Cardinality(LiveJobs \ {j}) = Cardinality(LiveJobs) - 1
  BY <1>2, LiveFinite, FS_RemoveElement DEF IInv
<1>4. Received' = Received \union {j} /\ j \notin Received
  BY <1>1 DEF IInv, Typed, Report, Done, Received, FailedReport
<1>5. Cardinality(Received \union {j}) = Cardinality(Received) + 1
  BY <1>4, LiveFinite, FS_AddElement DEF IInv
<1>6. WaitGroupCounts'
  BY <1>2, <1>3 DEF IInv, WaitGroupCounts, Report, Done
<1>7. ReceivedCounts'
  BY <1>4, <1>5 DEF IInv, ReceivedCounts, Report, Done
<1>8. FailedReport'
  BY <1>1 DEF IInv, Typed, FailedReport, Report, Done
<1> QED
  BY <1>6, <1>7, <1>8 DEF Counts

LEMMA SameCounts ==
  ASSUME IInv, UNCHANGED <<cluster, job, failed, wg, failedCount>>,
         reader' = reader \/ (reader # "count" /\ reader' # "count")
  PROVE  Counts'
<1>1. Job' = Job
  BY SameMachines
<1>2. LiveJobs' = LiveJobs /\ Received' = Received
  BY <1>1 DEF LiveJobs, Received
<1> QED
  BY <1>1, <1>2 DEF IInv, Counts, WaitGroupCounts, ReceivedCounts, FailedReport

-----------------------------------------------------------------------------
(* Every step keeps the counts, and where main and the reader are.         *)

Control == NotYet /\ ReaderLives /\ NoneLeft

(* While a goroutine is left, Deploy waits, or has not come to that.       *)
LEMMA LiveMeansWaiting ==
  ASSUME IInv, NEW j \in Job, job[j] \in Live
  PROVE  main \in {"app", "proxy", "loadtest", "count", "wait"}
  BY DEF IInv, Typed, NoneLeft, Returned, Live

(* A step of a goroutine that is left, which changes its own place or that *)
(* of a machine's.                                                         *)
LEMMA JobControl ==
  ASSUME IInv, NEW j \in Job, job[j] \in Live, main' = main,
         NEW i \in Job, i = j \/ i \notin Coordinator,
         NEW x, job' = [job EXCEPT ![i] = x],
         reader' = reader \/ (reader = "receive" /\ reader' = "count")
  PROVE  Control'
<1>1. main \in {"app", "proxy", "loadtest", "count", "wait"}
  BY LiveMeansWaiting
<1>2. ASSUME NEW k \in Kind, job[<<k, 0>>] = "none"
      PROVE  job'[<<k, 0>>] = "none"
  BY <1>2 DEF Live, Coordinator, IInv, Typed
<1>3. NotYet'
  BY <1>2 DEF IInv, NotYet, Kind
<1>4. ReaderLives' /\ NoneLeft'
  BY <1>1 DEF IInv, ReaderLives, NoneLeft, Returned
<1> QED
  BY <1>3, <1>4 DEF Control

LEMMA CoordinatorsAreJobs ==
  /\ \A k \in Kind : <<k, 0>> \in Job
  /\ \A m \in Machine : m \in Job /\ m = <<m[1], m[2]>> /\ m[2] # 0
  /\ \A k \in Kind : \A n \in 1 .. Size(k) : cluster \in Deployments => <<k, n>> \in Machine
<1>1. ASSUME NEW k \in Kind, NEW n \in 1 .. Size(k), cluster \in Deployments
      PROVE  <<k, n>> \in Machine
  <2>1. cluster.apps \in Nat /\ cluster.tests \in Nat
    BY <1>1, DeploymentsAssumption
  <2>2. Size(k) \in {cluster.apps, cluster.tests}
    BY DEF Size, NumProxies, Kind
  <2>3. n \in 1 .. cluster.apps + cluster.tests /\ n <= Size(k)
    BY <2>1, <2>2
  <2> QED
    BY <2>3 DEF Machine
<1> QED
  BY <1>1 DEF Job, Coordinator, Machine

LEMMA CoordinatorKeeps ==
  ASSUME IInv, NEW k \in Kind, CoordinatorStep(k)
  PROVE  Counts' /\ Control'
<1> DEFINE c == <<k, 0>>
<1>1. c \in Job
  BY CoordinatorsAreJobs
<1>2. CASE NoMachines(k)
  <2>1. c \in Job /\ job[c] = "ready" /\ job[c] \in Live
    BY <1>1, <1>2 DEF NoMachines, Live
  <2>2. Counts'
    BY <1>2, <2>1, DoneCounts DEF NoMachines
  <2>3. Control'
    BY <1>2, <2>1, JobControl DEF NoMachines, Done
  <2> QED
    BY <2>2, <2>3
<1>3. CASE FetchFails(k)
  <2>1. c \in Job /\ job[c] = "ready" /\ job[c] \in Live
    BY <1>1, <1>3 DEF FetchFails, Live
  <2>2. Counts'
    BY <1>3, <2>1, FailCounts DEF FetchFails
  <2>3. Control'
    BY <1>3, <2>1, JobControl DEF FetchFails, Fail
  <2> QED
    BY <2>2, <2>3
<1>4. CASE Fetch(k)
  <2>1. c \in Job /\ job[c] = "ready" /\ job[c] \in Live
    BY <1>1, <1>4 DEF Fetch, Live
  <2>2. Counts'
    BY <1>4, <2>1, WorkingCounts DEF Fetch
  <2>3. Control'
    BY <1>4, <2>1, JobControl DEF Fetch
  <2> QED
    BY <2>2, <2>3
<1>5. CASE DoDeploy(k)
  <2>1. PICK n \in (1 .. Size(k)) \ Started(k) : Do(<<k, n>>)
    BY <1>5 DEF DoDeploy
  <2>2. <<k, n>> \in Job /\ job[<<k, n>>] = "none" /\ n # 0
    BY <2>1, CoordinatorsAreJobs DEF Started, IInv, Typed, Size
  <2>3. Counts'
    BY <1>5, <2>1, <2>2, DoCounts DEF DoDeploy
  <2>4. <<k, n>> \notin Coordinator
    BY <2>2 DEF Coordinator
  <2>5. Control'
    BY <1>1, <1>5, <2>1, <2>2, <2>4, JobControl DEF DoDeploy, Do, Live
  <2> QED
    BY <2>3, <2>5
<1>6. CASE AllStarted(k)
  <2>1. c \in Job /\ job[c] = "working" /\ job[c] \in Live
    BY <1>1, <1>6 DEF AllStarted, Live
  <2>2. Counts'
    BY <1>6, <2>1, DoneCounts DEF AllStarted
  <2>3. Control'
    BY <1>6, <2>1, JobControl DEF AllStarted, Done
  <2> QED
    BY <2>2, <2>3
<1> QED
  BY <1>2, <1>3, <1>4, <1>5, <1>6 DEF CoordinatorStep

LEMMA ScriptKeeps ==
  ASSUME IInv, NEW m \in Machine, ScriptStep(m)
  PROVE  Counts' /\ Control'
<1>1. m \in Job /\ \A k \in Kind : m # <<k, 0>>
  BY CoordinatorsAreJobs
<1>2. CASE ScriptFails(m)
  <2>1. m \in Job /\ job[m] = "ready" /\ job[m] \in Live
    BY <1>1, <1>2 DEF ScriptFails, Live
  <2>2. Counts'
    BY <1>2, <2>1, FailCounts DEF ScriptFails
  <2>3. Control'
    BY <1>2, <2>1, JobControl DEF ScriptFails, Fail
  <2> QED
    BY <2>2, <2>3
<1>3. CASE RunScript(m)
  <2>1. m \in Job /\ job[m] = "ready" /\ job[m] \in Live
    BY <1>1, <1>3 DEF RunScript, Live
  <2>2. Counts'
    BY <1>3, <2>1, WorkingCounts DEF RunScript
  <2>3. Control'
    BY <1>3, <2>1, JobControl DEF RunScript
  <2> QED
    BY <2>2, <2>3
<1>4. CASE Rebooted(m)
  <2>1. m \in Job /\ job[m] = "working" /\ job[m] \in Live
    BY <1>1, <1>4 DEF Rebooted, Live
  <2>2. Counts'
    BY <1>4, <2>1, DoneCounts DEF Rebooted
  <2>3. Control'
    BY <1>4, <2>1, JobControl DEF Rebooted, Done
  <2> QED
    BY <2>2, <2>3
<1>5. CASE RebootTimesOut(m)
  <2>1. m \in Job /\ job[m] = "working" /\ job[m] \in Live
    BY <1>1, <1>5 DEF RebootTimesOut, Live
  <2>2. Counts'
    BY <1>5, <2>1, FailCounts DEF RebootTimesOut
  <2>3. Control'
    BY <1>5, <2>1, JobControl DEF RebootTimesOut, Fail
  <2> QED
    BY <2>2, <2>3
<1> QED
  BY <1>2, <1>3, <1>4, <1>5 DEF ScriptStep

(* Steps of others touch none of it.                                       *)
LEMMA OthersKeep ==
  ASSUME IInv, UNCHANGED <<cluster, deploying>>,
         main' = main \/ (Returned /\ main' \in {"next", "launch", "tested"})
  PROVE  Counts' /\ Control'
<1>1. Job' = Job
  BY SameMachines
<1>2. Counts'
  BY SameCounts DEF deploying
<1>3. Control'
  BY <1>1 DEF deploying, IInv, Control, NotYet, ReaderLives, NoneLeft, Returned
<1> QED
  BY <1>2, <1>3

LEMMA DeployKeeps ==
  ASSUME IInv, DeployStep
  PROVE  Counts' /\ Control'
<1>1. ASSUME NEW k \in Kind, StartKind(k)
      PROVE  Counts' /\ Control'
  <2>1. main = k /\ main' = AfterStart(k) /\ <<k, 0>> \in Job /\ job[<<k, 0>>] = "none"
    BY <1>1, CoordinatorsAreJobs DEF StartKind, IInv, NotYet, Kind
  <2>2. Counts'
    <3>1. CASE Requested(k)
      BY <1>1, <2>1, <3>1, DoCounts DEF StartKind
    <3>2. CASE ~ Requested(k)
      BY <1>1, <3>2, SameCounts DEF StartKind
    <3> QED
      BY <3>1, <3>2
  <2>3. main \in {"app", "proxy", "loadtest"} /\ main' \in {"proxy", "loadtest", "count"}
    BY <2>1 DEF AfterStart, Kind
  <2>4. \A l \in Kind : l # k => job'[<<l, 0>>] = job[<<l, 0>>]
    BY <1>1, CoordinatorsAreJobs DEF StartKind, Do, IInv, Typed
  <2>5. NotYet'
    <3>1. CASE k = "app"
      BY <2>1, <2>4, <3>1 DEF NotYet, IInv, AfterStart, Kind
    <3>2. CASE k = "proxy"
      BY <2>1, <2>4, <3>2 DEF NotYet, IInv, AfterStart, Kind
    <3>3. CASE k = "loadtest"
      BY <2>1, <3>3 DEF NotYet, AfterStart, Kind
    <3> QED
      BY <3>1, <3>2, <3>3 DEF Kind
  <2>6. ReaderLives' /\ NoneLeft'
    BY <1>1, <2>3 DEF StartKind, ReaderLives, NoneLeft, IInv, Returned
  <2> QED
    BY <2>2, <2>5, <2>6 DEF Control
<1>2. CASE StartReader
  <2>1. reader = "none" /\ Counts'
    BY <1>2, SameCounts DEF StartReader, IInv, ReaderLives
  <2> QED
    BY <1>2, <2>1 DEF StartReader, IInv, Control, NotYet, ReaderLives, NoneLeft, Returned
<1>3. CASE CloseFailed
  <2>1. Job' = Job /\ Counts'
    BY <1>3, SameMachines, SameCounts DEF CloseFailed, deploying
  <2>2. LiveJobs = {}
    BY <1>3, LiveFinite, FS_EmptySet DEF CloseFailed, IInv, WaitGroupCounts
  <2>3. \A j \in Job : job[j] \in {"none", "gone"}
    BY <2>2 DEF LiveJobs, Live, IInv, Typed
  <2> QED
    BY <1>3, <2>1, <2>3
       DEF CloseFailed, deploying, IInv, Control, NotYet, ReaderLives, NoneLeft, Returned
<1>4. CASE Return
  <2>1. Job' = Job /\ Counts'
    BY <1>4, SameMachines, SameCounts DEF Return, deploying
  <2> QED
    BY <1>4, <2>1
       DEF Return, deploying, IInv, Control, NotYet, ReaderLives, NoneLeft, Returned
<1>5. CASE CountFailure
  <2>1. Job' = Job
    BY <1>5, SameMachines DEF CountFailure
  <2>2. LiveJobs' = LiveJobs /\ Received' = Received
    BY <1>5, <2>1 DEF CountFailure, LiveJobs, Received
  <2>3. Counts'
    BY <1>5, <2>1, <2>2
       DEF CountFailure, IInv, Counts, WaitGroupCounts, ReceivedCounts, FailedReport
  <2>4. Control'
    BY <1>5, <2>1 DEF CountFailure, IInv, Control, NotYet, ReaderLives, NoneLeft, Returned
  <2> QED
    BY <2>3, <2>4
<1>6. CASE EndCount
  <2>1. Job' = Job /\ Counts'
    BY <1>6, SameMachines, SameCounts DEF EndCount
  <2> QED
    BY <1>6, <2>1 DEF EndCount, IInv, Control, NotYet, ReaderLives, NoneLeft, Returned
<1>7. ASSUME NEW j \in Job, Report(j)
      PROVE  Counts' /\ Control'
  <2>1. Counts'
    BY <1>7, ReportCounts
  <2>2. job[j] \in Live
    BY <1>7 DEF Report, Live
  <2>3. Control'
    BY <1>7, <2>2, JobControl DEF Report, Done
  <2> QED
    BY <2>1, <2>3
<1> QED
  BY <1>1, <1>2, <1>3, <1>4, <1>5, <1>6, <1>7, OthersKeep DEF DeployStep

LEMMA NextKeeps == IInv /\ [Next]_vars => Counts' /\ Control'
<1> SUFFICES ASSUME IInv, [Next]_vars
             PROVE  Counts' /\ Control'
  OBVIOUS
<1>1. CASE DeployStep
  BY <1>1, DeployKeeps
<1>2. ASSUME NEW k \in Kind, CoordinatorStep(k)
      PROVE  Counts' /\ Control'
  BY <1>2, CoordinatorKeeps
<1>3. ASSUME NEW m \in Machine, ScriptStep(m)
      PROVE  Counts' /\ Control'
  BY <1>3, ScriptKeeps
<1>4. ASSUME NEW m \in Machine, PollStep(m) \/ GoDown(m) \/ ComeUp(m)
      PROVE  Counts' /\ Control'
  BY <1>4, OthersKeep DEF PollStep, Dial, StopPolling, DialFails, Connect, GoDown, ComeUp
<1>5. CASE LoadtestStep
  BY <1>5, OthersKeep DEF LoadtestStep, Loadtest, NextTest, LaunchTest, JoinTests, Returned
<1>6. ASSUME NEW t \in Test, TestStep(t)
      PROVE  Counts' /\ Control'
  BY <1>6, OthersKeep DEF TestStep, ReadNumber, Prepare, PrepareFails, Run, Result, CheckErr
<1>7. CASE UNCHANGED vars
  BY <1>7, OthersKeep DEF vars
<1> QED
  BY <1>1, <1>2, <1>3, <1>4, <1>5, <1>6, <1>7 DEF Next

-----------------------------------------------------------------------------
(* Every step keeps the types.                                             *)

LEMMA JobTyped ==
  ASSUME Typed, UNCHANGED <<cluster, machines, testing>>,
         main' \in {main, "proxy", "loadtest", "count", "wait", "closed", "deployed"},
         \/ job' = job
         \/ \E j \in Job, x \in {"ready", "working", "report", "gone"} :
              job' = [job EXCEPT ![j] = x],
         failed' = failed \/ \E j \in Job : failed' = failed \union {j},
         reader' \in {reader, "receive", "count", "gone"}
  PROVE  Typed'
<1>1. Job' = Job /\ Machine' = Machine /\ Test' = Test /\ NumProxies' = NumProxies
  BY SameMachines
<1> QED
  BY <1>1 DEF Typed, machines, testing

LEMMA DeployTyped ==
  ASSUME Typed, DeployStep
  PROVE  Typed'
<1>1. ASSUME NEW k \in Kind, StartKind(k)
      PROVE  Typed'
  <2>1. main' \in {"proxy", "loadtest", "count"} /\ <<k, 0>> \in Job
    BY <1>1, CoordinatorsAreJobs DEF StartKind, AfterStart, Kind
  <2> QED
    BY <1>1, <2>1, JobTyped DEF StartKind, Do
<1>2. CASE StartReader
  BY <1>2, JobTyped DEF StartReader
<1>3. CASE CloseFailed
  BY <1>3, JobTyped DEF CloseFailed, deploying
<1>4. CASE Return
  BY <1>4, JobTyped DEF Return, deploying
<1>5. CASE CountFailure
  BY <1>5, JobTyped DEF CountFailure
<1>6. CASE EndCount
  BY <1>6, JobTyped DEF EndCount
<1>7. ASSUME NEW j \in Job, Report(j)
      PROVE  Typed'
  BY <1>7, JobTyped DEF Report, Done
<1> QED
  BY <1>1, <1>2, <1>3, <1>4, <1>5, <1>6, <1>7 DEF DeployStep

LEMMA CoordinatorTyped ==
  ASSUME Typed, NEW k \in Kind, CoordinatorStep(k)
  PROVE  Typed'
<1>1. <<k, 0>> \in Job
  BY CoordinatorsAreJobs
<1>2. CASE NoMachines(k)
  BY <1>1, <1>2, JobTyped DEF NoMachines, Done
<1>3. CASE FetchFails(k)
  BY <1>1, <1>3, JobTyped DEF FetchFails, Fail
<1>4. CASE Fetch(k)
  BY <1>1, <1>4, JobTyped DEF Fetch
<1>5. CASE DoDeploy(k)
  <2>1. PICK n \in (1 .. Size(k)) \ Started(k) : Do(<<k, n>>)
    BY <1>5 DEF DoDeploy
  <2>2. <<k, n>> \in Job
    BY <2>1, CoordinatorsAreJobs DEF Typed
  <2> QED
    BY <1>5, <2>1, <2>2, JobTyped DEF DoDeploy, Do
<1>6. CASE AllStarted(k)
  BY <1>1, <1>6, JobTyped DEF AllStarted, Done
<1> QED
  BY <1>2, <1>3, <1>4, <1>5, <1>6 DEF CoordinatorStep

(* The number of a proxy is that of one of them.                           *)
LEMMA ProxyExists ==
  ASSUME cluster \in Deployments, NEW t \in Test, NEW num \in Int
  PROVE  ProxyOf(num) \in 0 .. NumProxies - 1
<1>1. cluster.tests \in Nat \ {0}
  BY DeploymentsAssumption DEF Test
<1> QED
  BY <1>1 DEF ProxyOf, NumProxies

LEMMA ExecuteTyped ==
  ASSUME Typed, NEW m \in Machine, NEW i \in Nat, Execute(m, i)
  PROVE  /\ has' \in [Machine -> SUBSET Thing]
         /\ target' \in [Test -> {NoProxy} \union (0 .. NumProxies - 1)]
<1>1. After(m, i) \in SUBSET Thing
  BY DEF After
<1>2. has' \in [Machine -> SUBSET Thing]
  BY <1>1 DEF Execute, Typed
<1>3. ASSUME m[1] = "loadtest"
      PROVE  m[2] \in Test /\ InstanceNum(m[2]) \in Int
  BY <1>3, DeploymentsAssumption DEF Machine, Size, Test, InstanceNum, Typed
<1>4. ASSUME m[1] = "loadtest"
      PROVE  ProxyOf(InstanceNum(m[2])) \in 0 .. NumProxies - 1
  BY <1>3, <1>4, ProxyExists DEF Typed
<1>5. target' \in [Test -> {NoProxy} \union (0 .. NumProxies - 1)]
  BY <1>3, <1>4 DEF Execute, Typed
<1> QED
  BY <1>2, <1>5

LEMMA ScriptTyped ==
  ASSUME Typed, NEW m \in Machine, ScriptStep(m)
  PROVE  Typed'
<1>1. m \in Job
  BY CoordinatorsAreJobs
<1>2. Len(Script(m[1])) \in Nat
  <2>1. m[1] \in Kind
    BY DEF Machine
  <2> QED
    BY <2>1 DEF Script, Kind, deployToAppInstance, deployToProxyInstance, deployToLoadtestInstance
<1>3. CASE ScriptFails(m)
  <2>1. PICK i \in 0 .. Len(Script(m[1])) : Execute(m, i)
    BY <1>3 DEF ScriptFails
  <2>2. i \in Nat
    BY <1>2
  <2>3. /\ has' \in [Machine -> SUBSET Thing]
        /\ target' \in [Test -> {NoProxy} \union (0 .. NumProxies - 1)]
    BY <2>1, <2>2, ExecuteTyped
  <2>4. Job' = Job /\ Machine' = Machine /\ Test' = Test /\ NumProxies' = NumProxies
    BY <1>3, SameMachines DEF ScriptFails
  <2> QED
    BY <1>1, <1>3, <2>3, <2>4 DEF ScriptFails, Fail, Typed, testing
<1>4. CASE RunScript(m)
  <2>1. /\ has' \in [Machine -> SUBSET Thing]
        /\ target' \in [Test -> {NoProxy} \union (0 .. NumProxies - 1)]
    BY <1>2, <1>4, ExecuteTyped DEF RunScript
  <2>2. Job' = Job /\ Machine' = Machine /\ Test' = Test /\ NumProxies' = NumProxies
    BY <1>4, SameMachines DEF RunScript
  <2> QED
    BY <1>1, <1>4, <2>1, <2>2 DEF RunScript, Typed, testing
<1>5. CASE Rebooted(m)
  BY <1>1, <1>5, JobTyped DEF Rebooted, Done
<1>6. CASE RebootTimesOut(m)
  BY <1>1, <1>6, JobTyped DEF RebootTimesOut, Fail
<1> QED
  BY <1>3, <1>4, <1>5, <1>6 DEF ScriptStep

LEMMA MachineTyped ==
  ASSUME Typed, NEW m \in Machine, PollStep(m) \/ GoDown(m) \/ ComeUp(m)
  PROVE  Typed'
<1>1. Job' = Job /\ Machine' = Machine /\ Test' = Test /\ NumProxies' = NumProxies
  BY SameMachines DEF PollStep, Dial, StopPolling, DialFails, Connect, GoDown, ComeUp
<1>2. CASE PollStep(m)
  BY <1>1, <1>2 DEF PollStep, Dial, StopPolling, DialFails, Connect, Typed, deploying, testing
<1>3. CASE GoDown(m)
  BY <1>1, <1>3 DEF GoDown, Typed, deploying, testing
<1>4. CASE ComeUp(m)
  <2>1. Restarted(has[m]) \in SUBSET Thing
    BY DEF Restarted, Thing, Typed
  <2> QED
    BY <1>1, <1>4, <2>1 DEF ComeUp, Typed, deploying, testing
<1> QED
  BY <1>2, <1>3, <1>4

LEMMA LoadtestTyped ==
  ASSUME Typed, LoadtestStep
  PROVE  Typed'
<1>1. Job' = Job /\ Machine' = Machine /\ Test' = Test /\ NumProxies' = NumProxies
  BY SameMachines DEF LoadtestStep, Loadtest, NextTest, LaunchTest, JoinTests
<1>2. CASE Loadtest
  BY <1>1, <1>2 DEF Loadtest, Typed, deploying, testing
<1>3. CASE NextTest
  <2>1. Cardinality(Launched) \in 0 .. cluster.tests - 1
    <3>1. IsFiniteSet(Test) /\ Cardinality(Test) = cluster.tests /\ cluster.tests \in Nat
      BY DeploymentsAssumption, FS_Interval DEF Test, Typed
    <3>2. Launched \in SUBSET Test
      BY DEF Launched
    <3>3. /\ IsFiniteSet(Launched) /\ Cardinality(Launched) <= Cardinality(Test)
          /\ Cardinality(Launched) = Cardinality(Test) => Launched = Test
      BY <3>1, <3>2, FS_Subset
    <3>4. Cardinality(Launched) \in Nat
      BY <3>3, FS_CardinalityType
    <3> QED
      BY <1>3, <3>1, <3>3, <3>4 DEF NextTest
  <2> QED
    BY <1>1, <1>3, <2>1 DEF NextTest, Typed, deploying, machines
<1>4. CASE LaunchTest
  BY <1>1, <1>4 DEF LaunchTest, Typed, deploying, machines
<1>5. CASE JoinTests
  BY <1>1, <1>5 DEF JoinTests, Typed, deploying, machines, testing
<1> QED
  BY <1>2, <1>3, <1>4, <1>5 DEF LoadtestStep

LEMMA TestTyped ==
  ASSUME Typed, NEW t \in Test, TestStep(t)
  PROVE  Typed'
<1>1. Job' = Job /\ Machine' = Machine /\ Test' = Test /\ NumProxies' = NumProxies
  BY SameMachines DEF TestStep, ReadNumber, Prepare, PrepareFails, Run, Result, CheckErr
<1>2. <<"loadtest", t>> \in Machine
  BY CoordinatorsAreJobs DEF Test, Size, Kind, Typed
<1>3. cluster.tests \in Nat \ {0}
  BY DeploymentsAssumption DEF Test, Typed
<1>4. CASE ReadNumber(t)
  BY <1>1, <1>3, <1>4 DEF ReadNumber, Typed, deploying, machines
<1>5. CASE Prepare(t)
  <2>1. configureLoadtestInstance.gives \in SUBSET Thing
    BY DEF configureLoadtestInstance, Step, Give, Thing
  <2>2. has' \in [Machine -> SUBSET Thing]
    BY <1>2, <1>5, <2>1 DEF Prepare, Typed
  <2>3. ProxyOf(number[t]) \in 0 .. NumProxies - 1
    BY ProxyExists DEF Typed, NoNumber
  <2>4. target' \in [Test -> {NoProxy} \union (0 .. NumProxies - 1)]
    BY <1>5, <2>3 DEF Prepare, Typed
  <2> QED
    BY <1>1, <1>5, <2>2, <2>4 DEF Prepare, Typed, deploying
<1>6. CASE PrepareFails(t)
  BY <1>1, <1>2, <1>6 DEF PrepareFails, Result, Typed, deploying
<1>7. CASE Run(t)
  BY <1>1, <1>7 DEF Run, Result, Typed, deploying
<1>8. CASE CheckErr(t)
  BY <1>1, <1>8 DEF CheckErr, Typed, deploying, machines
<1> QED
  BY <1>4, <1>5, <1>6, <1>7, <1>8 DEF TestStep

LEMMA NextTyped == Typed /\ [Next]_vars => Typed'
<1> SUFFICES ASSUME Typed, [Next]_vars
             PROVE  Typed'
  OBVIOUS
<1>1. CASE UNCHANGED vars
  <2>1. Job' = Job /\ Machine' = Machine /\ Test' = Test /\ NumProxies' = NumProxies
    BY <1>1, SameMachines DEF vars
  <2> QED
    BY <1>1, <2>1 DEF Typed, vars, deploying, machines, testing
<1> QED
  BY <1>1, DeployTyped, CoordinatorTyped, ScriptTyped, MachineTyped, LoadtestTyped, TestTyped
     DEF Next

-----------------------------------------------------------------------------

LEMMA Initially == Init => IInv
<1> SUFFICES ASSUME Init
             PROVE  IInv
  OBVIOUS
<1>1. Typed
  <2>1. {} \in SUBSET Thing /\ NoProxy \in {NoProxy} \union (0 .. NumProxies - 1)
    OBVIOUS
  <2> QED
    BY <2>1 DEF Init, Typed
<1>2. LiveJobs = {} /\ Received = {}
  BY DEF Init, LiveJobs, Live, Received
<1>3. WaitGroupCounts /\ ReceivedCounts
  BY <1>2, FS_EmptySet DEF Init, WaitGroupCounts, ReceivedCounts
<1>4. FailedReport
  BY DEF Init, FailedReport
<1>5. NotYet /\ ReaderLives /\ NoneLeft
  BY CoordinatorsAreJobs DEF Init, NotYet, ReaderLives, NoneLeft, Returned, Kind
<1> QED
  BY <1>1, <1>3, <1>4, <1>5 DEF IInv

LEMMA Inductive == Spec => []IInv
<1>1. IInv /\ [Next]_vars => IInv'
  BY NextTyped, NextKeeps DEF IInv, Counts, Control
<1> QED
  BY <1>1, Initially, PTL DEF Spec

(* The state keeps its types; the wait group's count is never negative.    *)
THEOREM TypeCorrect == Spec => []TypeOK
BY Inductive, Implied, PTL

(* None of the goroutines is left when Deploy closes the channel.          *)
THEOREM AllJoined == Spec => []NoneLeft
<1>1. IInv => NoneLeft
  BY DEF IInv
<1> QED
  BY <1>1, Inductive, PTL

(* Deploy returns the number of actions that failed.                       *)
THEOREM AllFailuresCounted == Spec => []FailuresCounted
BY Inductive, Implied, PTL

-----------------------------------------------------------------------------
(* What a script leaves behind.                                            *)

(* A command's gifts are there at the end unless a later one takes them.   *)
LEMMA Kept ==
  ASSUME NEW m, NEW x \in Thing, NEW j \in 1 .. Len(Script(m[1])),
         x \in Script(m[1])[j].gives,
         \A l \in j + 1 .. Len(Script(m[1])) : x \notin Script(m[1])[l].takes
  PROVE  x \in After(m, Len(Script(m[1])))
  BY DEF After

LEMMA AppScript ==
  ASSUME NEW m, m[1] = "app"
  PROVE  {"unpacked", "license", "limits", "configured", "enabled"}
           \subseteq After(m, Len(Script(m[1])))
<1> DEFINE s == Script(m[1])
<1>1. s = deployToAppInstance
  BY DEF Script
<1>2. Len(s) = 8 /\ \A l \in 4 .. 8 : s[l].takes = {}
  BY <1>1 DEF deployToAppInstance, uploadSystemdFile, uploadLimitsConfig, Step, Give
<1>3. /\ "unpacked" \in s[3].gives /\ "license" \in s[4].gives /\ "limits" \in s[5].gives
      /\ "configured" \in s[6].gives /\ "enabled" \in s[8].gives
  BY <1>1 DEF deployToAppInstance, uploadSystemdFile, uploadLimitsConfig, Step, Give
<1> HIDE DEF s
<1>4. ASSUME NEW x \in Thing, NEW j \in 3 .. 8, x \in s[j].gives
      PROVE  x \in After(m, Len(s))
  <2>1. j \in 1 .. Len(s)
    BY <1>2
  <2>2. \A l \in j + 1 .. Len(s) : x \notin s[l].takes
    BY <1>2
  <2> QED
    BY <1>4, <2>1, <2>2, Kept DEF s
<1> QED
  BY <1>3, <1>4 DEF s, Thing

LEMMA ProxyScript ==
  ASSUME NEW m, m[1] = "proxy"
  PROVE  {"unpacked", "site", "limits", "configured", "enabled"}
           \subseteq After(m, Len(Script(m[1])))
<1> DEFINE s == Script(m[1])
<1>1. s = deployToProxyInstance
  BY DEF Script
<1>2. Len(s) = 6 /\ \A l \in 1 .. 6 : s[l].takes = {}
  BY <1>1 DEF deployToProxyInstance, uploadNginxConfig, uploadLimitsConfig, Step, Give
<1>3. /\ "unpacked" \in s[1].gives /\ "site" \in s[2].gives /\ "limits" \in s[3].gives
      /\ "configured" \in s[4].gives /\ "enabled" \in s[6].gives
  BY <1>1 DEF deployToProxyInstance, uploadNginxConfig, uploadLimitsConfig, Step, Give
<1> HIDE DEF s
<1>4. ASSUME NEW x \in Thing, NEW j \in 1 .. 6, x \in s[j].gives
      PROVE  x \in After(m, Len(s))
  <2>1. j \in 1 .. Len(s)
    BY <1>2
  <2>2. \A l \in j + 1 .. Len(s) : x \notin s[l].takes
    BY <1>2
  <2> QED
    BY <1>4, <2>1, <2>2, Kept DEF s
<1> QED
  BY <1>3, <1>4 DEF s, Thing

LEMMA LoadtestScript ==
  ASSUME NEW m, m[1] = "loadtest"
  PROVE  {"unpacked", "limits"} \union (IF cluster.apps = 0 THEN {} ELSE {"configured"})
           \subseteq After(m, Len(Script(m[1])))
<1> DEFINE s == Script(m[1])
<1>1. s = deployToLoadtestInstance
  BY DEF Script
<1>2. Len(s) = 4 /\ \A l \in 3 .. 4 : s[l].takes = {}
  BY <1>1 DEF deployToLoadtestInstance, configureLoadtestInstance, uploadLimitsConfig, Step, Give
<1>3. /\ "unpacked" \in s[2].gives /\ "limits" \in s[3].gives
      /\ cluster.apps # 0 => "configured" \in s[4].gives
  BY <1>1 DEF deployToLoadtestInstance, configureLoadtestInstance, uploadLimitsConfig, Step, Give
<1> HIDE DEF s
<1>4. ASSUME NEW x \in Thing, NEW j \in 2 .. 4, x \in s[j].gives
      PROVE  x \in After(m, Len(s))
  <2>1. j \in 1 .. Len(s)
    BY <1>2
  <2>2. \A l \in j + 1 .. Len(s) : x \notin s[l].takes
    BY <1>2
  <2> QED
    BY <1>4, <2>1, <2>2, Kept DEF s
<1> QED
  BY <1>3, <1>4 DEF s, Thing

(* Then the machine has all it should when it has restarted.               *)
LEMMA ScriptSuffices ==
  ASSUME NEW m \in Machine
  PROVE  Wanted(m[1]) \subseteq Restarted(After(m, Len(Script(m[1]))))
<1>1. CASE m[1] = "app"
  BY <1>1, AppScript DEF Wanted, Restarted
<1>2. CASE m[1] = "proxy"
  BY <1>2, ProxyScript DEF Wanted, Restarted
<1>3. CASE m[1] = "loadtest"
  BY <1>3, LoadtestScript DEF Wanted, Restarted
<1> QED
  BY <1>1, <1>2, <1>3 DEF Machine, Kind

-----------------------------------------------------------------------------
(* What Deploy has done when it returns.                                   *)

Testing == main \in {"next", "launch", "tested"}

Begun(k) ==
  CASE k = "app"      -> main # "app"
    [] k = "proxy"    -> main \notin {"app", "proxy"}
    [] k = "loadtest" -> main \notin {"app", "proxy", "loadtest"}

(* A kind asked for is started, and starts its machines unless it fails.   *)
KindsStarted == \A k \in Kind :
  /\ Begun(k) /\ Requested(k) => job[<<k, 0>>] # "none"
  /\ job[<<k, 0>>] = "gone" /\ <<k, 0>> \notin failed =>
       \A n \in 1 .. Size(k) : job[<<k, n>>] # "none"

(* A machine whose script came to its end has, or will have, what it       *)
(* should.                                                                 *)
ScriptsDone ==
  ~ Testing =>
    \A m \in Machine : job[m] = "working" \/ (job[m] = "gone" /\ m \notin failed) =>
      Wanted(m[1]) \subseteq WillHave(m)

TargetsOwn ==
  ~ Testing => \A t \in Test : test[t] = "none" /\ target[t] \in {NoProxy, t - 1}

LEMMA DeployedFollows == IInv /\ KindsStarted /\ ScriptsDone => Deployed
<1> SUFFICES ASSUME IInv, KindsStarted, ScriptsDone, main = "deployed", Succeeded,
                    NEW m \in Machine, Requested(m[1])
             PROVE  Wanted(m[1]) \subseteq WillHave(m)
  BY DEF Deployed
<1>1. failed = {}
  <2>1. failedCount = Cardinality(failed)
    BY Implied DEF FailuresCounted, Returned
  <2>2. IsFiniteSet(failed)
    BY JobsFinite, FS_Subset DEF IInv, Typed
  <2> QED
    BY <2>1, <2>2, FS_EmptySet DEF Succeeded
<1>2. \A j \in Job : job[j] \in {"none", "gone"}
  BY DEF IInv, NoneLeft, Returned
<1>3. m \in Job /\ m = <<m[1], m[2]>> /\ m[1] \in Kind /\ m[2] \in 1 .. Size(m[1])
  <2>1. cluster.apps \in Nat /\ cluster.tests \in Nat
    BY DeploymentsAssumption DEF IInv, Typed
  <2>2. m[1] \in Kind /\ m[2] \in 1 .. cluster.apps + cluster.tests /\ m[2] <= Size(m[1])
    BY DEF Machine
  <2>3. Size(m[1]) \in Nat
    BY <2>1, <2>2 DEF Size, NumProxies, Kind
  <2> QED
    BY <2>1, <2>2, <2>3, CoordinatorsAreJobs
<1>4. job[<<m[1], 0>>] = "gone"
  <2>1. Begun(m[1])
    BY <1>3 DEF Begun, Kind
  <2> QED
    BY <1>2, <1>3, <2>1, CoordinatorsAreJobs DEF KindsStarted
<1>5. job[m] = "gone"
  BY <1>1, <1>2, <1>3, <1>4 DEF KindsStarted
<1> QED
  BY <1>1, <1>5 DEF ScriptsDone, Testing

LEMMA OwnProxyFollows == IInv /\ TargetsOwn => OwnProxy
<1> SUFFICES ASSUME IInv, TargetsOwn, main = "deployed", NEW t \in Test, NEW u \in Test,
                    t # u, target[t] # NoProxy
             PROVE  target[t] # target[u]
  BY DEF OwnProxy
<1>1. target[t] = t - 1 /\ target[u] \in {NoProxy, u - 1}
  BY DEF TargetsOwn, Testing
<1> QED
  BY <1>1 DEF Test, NoProxy

Prepared == KindsStarted /\ ScriptsDone /\ TargetsOwn

(* A goroutine moves on; if it is that of a kind and ends well, all of its *)
(* machines were started, and if it is that of a machine and ends well,    *)
(* its script was executed.                                                *)
LEMMA JobPrepares ==
  ASSUME IInv, Prepared, UNCHANGED <<cluster, main, machines, testing>>,
         NEW i \in Job, NEW x \in {"ready", "working", "report", "gone"},
         job' = [job EXCEPT ![i] = x], failed \subseteq failed',
         \A k \in Kind : i = <<k, 0>> /\ x = "gone" /\ i \notin failed' =>
           Started(k) = 1 .. Size(k),
         i \in Machine /\ (x = "working" \/ (x = "gone" /\ i \notin failed')) => job[i] = "working"
  PROVE  Prepared'
<1>1. Machine' = Machine /\ Test' = Test /\ Job' = Job
  BY SameMachines
<1>2. /\ \A k \in Kind : Size(k)' = Size(k) /\ Begun(k)' = Begun(k) /\ Requested(k)' = Requested(k)
      /\ \A m \in Machine : Wanted(m[1])' = Wanted(m[1]) /\ WillHave(m)' = WillHave(m)
  BY DEF Size, NumProxies, Begun, Requested, Wanted, WillHave, Restarted, machines
<1>3. KindsStarted'
  <2> SUFFICES ASSUME NEW k \in Kind
               PROVE  /\ Begun(k) /\ Requested(k) => job'[<<k, 0>>] # "none"
                      /\ job'[<<k, 0>>] = "gone" /\ <<k, 0>> \notin failed' =>
                           \A n \in 1 .. Size(k) : job'[<<k, n>>] # "none"
    BY <1>2 DEF KindsStarted
  <2>1. \A j \in Job : job[j] # "none" => job'[j] # "none"
    BY DEF IInv, Typed
  <2>2. <<k, 0>> \in Job /\ \A n \in 1 .. Size(k) : <<k, n>> \in Job
    BY CoordinatorsAreJobs DEF IInv, Typed
  <2>3. Begun(k) /\ Requested(k) => job'[<<k, 0>>] # "none"
    BY <2>1, <2>2 DEF Prepared, KindsStarted
  <2>4. ASSUME job'[<<k, 0>>] = "gone", <<k, 0>> \notin failed', NEW n \in 1 .. Size(k)
        PROVE  job'[<<k, n>>] # "none"
    <3>1. CASE i = <<k, 0>>
      <4>1. x = "gone"
        BY <2>2, <2>4, <3>1 DEF IInv, Typed
      <4>2. job[<<k, n>>] # "none"
        BY <2>4, <3>1, <4>1 DEF Started
      <4> QED
        BY <2>1, <2>2, <4>2
    <3>2. CASE i # <<k, 0>>
      <4>1. job[<<k, 0>>] = "gone" /\ <<k, 0>> \notin failed
        BY <2>2, <2>4, <3>2 DEF IInv, Typed
      <4> QED
        BY <2>1, <2>2, <4>1 DEF Prepared, KindsStarted
    <3> QED
      BY <3>1, <3>2
  <2> QED
    BY <2>3, <2>4
<1>4. ScriptsDone'
  <2> SUFFICES ASSUME ~ Testing, NEW m \in Machine,
                      job'[m] = "working" \/ (job'[m] = "gone" /\ m \notin failed')
               PROVE  Wanted(m[1]) \subseteq WillHave(m)
    BY <1>1, <1>2 DEF ScriptsDone, Testing
  <2>1. m \in Job
    BY CoordinatorsAreJobs
  <2>2. job[m] = "working" \/ (job[m] = "gone" /\ m \notin failed)
    <3>1. CASE m = i
      <4>1. x = "working" \/ (x = "gone" /\ m \notin failed')
        BY <2>1, <3>1 DEF IInv, Typed
      <4> QED
        BY <3>1, <4>1
    <3>2. CASE m # i
      BY <2>1, <3>2 DEF IInv, Typed
    <3> QED
      BY <3>1, <3>2
  <2> QED
    BY <2>2 DEF Prepared, ScriptsDone
<1>5. TargetsOwn'
  BY <1>1 DEF Prepared, TargetsOwn, Testing, machines, testing
<1> QED
  BY <1>3, <1>4, <1>5 DEF Prepared

LEMMA SamePrepares ==
  ASSUME IInv, Prepared, UNCHANGED <<cluster, job, failed>>,
         main' = main \/ {main, main'} \intersect Kind = {},
         \/ Testing'
         \/ ~ Testing /\ UNCHANGED <<target, test>> /\ \A m \in Machine : WillHave(m)' = WillHave(m)
  PROVE  Prepared'
<1>1. Machine' = Machine /\ Test' = Test
  BY SameMachines
<1>2. \A k \in Kind : Size(k)' = Size(k) /\ Begun(k)' = Begun(k) /\ Requested(k)' = Requested(k)
  BY DEF Size, NumProxies, Begun, Requested, Kind
<1>3. KindsStarted'
  BY <1>2 DEF Prepared, KindsStarted
<1>4. CASE Testing'
  BY <1>3, <1>4 DEF Prepared, ScriptsDone, TargetsOwn
<1>5. CASE ~ Testing /\ UNCHANGED <<target, test>> /\ \A m \in Machine : WillHave(m)' = WillHave(m)
  <2>1. ScriptsDone'
    <3>1. \A m \in Machine : Wanted(m[1])' = Wanted(m[1])
      BY DEF Wanted
    <3> QED
      BY <1>1, <1>5, <3>1 DEF Prepared, ScriptsDone
  <2>2. TargetsOwn'
    BY <1>1, <1>5 DEF Prepared, TargetsOwn
  <2> QED
    BY <1>3, <2>1, <2>2 DEF Prepared
<1> QED
  BY <1>4, <1>5

LEMMA StartPrepares ==
  ASSUME IInv, Prepared, NEW k \in Kind, StartKind(k)
  PROVE  Prepared'
<1>1. Machine' = Machine /\ Test' = Test
  BY SameMachines DEF StartKind
<1>2. ~ Testing /\ main = k /\ main' = AfterStart(k) /\ <<k, 0>> \in Job /\ job[<<k, 0>>] = "none"
  BY CoordinatorsAreJobs DEF StartKind, IInv, NotYet, Kind, Testing
<1>3. \A j \in Job : job'[j] = IF j = <<k, 0>> /\ Requested(k) THEN "ready" ELSE job[j]
  BY <1>2 DEF StartKind, Do, IInv, Typed
<1>4. \A l \in Kind : /\ Size(l)' = Size(l) /\ Requested(l)' = Requested(l)
                      /\ Begun(l)' => Begun(l) \/ l = k
  BY <1>2 DEF StartKind, Size, NumProxies, Requested, Begun, AfterStart, Kind
<1>5. KindsStarted'
  <2> SUFFICES ASSUME NEW l \in Kind
               PROVE  /\ Begun(l)' /\ Requested(l) => job'[<<l, 0>>] # "none"
                      /\ job'[<<l, 0>>] = "gone" /\ <<l, 0>> \notin failed =>
                           \A n \in 1 .. Size(l) : job'[<<l, n>>] # "none"
    BY <1>4 DEF KindsStarted, StartKind
  <2>1. <<l, 0>> \in Job /\ \A n \in 1 .. Size(l) : <<l, n>> \in Job
    BY CoordinatorsAreJobs DEF IInv, Typed
  <2>2. Begun(l)' /\ Requested(l) => job'[<<l, 0>>] # "none"
    BY <1>3, <1>4, <2>1 DEF Prepared, KindsStarted
  <2>3. ASSUME job'[<<l, 0>>] = "gone", <<l, 0>> \notin failed, NEW n \in 1 .. Size(l)
        PROVE  job'[<<l, n>>] # "none"
    BY <1>3, <2>1, <2>3 DEF Prepared, KindsStarted
  <2> QED
    BY <2>2, <2>3
<1>6. ScriptsDone'
  <2>1. \A m \in Machine : /\ job'[m] = job[m] /\ Wanted(m[1])' = Wanted(m[1])
                           /\ WillHave(m)' = WillHave(m)
    BY <1>3, CoordinatorsAreJobs DEF StartKind, Wanted, WillHave, Restarted, machines
  <2> QED
    BY <1>1, <1>2, <2>1 DEF StartKind, Prepared, ScriptsDone
<1>7. TargetsOwn'
  BY <1>1, <1>2 DEF StartKind, machines, testing, Prepared, TargetsOwn
<1> QED
  BY <1>5, <1>6, <1>7 DEF Prepared

LEMMA CoordinatorPrepares ==
  ASSUME IInv, Prepared, NEW k \in Kind, CoordinatorStep(k)
  PROVE  Prepared'
<1> DEFINE c == <<k, 0>>
<1>1. c \in Job /\ c \notin Machine /\ \A l \in Kind : c = <<l, 0>> => l = k
  BY CoordinatorsAreJobs DEF Machine
<1>2. CASE NoMachines(k)
  <2>1. Started(k) = 1 .. Size(k)
    BY <1>2 DEF NoMachines, Started
  <2> QED
    BY <1>1, <1>2, <2>1, JobPrepares DEF NoMachines, Done
<1>3. CASE FetchFails(k)
  BY <1>1, <1>3, JobPrepares DEF FetchFails, Fail
<1>4. CASE Fetch(k)
  BY <1>1, <1>4, JobPrepares DEF Fetch
<1>5. CASE DoDeploy(k)
  <2>1. PICK n \in (1 .. Size(k)) \ Started(k) : Do(<<k, n>>)
    BY <1>5 DEF DoDeploy
  <2>2. <<k, n>> \in Job
    BY <2>1, CoordinatorsAreJobs DEF IInv, Typed
  <2> QED
    BY <1>5, <2>1, <2>2, JobPrepares DEF DoDeploy, Do
<1>6. CASE AllStarted(k)
  BY <1>1, <1>6, JobPrepares DEF AllStarted, Done
<1> QED
  BY <1>2, <1>3, <1>4, <1>5, <1>6 DEF CoordinatorStep

(* The script of a machine is executed, and comes to its end or fails.     *)
LEMMA ExecutePrepares ==
  ASSUME IInv, Prepared, NEW m \in Machine, NEW i \in Nat, Execute(m, i),
         UNCHANGED <<cluster, main, testing>>, failed \subseteq failed', job[m] = "ready",
         NEW x \in {"working", "report"}, job' = [job EXCEPT ![m] = x],
         \A n \in Machine : n # m => power'[n] = power[n],
         x = "working" => Wanted(m[1]) \subseteq WillHave(m)'
  PROVE  Prepared'
<1>1. Machine' = Machine /\ Test' = Test /\ m \in Job /\ \A n \in Machine : n \in Job
  BY SameMachines, CoordinatorsAreJobs
<1>2. \A k \in Kind : /\ Size(k)' = Size(k) /\ Begun(k)' = Begun(k) /\ Requested(k)' = Requested(k)
                      /\ <<k, 0>> \in Job /\ m # <<k, 0>>
  BY CoordinatorsAreJobs DEF Size, NumProxies, Begun, Requested
<1>3. KindsStarted'
  <2>1. \A k \in Kind : \A n \in 1 .. Size(k) : <<k, n>> \in Job
    BY CoordinatorsAreJobs DEF IInv, Typed
  <2>2. \A j \in Job : /\ j # m => job'[j] = job[j]
                       /\ job'[m] # "none"
    BY <1>1 DEF IInv, Typed
  <2> QED
    BY <1>2, <2>1, <2>2 DEF Prepared, KindsStarted
<1>4. ScriptsDone'
  <2> SUFFICES ASSUME ~ Testing, NEW n \in Machine,
                      job'[n] = "working" \/ (job'[n] = "gone" /\ n \notin failed')
               PROVE  Wanted(n[1]) \subseteq WillHave(n)'
    <3>1. \A n \in Machine : Wanted(n[1])' = Wanted(n[1])
      BY DEF Wanted
    <3> QED
      BY <1>1, <3>1 DEF ScriptsDone, Testing
  <2>1. CASE n = m
    BY <1>1, <2>1 DEF IInv, Typed
  <2>2. CASE n # m
    <3>1. job'[n] = job[n] /\ has'[n] = has[n] /\ power'[n] = power[n]
      BY <1>1, <2>2 DEF Execute, IInv, Typed
    <3>2. WillHave(n)' = WillHave(n)
      BY <3>1 DEF WillHave, Restarted
    <3> QED
      BY <3>1, <3>2 DEF Prepared, ScriptsDone
  <2> QED
    BY <2>1, <2>2
<1>5. TargetsOwn'
  <2>1. ASSUME m[1] = "loadtest"
        PROVE  m[2] \in Test /\ ProxyOf(InstanceNum(m[2])) = m[2] - 1
    <3>1. cluster.tests \in Nat /\ m[2] \in 1 .. cluster.tests
      BY <2>1, DeploymentsAssumption DEF Machine, Size, IInv, Typed
    <3>2. \A a, b \in Nat : a < b => a % b = a
      OBVIOUS
    <3> QED
      BY <3>1, <3>2 DEF Test, ProxyOf, NumProxies, InstanceNum
  <2>2. \A t \in Test : target'[t] = target[t] \/ target'[t] = t - 1
    BY <2>1 DEF Execute, IInv, Typed
  <2> QED
    BY <1>1, <2>2 DEF Prepared, TargetsOwn, Testing, testing
<1> QED
  BY <1>3, <1>4, <1>5 DEF Prepared

LEMMA ScriptPrepares ==
  ASSUME IInv, Prepared, NEW m \in Machine, ScriptStep(m)
  PROVE  Prepared'
<1>1. m \in Job /\ m[1] \in Kind /\ \A k \in Kind : m # <<k, 0>>
  BY CoordinatorsAreJobs DEF Machine
<1>2. Len(Script(m[1])) \in Nat
  BY <1>1
     DEF Script, Kind, deployToAppInstance, deployToProxyInstance, deployToLoadtestInstance
<1>3. CASE ScriptFails(m)
  <2>1. PICK i \in 0 .. Len(Script(m[1])) : Execute(m, i)
    BY <1>3 DEF ScriptFails
  <2>2. /\ job[m] = "ready" /\ job' = [job EXCEPT ![m] = "report"]
        /\ failed \subseteq failed' /\ UNCHANGED <<cluster, main, testing>>
        /\ \A n \in Machine : power'[n] = power[n]
    BY <1>3 DEF ScriptFails, Fail
  <2>3. i \in Nat
    BY <1>2
  <2> QED
    BY <2>1, <2>2, <2>3, ExecutePrepares
<1>4. CASE RunScript(m)
  <2>1. has'[m] = After(m, Len(Script(m[1]))) /\ power'[m] = "stopping"
    BY <1>4 DEF RunScript, Execute, IInv, Typed
  <2>2. Wanted(m[1]) \subseteq WillHave(m)'
    BY <2>1, ScriptSuffices DEF WillHave, Restarted
  <2>3. \A n \in Machine : n # m => power'[n] = power[n]
    BY <1>4 DEF RunScript, IInv, Typed
  <2> QED
    BY <1>2, <1>4, <2>2, <2>3, ExecutePrepares DEF RunScript
<1>5. CASE Rebooted(m)
  BY <1>1, <1>5, JobPrepares DEF Rebooted, Done
<1>6. CASE RebootTimesOut(m)
  BY <1>1, <1>6, JobPrepares DEF RebootTimesOut, Fail
<1> QED
  BY <1>3, <1>4, <1>5, <1>6 DEF ScriptStep

(* The reboot changes what a machine has to what it was to have.           *)
LEMMA MachinePrepares ==
  ASSUME IInv, Prepared, NEW m \in Machine, PollStep(m) \/ GoDown(m) \/ ComeUp(m)
  PROVE  Prepared'
<1>1. UNCHANGED <<cluster, job, failed, main, target, test>>
  BY DEF PollStep, Dial, StopPolling, DialFails, Connect, GoDown, ComeUp, deploying, testing
<1>2. ASSUME NEW n \in Machine
      PROVE  WillHave(n)' = WillHave(n)
  <2>1. CASE PollStep(m)
    BY <2>1 DEF PollStep, Dial, StopPolling, DialFails, Connect, WillHave, Restarted
  <2>2. CASE GoDown(m)
    BY <2>2 DEF GoDown, WillHave, Restarted, IInv, Typed
  <2>3. CASE ComeUp(m)
    BY <2>3 DEF ComeUp, WillHave, Restarted, IInv, Typed
  <2> QED
    BY <2>1, <2>2, <2>3
<1>3. Testing' = Testing
  BY <1>1 DEF Testing
<1> QED
  BY <1>1, <1>2, <1>3, SamePrepares

LEMMA DeployPrepares ==
  ASSUME IInv, Prepared, DeployStep
  PROVE  Prepared'
<1>1. ASSUME NEW m \in Machine, UNCHANGED machines
      PROVE  WillHave(m)' = WillHave(m)
  BY <1>1 DEF machines, WillHave, Restarted
<1>2. CASE StartReader \/ CloseFailed \/ Return
  <2>1. UNCHANGED <<cluster, job, failed, machines, testing>>
    BY <1>2 DEF StartReader, CloseFailed, Return, deploying
  <2>2. {main, main'} \intersect Kind = {} /\ ~ Testing
    BY <1>2 DEF StartReader, CloseFailed, Return, Kind, Testing
  <2> QED
    BY <1>1, <2>1, <2>2, SamePrepares DEF machines, testing
<1>3. CASE CountFailure \/ EndCount
  <2>1. UNCHANGED <<cluster, main, job, failed, machines, testing>>
    BY <1>3 DEF CountFailure, EndCount
  <2>2. Testing' = Testing
    BY <2>1 DEF Testing
  <2> QED
    BY <1>1, <2>1, <2>2, SamePrepares DEF machines, testing
<1>4. ASSUME NEW j \in Job, Report(j)
      PROVE  Prepared'
  <2>1. j \in failed
    BY <1>4 DEF Report, IInv, FailedReport
  <2> QED
    BY <1>4, <2>1, JobPrepares DEF Report, Done
<1> QED
  BY <1>2, <1>3, <1>4, StartPrepares DEF DeployStep

LEMMA NextPrepares == IInv /\ Prepared /\ [Next]_vars => Prepared'
<1> SUFFICES ASSUME IInv, Prepared, [Next]_vars
             PROVE  Prepared'
  OBVIOUS
<1>1. CASE LoadtestStep
  <2>1. Testing' /\ UNCHANGED <<cluster, job, failed>> /\ {main, main'} \intersect Kind = {}
    BY <1>1 DEF LoadtestStep, Loadtest, NextTest, LaunchTest, JoinTests, Testing, Kind, deploying
  <2> QED
    BY <2>1, SamePrepares
<1>2. ASSUME NEW t \in Test, TestStep(t)
      PROVE  Prepared'
  <2>1. UNCHANGED <<cluster, main, job, failed>> /\ test[t] # "none"
    BY <1>2 DEF TestStep, ReadNumber, Prepare, PrepareFails, Run, Result, CheckErr, deploying
  <2>2. Testing'
    BY <2>1 DEF Prepared, TargetsOwn, Testing
  <2> QED
    BY <2>1, <2>2, SamePrepares
<1>3. CASE UNCHANGED vars
  <2>1. UNCHANGED <<cluster, main, job, failed, target, test>> /\ Testing' = Testing
    BY <1>3 DEF vars, deploying, machines, testing, Testing
  <2>2. \A m \in Machine : WillHave(m)' = WillHave(m)
    BY <1>3 DEF vars, machines, WillHave, Restarted
  <2> QED
    BY <2>1, <2>2, SamePrepares
<1> QED
  BY <1>1, <1>2, <1>3, DeployPrepares, CoordinatorPrepares, ScriptPrepares, MachinePrepares
     DEF Next

LEMMA PreparedAlways == Spec => [](IInv /\ Prepared)
<1>1. Init => Prepared
  <2> SUFFICES ASSUME Init
               PROVE  Prepared
    OBVIOUS
  <2>1. KindsStarted
    BY CoordinatorsAreJobs DEF Init, KindsStarted, Begun, Kind
  <2>2. ScriptsDone /\ TargetsOwn
    BY CoordinatorsAreJobs DEF Init, ScriptsDone, TargetsOwn
  <2> QED
    BY <2>1, <2>2 DEF Prepared
<1>2. IInv /\ Prepared /\ [Next]_vars => IInv' /\ Prepared'
  BY NextTyped, NextKeeps, NextPrepares DEF IInv, Counts, Control
<1> QED
  BY <1>1, <1>2, Initially, PTL DEF Spec

(* A deployment without an error leaves every machine as it should be.     *)
THEOREM MachinesDeployed == Spec => []Deployed
<1>1. IInv /\ Prepared => Deployed
  BY DeployedFollows DEF Prepared
<1> QED
  BY <1>1, PreparedAlways, PTL

(* It gives every load test machine a proxy of its own.                    *)
THEOREM ProxiesNotShared == Spec => []OwnProxy
<1>1. IInv /\ Prepared => OwnProxy
  BY OwnProxyFollows DEF Prepared
<1> QED
  BY <1>1, PreparedAlways, PTL
=============================================================================
