-------------------------------- MODULE Deploy --------------------------------
(***************************************************************************)
(* Deploying to a cluster of machines, and testing with it (terraform/     *)
(* cluster_deploy.go and cluster_loadtest.go).  Goroutines that `do`       *)
(* starts, and a wait group counts, prepare the machines: one for each     *)
(* kind of machine, which starts one for each machine.  Those that fail    *)
(* say so on a channel, which is counted from.                             *)
(*                                                                         *)
(* The machines are external: they execute what they are told or refuse,   *)
(* go down some time after they were told to reboot, and may come up       *)
(* again.  A script touches only its own machine until the reboot, so it   *)
(* is one step, whose outcome is how far it came.                          *)
(***************************************************************************)
EXTENDS Integers, FiniteSets, Sequences

CONSTANT
  Deployments  \* what is deployed to what: distributions given, apps, load tests

ASSUME DeploymentsAssumption ==
  \A d \in Deployments :
    /\ d \in [mattermost : BOOLEAN, loadtests : BOOLEAN, apps : Nat, tests : Nat]
    /\ d.mattermost \/ d.loadtests

VARIABLES
  cluster,      \* one of Deployments
  main,         \* where Deploy is, and Loadtest after it
  job,          \* where each goroutine that do started is
  failed,       \* history: those whose action returned an error
  wg,           \* count of the wait group
  reader,       \* where the goroutine that counts failures is
  failedCount,  \* its count
  has,          \* what each machine has of this deployment
  target,       \* the proxy each load test machine is configured for
  power,        \* is a machine up, going down, or down?
  poll,         \* where the goroutine is that polls a rebooting machine
  instanceNum,  \* the loop variable of Loadtest
  err,          \* is the err of Loadtest not nil?
  test,         \* where the goroutine of each load test is
  number,       \* the instanceNum it was started with
  result,       \* history: did its test return an error?
  logged        \* the load tests whose error was logged

deploying == <<job, failed, wg, reader, failedCount>>
machines  == <<has, target, power, poll>>
testing   == <<instanceNum, err, test, number, result, logged>>
vars      == <<cluster, main, deploying, machines, testing>>

Kind == {"app", "proxy", "loadtest"}

(* There is a proxy for every load test machine.                           *)
NumProxies == cluster.tests

Size(k) ==
  CASE k = "app"      -> cluster.apps
    [] k = "proxy"    -> NumProxies
    [] k = "loadtest" -> cluster.tests

Requested(k) == IF k = "loadtest" THEN cluster.loadtests ELSE cluster.mattermost

(* The goroutine of a kind is <<k, 0>>, and that of its n-th machine       *)
(* <<k, n>>.                                                               *)
Coordinator == Kind \X {0}
Machine     == {m \in Kind \X (1 .. cluster.apps + cluster.tests) : m[2] <= Size(m[1])}
Job         == Coordinator \union Machine
Test        == 1 .. cluster.tests
NoProxy     == -1
NoNumber    == -1

Thing == {"dist", "service", "unpacked", "license", "limits", "tuned", "site",
          "configured", "running", "enabled"}

TypeOK ==
  /\ cluster \in Deployments
  /\ main \in {"app", "proxy", "loadtest", "count", "wait", "closed", "deployed",
               "next", "launch", "tested"}
  /\ job \in [Job -> {"none", "ready", "working", "report", "gone"}]
  /\ failed \in SUBSET Job
  /\ wg \in 0 .. Cardinality(Job)
  /\ reader \in {"none", "receive", "count", "gone"}
  /\ failedCount \in 0 .. Cardinality(Job)
  /\ has \in [Machine -> SUBSET Thing]
  /\ target \in [Test -> {NoProxy} \union (0 .. NumProxies - 1)]
  /\ power \in [Machine -> {"up", "stopping", "down"}]
  /\ poll \in [Machine -> {"none", "sleep", "dial", "connected", "gone"}]
  /\ instanceNum \in 0 .. cluster.tests - 1 \/ instanceNum = 0
  /\ err \in BOOLEAN
  /\ test \in [Test -> {"none", "start", "connect", "run", "check", "gone"}]
  /\ number \in [Test -> {NoNumber} \union (0 .. cluster.tests - 1)]
  /\ result \in [Test -> BOOLEAN]
  /\ logged \in SUBSET Test

(* Machines that were just created.                                        *)
Init ==
  /\ cluster \in Deployments
  /\ main = "app"
  /\ job = [j \in Job |-> "none"]
  /\ failed = {}
  /\ wg = 0
  /\ reader = "none"
  /\ failedCount = 0
  /\ has = [m \in Machine |-> {}]
  /\ target = [t \in Test |-> NoProxy]
  /\ power = [m \in Machine |-> "up"]
  /\ poll = [m \in Machine |-> "none"]
  /\ instanceNum = 0
  /\ err = FALSE
  /\ test = [t \in Test |-> "none"]
  /\ number = [t \in Test |-> NoNumber]
  /\ result = [t \in Test |-> FALSE]
  /\ logged = {}

-----------------------------------------------------------------------------
(* do, and how what it started ends.  A failed action is counted from the  *)
(* channel before its goroutine is done; sending on it once it is closed   *)
(* would panic, but nobody is left who could (NoneLeft).                   *)

Do(j) ==
  /\ wg' = wg + 1
  /\ job' = [job EXCEPT ![j] = "ready"]

Done(j) ==
  /\ wg' = wg - 1
  /\ job' = [job EXCEPT ![j] = "gone"]
  /\ UNCHANGED failed

Fail(j) ==
  /\ failed' = failed \union {j}
  /\ job' = [job EXCEPT ![j] = "report"]
  /\ UNCHANGED wg

(* The channel has no buffer: sending and receiving are one step.          *)
Report(j) ==
  /\ job[j] = "report"
  /\ reader = "receive"
  /\ reader' = "count"
  /\ Done(j)
  /\ UNCHANGED <<cluster, main, failedCount, machines, testing>>

CountFailure ==
  /\ reader = "count"
  /\ failedCount' = failedCount + 1
  /\ reader' = "receive"
  /\ UNCHANGED <<cluster, main, job, failed, wg, machines, testing>>

EndCount ==
  /\ reader = "receive"
  /\ main = "closed"
  /\ reader' = "gone"
  /\ UNCHANGED <<cluster, main, job, failed, wg, failedCount, machines, testing>>

-----------------------------------------------------------------------------
(* Deploy.                                                                 *)

AfterStart(k) ==
  CASE k = "app" -> "proxy" [] k = "proxy" -> "loadtest" [] k = "loadtest" -> "count"

(* DeployMattermost, which starts two, and DeployLoadtests.                *)
StartKind(k) ==
  /\ main = k
  /\ main' = AfterStart(k)
  /\ IF Requested(k) THEN Do(<<k, 0>>) ELSE UNCHANGED <<job, wg>>
  /\ UNCHANGED <<cluster, failed, reader, failedCount, machines, testing>>

StartReader ==
  /\ main = "count"
  /\ main' = "wait"
  /\ reader' = "receive"
  /\ UNCHANGED <<cluster, job, failed, wg, failedCount, machines, testing>>

CloseFailed ==
  /\ main = "wait"
  /\ wg = 0
  /\ main' = "closed"
  /\ UNCHANGED <<cluster, deploying, machines, testing>>

(* It returns an error if failedCount is not 0.                            *)
Return ==
  /\ main = "closed"
  /\ reader = "gone"
  /\ main' = "deployed"
  /\ UNCHANGED <<cluster, deploying, machines, testing>>

Succeeded == failedCount = 0

-----------------------------------------------------------------------------
(* The goroutine of a kind.                                                *)

(* Wrapping no error is no error: no machines, no failure.                 *)
NoMachines(k) ==
  /\ job[<<k, 0>>] = "ready"
  /\ Size(k) = 0
  /\ Done(<<k, 0>>)
  /\ UNCHANGED <<cluster, main, reader, failedCount, machines, testing>>

(* The addresses, the distribution or the license cannot be had.           *)
FetchFails(k) ==
  /\ job[<<k, 0>>] = "ready"
  /\ Fail(<<k, 0>>)
  /\ UNCHANGED <<cluster, main, reader, failedCount, machines, testing>>

Fetch(k) ==
  /\ job[<<k, 0>>] = "ready"
  /\ Size(k) > 0
  /\ job' = [job EXCEPT ![<<k, 0>>] = "working"]
  /\ UNCHANGED <<cluster, main, failed, wg, reader, failedCount, machines, testing>>

Started(k) == {n \in 1 .. Size(k) : job[<<k, n>>] # "none"}

(* Mutant: the goroutines of the machines are not in the wait group.       *)
DoDeployUncounted(k) ==
  /\ job[<<k, 0>>] = "working"
  /\ \E n \in (1 .. Size(k)) \ Started(k) :
       /\ n = Cardinality(Started(k)) + 1
       /\ job' = [job EXCEPT ![<<k, n>>] = "ready"]
  /\ UNCHANGED <<cluster, main, failed, wg, reader, failedCount, machines, testing>>

DoDeploy(k) ==
  /\ job[<<k, 0>>] = "working"
  /\ \E n \in (1 .. Size(k)) \ Started(k) :
       /\ n = Cardinality(Started(k)) + 1
       /\ Do(<<k, n>>)
  /\ UNCHANGED <<cluster, main, failed, reader, failedCount, machines, testing>>

AllStarted(k) ==
  /\ job[<<k, 0>>] = "working"
  /\ Started(k) = 1 .. Size(k)
  /\ Done(<<k, 0>>)
  /\ UNCHANGED <<cluster, main, reader, failedCount, machines, testing>>

-----------------------------------------------------------------------------
(* The scripts: what each command gives a machine, and what it takes.      *)

Step(gives, takes) == [gives |-> gives, takes |-> takes]
Give(thing) == Step({thing}, {})

uploadSystemdFile == Give("service")
uploadNginxConfig == Give("site")
uploadLimitsConfig == Give("limits")

(* Mutant: the license is uploaded before what it belongs to.              *)
deployToAppInstanceSwapped ==
  << Give("dist"), uploadSystemdFile, Give("license"),
     Step({"unpacked"}, {"license", "configured"}),
     uploadLimitsConfig, Give("configured"), Give("running"), Give("enabled") >>

deployToAppInstance ==
  << Give("dist"), uploadSystemdFile, Step({"unpacked"}, {"license", "configured"}),
     Give("license"), uploadLimitsConfig, Give("configured"), Give("running"), Give("enabled") >>

deployToProxyInstance ==
  << Give("unpacked"), uploadNginxConfig, uploadLimitsConfig,
     Give("configured"), Give("running"), Give("enabled") >>

(* Without an app server, which is no error, nothing is configured.        *)
configureLoadtestInstance ==
  IF cluster.apps = 0 THEN Step({}, {}) ELSE Give("configured")

deployToLoadtestInstance ==
  << Give("dist"), Step({"unpacked"}, {"configured"}), uploadLimitsConfig,
     configureLoadtestInstance >>

Script(k) ==
  CASE k = "app"      -> deployToAppInstance
    [] k = "proxy"    -> deployToProxyInstance
    [] k = "loadtest" -> deployToLoadtestInstance

(* What a machine has after the first i commands: what it had or one of    *)
(* them gave, and none since took.                                         *)
After(m, i) ==
  LET script == Script(m[1])
      Kept(x, j) == \A l \in j + 1 .. i : x \notin script[l].takes
  IN  {x \in Thing : \/ x \in has[m] /\ Kept(x, 0)
                     \/ \E j \in 1 .. i : x \in script[j].gives /\ Kept(x, j)}

ProxyOf(num) == num % NumProxies

(* deployToLoadtestInstance passes its machine's number on.                *)
InstanceNum(n) == n - 1

Execute(m, i) ==
  /\ has' = [has EXCEPT ![m] = After(m, i)]
  /\ target' = IF m[1] = "loadtest" /\ "configured" \in After(m, i)
               THEN [target EXCEPT ![m[2]] = ProxyOf(InstanceNum(m[2]))]
               ELSE target

(* The connection or a command fails, having had its effect or not.        *)
ScriptFails(m) ==
  /\ job[m] = "ready"
  /\ \E i \in 0 .. Len(Script(m[1])) : Execute(m, i)
  /\ Fail(m)
  /\ UNCHANGED <<cluster, main, reader, failedCount, power, poll, testing>>

(* All of it, up to "shutdown -r now &", which returns at once.            *)
RunScript(m) ==
  /\ job[m] = "ready"
  /\ Execute(m, Len(Script(m[1])))
  /\ job' = [job EXCEPT ![m] = "working"]
  /\ power' = [power EXCEPT ![m] = "stopping"]
  /\ poll' = [poll EXCEPT ![m] = "sleep"]
  /\ UNCHANGED <<cluster, main, failed, wg, reader, failedCount, testing>>

-----------------------------------------------------------------------------
(* The rest of reboot: a goroutine polls until it can connect, and reboot  *)
(* waits for that, for a minute.  Nobody joins the goroutine.              *)

Cancelled(m) == job[m] # "working"

Dial(m) ==
  /\ poll[m] = "sleep"
  /\ poll' = [poll EXCEPT ![m] = "dial"]
  /\ UNCHANGED <<cluster, main, deploying, has, target, power, testing>>

StopPolling(m) ==
  /\ poll[m] = "sleep"
  /\ Cancelled(m)
  /\ poll' = [poll EXCEPT ![m] = "gone"]
  /\ UNCHANGED <<cluster, main, deploying, has, target, power, testing>>

DialFails(m) ==
  /\ poll[m] = "dial"
  /\ poll' = [poll EXCEPT ![m] = "sleep"]
  /\ UNCHANGED <<cluster, main, deploying, has, target, power, testing>>

(* The machine may be up because it has not gone down yet.                 *)
Connect(m) ==
  /\ poll[m] = "dial"
  /\ power[m] # "down"
  /\ poll' = [poll EXCEPT ![m] = "connected"]
  /\ UNCHANGED <<cluster, main, deploying, has, target, power, testing>>

Rebooted(m) ==
  /\ job[m] = "working"
  /\ poll[m] = "connected"
  /\ Done(m)
  /\ UNCHANGED <<cluster, main, reader, failedCount, machines, testing>>

(* Mutant: the minute is checked between attempts to connect.              *)
RebootTimesOutBetween(m) ==
  /\ job[m] = "working"
  /\ poll[m] = "sleep"
  /\ Fail(m)
  /\ UNCHANGED <<cluster, main, reader, failedCount, machines, testing>>

RebootTimesOut(m) ==
  /\ job[m] = "working"
  /\ Fail(m)
  /\ UNCHANGED <<cluster, main, reader, failedCount, machines, testing>>

(* The machines.  Services that are enabled start with them, and limits    *)
(* apply from then on.                                                     *)
Restarted(things) ==
  (things \ {"running"})
    \union (IF "limits" \in things THEN {"tuned"} ELSE {})
    \union (IF "enabled" \in things THEN {"running"} ELSE {})

GoDown(m) ==
  /\ power[m] = "stopping"
  /\ power' = [power EXCEPT ![m] = "down"]
  /\ UNCHANGED <<cluster, main, deploying, has, target, poll, testing>>

ComeUp(m) ==
  /\ power[m] = "down"
  /\ power' = [power EXCEPT ![m] = "up"]
  /\ has' = [has EXCEPT ![m] = Restarted(has[m])]
  /\ UNCHANGED <<cluster, main, deploying, target, poll, testing>>

-----------------------------------------------------------------------------
(* Loadtest, by another process once Deploy has returned.                  *)

(* Not if the addresses or the configuration file cannot be had, or there  *)
(* are no machines, which is no error either.                              *)
Loadtest ==
  /\ main = "deployed"
  /\ cluster.tests > 0
  /\ main' = "next"
  /\ poll' = [m \in Machine |-> "gone"]
  /\ UNCHANGED <<cluster, deploying, has, target, power, testing>>

Launched == {t \in Test : test[t] # "none"}

(* Mutant: the loop counts from one.                                       *)
NextTestFromOne ==
  /\ main = "next"
  /\ Launched # Test
  /\ instanceNum' = Cardinality(Launched) + 1
  /\ main' = "launch"
  /\ UNCHANGED <<cluster, deploying, machines, err, test, number, result, logged>>

(* The loop sets its variable, and only then sleeps to stagger the starts. *)
NextTest ==
  /\ main = "next"
  /\ Launched # Test
  /\ instanceNum' = Cardinality(Launched)
  /\ main' = "launch"
  /\ UNCHANGED <<cluster, deploying, machines, err, test, number, result, logged>>

LaunchTest ==
  /\ main = "launch"
  /\ test' = [test EXCEPT ![instanceNum + 1] = "start"]
  /\ main' = "next"
  /\ UNCHANGED <<cluster, deploying, machines, instanceNum, err, number, result, logged>>

(* Its wait group counts those launched that are not gone.                 *)
JoinTests ==
  /\ main = "next"
  /\ \A t \in Test : test[t] = "gone"
  /\ main' = "tested"
  /\ UNCHANGED <<cluster, deploying, machines, testing>>

(* The goroutines share the loop's variable and the function's err.        *)
ReadNumber(t) ==
  /\ test[t] = "start"
  /\ number' = [number EXCEPT ![t] = instanceNum]
  /\ test' = [test EXCEPT ![t] = "connect"]
  /\ UNCHANGED <<cluster, main, deploying, machines, instanceNum, err, result, logged>>

Reachable(t) == power[<<"loadtest", t>>] # "down"

Prepare(t) ==
  /\ test[t] = "connect"
  /\ Reachable(t)
  /\ "unpacked" \in has[<<"loadtest", t>>]
  /\ has' = [has EXCEPT ![<<"loadtest", t>>] = @ \union configureLoadtestInstance.gives]
  /\ target' = IF configureLoadtestInstance.gives = {} THEN target
               ELSE [target EXCEPT ![t] = ProxyOf(number[t])]
  /\ test' = [test EXCEPT ![t] = "run"]
  /\ UNCHANGED <<cluster, main, deploying, power, poll, instanceNum, err, number, result, logged>>

(* loadtestInstance returns.                                               *)
Result(t, e) ==
  /\ err' = e
  /\ result' = [result EXCEPT ![t] = e]
  /\ test' = [test EXCEPT ![t] = "check"]
  /\ UNCHANGED <<cluster, main, deploying, power, poll, instanceNum, number, logged>>

(* It may have replaced the configuration by the file given.               *)
PrepareFails(t) ==
  /\ test[t] = "connect"
  /\ has' \in {has, [has EXCEPT ![<<"loadtest", t>>] = @ \ {"configured"}]}
  /\ UNCHANGED target
  /\ Result(t, TRUE)

Run(t) ==
  /\ test[t] = "run"
  /\ \E e \in BOOLEAN : (Reachable(t) \/ e) /\ Result(t, e)
  /\ UNCHANGED <<has, target>>

(* What is tested and logged is err, or what was assigned to it if the     *)
(* compiler still has that at hand.                                        *)
CheckErr(t) ==
  /\ test[t] = "check"
  /\ \E e \in {err, result[t]} : logged' = IF e THEN logged \union {t} ELSE logged
  /\ test' = [test EXCEPT ![t] = "gone"]
  /\ UNCHANGED <<cluster, main, deploying, machines, instanceNum, err, number, result>>

-----------------------------------------------------------------------------

DeployStep ==
  \/ \E k \in Kind : StartKind(k)
  \/ StartReader
  \/ CloseFailed
  \/ Return
  \/ CountFailure
  \/ EndCount
  \/ \E j \in Job : Report(j)

CoordinatorStep(k) == NoMachines(k) \/ FetchFails(k) \/ Fetch(k) \/ DoDeploy(k) \/ AllStarted(k)

ScriptStep(m) == ScriptFails(m) \/ RunScript(m) \/ Rebooted(m) \/ RebootTimesOut(m)

PollStep(m) == Dial(m) \/ StopPolling(m) \/ DialFails(m) \/ Connect(m)

LoadtestStep == Loadtest \/ NextTest \/ LaunchTest \/ JoinTests

TestStep(t) == ReadNumber(t) \/ Prepare(t) \/ PrepareFails(t) \/ Run(t) \/ CheckErr(t)

Next ==
  \/ DeployStep
  \/ \E k \in Kind : CoordinatorStep(k)
  \/ \E m \in Machine : ScriptStep(m) \/ PollStep(m) \/ GoDown(m) \/ ComeUp(m)
  \/ LoadtestStep
  \/ \E t \in Test : TestStep(t)

AnyMachine == UNION {Kind \X (1 .. d.apps + d.tests) : d \in Deployments}

(* Goroutines that can run do, commands end, and a minute passes.  Nothing *)
(* is promised of a machine: it may stay down, or not answer a connection. *)
Fairness ==
  /\ WF_vars(DeployStep)
  /\ \A k \in Kind : WF_vars(CoordinatorStep(k))
  /\ \A m \in AnyMachine : WF_vars(m \in Machine /\ ScriptStep(m))

Spec == Init /\ [][Next]_vars /\ Fairness

-----------------------------------------------------------------------------
(* Properties.                                                             *)

Returned == main \notin {"app", "proxy", "loadtest", "count", "wait", "closed"}

(* When Deploy has closed the channel, none of the goroutines it started,  *)
(* directly or through others, is left: the wait group counts those that   *)
(* are started by others in time, and nothing is sent on a closed channel. *)
NoneLeft == Returned \/ main = "closed" => \A j \in Job : job[j] \in {"none", "gone"}

(* The number of failures Deploy returns is that of the actions that       *)
(* returned an error: none is lost between the channel and the count.      *)
FailuresCounted == Returned => failedCount = Cardinality(failed)

Wanted(k) ==
  CASE k = "app"      -> {"unpacked", "license", "configured", "running", "tuned"}
    [] k = "proxy"    -> {"unpacked", "site", "configured", "running", "tuned"}
    [] k = "loadtest" -> {"unpacked", "tuned"}
                           \union (IF cluster.apps = 0 THEN {} ELSE {"configured"})

WillHave(m) == IF power[m] = "up" THEN has[m] ELSE Restarted(has[m])

(* When Deploy returns without an error, every machine it was asked to     *)
(* deploy to has all it should, its services run and its limits apply, or  *)
(* will once the reboot under way is over.  (Without an app server, load   *)
(* test machines are left unconfigured.)                                   *)
Deployed ==
  main = "deployed" /\ Succeeded =>
    \A m \in Machine : Requested(m[1]) => Wanted(m[1]) \subseteq WillHave(m)

(* Every load test machine Deploy has configured has a proxy of its own.   *)
OwnProxy ==
  main = "deployed" /\ Succeeded =>
    \A t, u \in Test : t # u /\ target[t] # NoProxy => target[t] # target[u]

(* Deploy returns, even if machines never come back or connections to them *)
(* hang: reporting a failure does not block for ever.                      *)
DeployReturns == <>Returned

(* Tests that run at the same time go through different proxies, of which  *)
(* there is one for each: the goroutines do not race for the loop's        *)
(* variable, since "Stagger the instance starts to avoid races".           *)
TestsOwnProxy ==
  \A t, u \in Test : t # u /\ test[t] = "run" /\ test[u] = "run" => target[t] # target[u]
=============================================================================
