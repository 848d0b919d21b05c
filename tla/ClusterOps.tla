------------------------------ MODULE ClusterOps ------------------------------
(***************************************************************************)
(* The commands of ltops that make, change, use and destroy one cluster    *)
(* (cmd/ltops, kubernetes, and the environment of terraform).  What they   *)
(* know of the cluster is a file, clusterinfo.json, read when a command    *)
(* starts and written when it is done; what there is of the cluster is     *)
(* changed by the tools they run.  A tool may fail, before or after it did *)
(* its work, and a command may be killed between two steps.  A process is  *)
(* somebody's terminal: two of them may be at work on the same cluster.    *)
(*                                                                         *)
(* What is external: helm refuses to install a release under a name in     *)
(* use, and to upgrade or delete one that does not exist; an upgrade keeps *)
(* the database, and a pod reads its configuration when it starts.  What a *)
(* deployment to machines does, and a test with them, is in Deploy.        *)
(***************************************************************************)
EXTENDS Integers, FiniteSets

CONSTANTS
  Process,       \* the terminals
  UserCounts,    \* values for the flag --users
  CPUs, GiB,     \* capacity of the nodes of the kubernetes cluster
  MaxCommands,   \* bound: commands started
  NoInfo, Torn,  \* no clusterinfo.json, and one that was being written
  Nothing        \* no command, no release, no file

ASSUME ClusterOpsAssumption ==
  /\ UserCounts \subseteq Nat \ {0}
  /\ MaxCommands \in Nat
  /\ Nothing \notin UserCounts \union {0}

VARIABLES
  info,       \* clusterinfo.json
  chartFile,  \* the users chartconfig.yaml is for
  command,    \* what each process executes
  at,         \* the step it is at
  copy,       \* the cluster as its command loaded or made it
  release,    \* the chart the helm release was installed or upgraded with
  agents,     \* the chart the load test pods read when they started
  bulkfile,   \* the data in loadtestbulkload.json on the app pod
  imported,   \* the data that were imported into the release's database
  applied,    \* the keys the machines of terraform were made with, or 0
  started,    \* commands started
  ahead,      \* history: the processes that changed what there is, and not yet the file
  overlapped, \* history: two commands were run at once that should not be
  broken      \* history: a command was stopped half way, or forgot a cluster

outside == <<release, agents, bulkfile, imported, applied>>
history == <<started, overlapped>>
vars == <<info, chartFile, command, at, copy, outside, history, ahead, broken>>

-----------------------------------------------------------------------------
(* The standard profile: how many replicas of each part, the cores and the *)
(* memory each asks for.                                                   *)

Part(n, cores, gib) == [replicas |-> n, cpu |-> cores, memory |-> gib]

StandardConfig(users) ==
  CASE users <= 5000  -> [app   |-> Part(2, 2, 4),  mysql |-> Part(2, 2, 4),
                          proxy |-> Part(1, 2, 4),  tests |-> Part(1, 2, 4)]
    [] users \in 5001 .. 10000
                      -> [app   |-> Part(2, 4, 8),  mysql |-> Part(2, 4, 8),
                          proxy |-> Part(2, 2, 4),  tests |-> Part(2, 2, 4)]
    [] users \in 10001 .. 20000
                      -> [app   |-> Part(4, 4, 8),  mysql |-> Part(4, 4, 16),
                          proxy |-> Part(3, 2, 4),  tests |-> Part(3, 2, 4)]
    [] users \in 20001 .. 30000
                      -> [app   |-> Part(4, 4, 8),  mysql |-> Part(4, 4, 32),
                          proxy |-> Part(4, 2, 4),  tests |-> Part(4, 2, 4)]
    [] OTHER          -> [app   |-> Part(5, 4, 16), mysql |-> Part(6, 4, 64),
                          proxy |-> Part(6, 2, 8),  tests |-> Part(6, 4, 8)]

(* With two cores and 2 GiB for other pods.                                *)
TotalCPURequests(c) ==
  2 + c.app.replicas * c.app.cpu + c.mysql.replicas * c.mysql.cpu
    + c.proxy.replicas * c.proxy.cpu + c.tests.replicas * c.tests.cpu

TotalMemoryRequests(c) ==
  2 + c.app.replicas * c.app.memory + c.mysql.replicas * c.mysql.memory
    + c.proxy.replicas * c.proxy.memory + c.tests.replicas * c.tests.memory

Fits(users) ==
  /\ TotalCPURequests(StandardConfig(users)) <= CPUs
  /\ TotalMemoryRequests(StandardConfig(users)) <= GiB

-----------------------------------------------------------------------------
Command ==
  [op : {"create"}, type : {"kubernetes", "terraform"}]
    \union [op : {"deploy"}, users : {0} \union UserCounts, helmConfig : BOOLEAN]
    \union {c \in [op : {"loadtest"}, force : BOOLEAN, skip : BOOLEAN] : ~(c.force /\ c.skip)}
    \union [op : {"destroy"}]

(* A chart is known by the users it is for, a custom one as Nothing.       *)
Custom == [users |-> Nothing]
Standard(n) == [users |-> n]
Chart == {Custom} \union {Standard(n) : n \in UserCounts}

Cluster ==
  [type : {"kubernetes", "terraform"}, release : BOOLEAN,
   profile : {"", "standard", "custom helm config"}, users : {0} \union UserCounts,
   complete : BOOLEAN, keys : 0 .. MaxCommands]

ASSUME DistinctAssumption ==
  /\ NoInfo # Torn /\ NoInfo \notin Cluster /\ Torn \notin Cluster
  /\ Nothing \notin Chart

NewCluster(type, keys) ==
  [type |-> type, release |-> FALSE, profile |-> "", users |-> 0,
   complete |-> FALSE, keys |-> keys]

Step == {"idle", "prepare", "apply", "load", "chart", "helm", "restart app",
         "restart tests", "save", "pods", "generate", "import", "run", "machines",
         "destroy", "remove"}

TypeOK ==
  /\ info \in Cluster \union {NoInfo, Torn}
  /\ chartFile \in UserCounts \union {Nothing}
  /\ command \in [Process -> Command \union {Nothing}]
  /\ at \in [Process -> Step]
  /\ copy \in [Process -> Cluster \union {NoInfo}]
  /\ release \in Chart \union {Nothing}
  /\ agents \in Chart \union {Nothing}
  /\ bulkfile \in Chart \union {Nothing}
  /\ imported \in SUBSET Chart
  /\ applied \in 0 .. MaxCommands
  /\ started \in 0 .. MaxCommands
  /\ ahead \in SUBSET Process
  /\ overlapped \in BOOLEAN
  /\ broken \in BOOLEAN

Init ==
  /\ info = NoInfo
  /\ chartFile = Nothing
  /\ command = [p \in Process |-> Nothing]
  /\ at = [p \in Process |-> "idle"]
  /\ copy = [p \in Process |-> NoInfo]
  /\ release = Nothing
  /\ agents = Nothing
  /\ bulkfile = Nothing
  /\ imported = {}
  /\ applied = 0
  /\ started = 0
  /\ ahead = {}
  /\ overlapped = FALSE
  /\ broken = FALSE

Busy == {p \in Process : at[p] # "idle"}
Go(p, step) == at' = [at EXCEPT ![p] = step]

(* The end of a command, whatever it returns.                              *)
Return(p) ==
  /\ Go(p, "idle")
  /\ command' = [command EXCEPT ![p] = Nothing]
  /\ copy' = [copy EXCEPT ![p] = NoInfo]

-----------------------------------------------------------------------------
(* Only load tests are meant to be run while another command is.           *)
Start(p) ==
  /\ at[p] = "idle"
  /\ started < MaxCommands
  /\ \E c \in Command :
       /\ command' = [command EXCEPT ![p] = c]
       /\ Go(p, IF c.op = "create" THEN "prepare" ELSE "load")
       /\ overlapped' = (overlapped \/ \E q \in Busy : {c.op, command[q].op} # {"loadtest"})
  /\ started' = started + 1
  /\ UNCHANGED <<info, chartFile, copy, outside, ahead, broken>>

(* The next tool fails without having done anything, or refuses what it is *)
(* told to do, or the flags do not fit the type of the cluster, or the     *)
(* command is killed.                                                      *)
Stop(p) ==
  /\ at[p] # "idle"
  /\ Return(p)
  /\ broken' = (broken \/ p \in ahead)
  /\ ahead' = ahead \ {p}
  /\ UNCHANGED <<info, chartFile, outside, history>>

(* LoadCluster: the file has to be there, and to be whole.  The checks of  *)
(* the flags that need the type come after it.                             *)
LoadCluster(p) ==
  /\ at[p] = "load"
  /\ info \notin {NoInfo, Torn}
  /\ copy' = [copy EXCEPT ![p] = info]
  /\ UNCHANGED <<info, chartFile, command, outside, history, ahead, broken>>

LoadToDeploy(p) ==
  /\ command[p] # Nothing /\ command[p].op = "deploy"
  /\ LoadCluster(p)
  /\ IF info.type = "kubernetes"
     THEN (command[p].users # 0 \/ command[p].helmConfig) /\ Go(p, "chart")
     ELSE command[p].users = 0 /\ Go(p, "machines")

LoadToTest(p) ==
  /\ command[p] # Nothing /\ command[p].op = "loadtest"
  /\ LoadCluster(p)
  /\ Go(p, IF info.type = "kubernetes" THEN "pods" ELSE "machines")

LoadToDestroy(p) ==
  /\ command[p] # Nothing /\ command[p].op = "destroy"
  /\ LoadCluster(p)
  /\ Go(p, "destroy")

(* Deploy and Loadtest of terraform do not change the file.                *)
UseMachines(p) ==
  /\ at[p] = "machines"
  /\ Return(p)
  /\ UNCHANGED <<info, chartFile, outside, history, ahead, broken>>

(* saveCluster.  A load test goes on after it.                             *)
Save(p) ==
  /\ at[p] = "save"
  /\ info' = copy[p]
  /\ IF command[p].op = "loadtest"
     THEN Go(p, "run") /\ UNCHANGED <<command, copy>>
     ELSE Return(p)
  /\ ahead' = ahead \ {p}
  /\ UNCHANGED <<chartFile, outside, history, broken>>

SaveTorn(p) ==
  /\ at[p] = "save"
  /\ info' = Torn
  /\ Return(p)
  /\ broken' = TRUE
  /\ ahead' = ahead \ {p}
  /\ UNCHANGED <<chartFile, outside, history>>

-----------------------------------------------------------------------------
(* create.  Nothing keeps it from being used for a cluster that there is.  *)
(* For kubernetes it only looks whether the tools work; for terraform it   *)
(* makes new keys and a new password, and the directory.                   *)

PrepareKubernetes(p) ==
  /\ at[p] = "prepare"
  /\ command[p].type = "kubernetes"
  /\ copy' = [copy EXCEPT ![p] = NewCluster("kubernetes", 0)]
  /\ Go(p, "save")
  /\ broken' = (broken \/ release # Nothing \/ applied # 0)
  /\ UNCHANGED <<info, chartFile, command, outside, history, ahead>>

PrepareTerraform(p) ==
  /\ at[p] = "prepare"
  /\ command[p].type = "terraform"
  /\ copy' = [copy EXCEPT ![p] = NewCluster("terraform", started)]
  /\ Go(p, "apply")
  /\ broken' = (broken \/ release # Nothing)
  /\ UNCHANGED <<info, chartFile, command, outside, history, ahead>>

Apply(p) ==
  /\ at[p] = "apply"
  /\ applied' = copy[p].keys
  /\ Go(p, "save")
  /\ ahead' = ahead \union {p}
  /\ UNCHANGED <<info, chartFile, command, copy, release, agents, bulkfile, imported,
                 history, broken>>

(* terraform fails half way; or is done, but wrote something to stderr.    *)
ApplyFails(p) ==
  /\ at[p] = "apply"
  /\ applied' = copy[p].keys
  /\ Return(p)
  /\ broken' = TRUE
  /\ UNCHANGED <<info, chartFile, release, agents, bulkfile, imported, history, ahead>>

-----------------------------------------------------------------------------
(* deploy, for kubernetes.                                                 *)

(* Mutant: written for a custom chart too.                                 *)
WriteChartAlways(p) ==
  /\ at[p] = "chart"
  /\ Fits(command[p].users)
  /\ chartFile' = command[p].users
  /\ Go(p, "helm")
  /\ UNCHANGED <<info, command, copy, outside, history, ahead, broken>>

WriteChart(p) ==
  /\ at[p] = "chart"
  /\ IF command[p].helmConfig
     THEN UNCHANGED chartFile
     ELSE /\ Fits(command[p].users)
          /\ chartFile' = command[p].users
  /\ Go(p, "helm")
  /\ UNCHANGED <<info, command, copy, outside, history, ahead, broken>>

(* Mutant: a release is deleted and installed again.                       *)
HelmReinstalls(p) ==
  /\ at[p] = "helm"
  /\ command[p].helmConfig \/ chartFile # Nothing
  /\ release # Nothing <=> copy[p].release
  /\ release' = IF command[p].helmConfig THEN Custom ELSE Standard(chartFile)
  /\ agents' = release'
  /\ imported' = {}
  /\ UNCHANGED <<info, chartFile, bulkfile, applied, history>>

(* Whether to install or to upgrade was decided by the file.               *)
Helm(p) ==
  /\ at[p] = "helm"
  /\ command[p].helmConfig \/ chartFile # Nothing
  /\ release # Nothing <=> copy[p].release
  /\ release' = IF command[p].helmConfig THEN Custom ELSE Standard(chartFile)
  /\ IF copy[p].release
     THEN UNCHANGED <<agents, imported>>
     ELSE agents' = release' /\ imported' = {}
  /\ UNCHANGED <<info, chartFile, bulkfile, applied, history>>

(* Mutant: the number of users is not recorded.                            *)
RecordedNotUsers(p) ==
  LET c == command[p]
      k == copy[p]
  IN  [type |-> k.type, release |-> TRUE,
       profile |-> IF c.helmConfig THEN "custom helm config" ELSE "standard",
       users |-> k.users,
       complete |-> k.complete /\ k.profile = "standard" /\ k.users = c.users,
       keys |-> k.keys]

(* Mutant: only the profile is compared.                                   *)
RecordedProfileOnly(p) ==
  LET c == command[p]
      k == copy[p]
  IN  [type |-> k.type, release |-> TRUE,
       profile |-> IF c.helmConfig THEN "custom helm config" ELSE "standard",
       users |-> c.users,
       complete |-> k.complete /\ k.profile = "standard",
       keys |-> k.keys]

(* What deploy has the file say.  The profile asked for is always the      *)
(* standard one, that of a custom chart is only renamed.                   *)
Recorded(p) ==
  LET c == command[p]
      k == copy[p]
  IN  [type |-> k.type, release |-> TRUE,
       profile |-> IF c.helmConfig THEN "custom helm config" ELSE "standard",
       users |-> c.users,
       complete |-> k.complete /\ k.profile = "standard" /\ k.users = c.users,
       keys |-> k.keys]

HelmDone(p) ==
  /\ Helm(p)
  /\ IF copy[p].release
     THEN Go(p, "restart app") /\ UNCHANGED copy
     ELSE Go(p, "save") /\ copy' = [copy EXCEPT ![p] = Recorded(p)]
  /\ ahead' = ahead \union {p}
  /\ UNCHANGED <<command, broken>>

HelmFails(p) ==
  /\ Helm(p)
  /\ Return(p)
  /\ broken' = TRUE
  /\ UNCHANGED ahead

RestartApp(p) ==
  /\ at[p] = "restart app"
  /\ bulkfile' = Nothing
  /\ Go(p, "restart tests")
  /\ UNCHANGED <<info, chartFile, command, copy, release, agents, imported, applied,
                 history, ahead, broken>>

RestartTests(p) ==
  /\ at[p] = "restart tests"
  /\ agents' = release
  /\ copy' = [copy EXCEPT ![p] = Recorded(p)]
  /\ Go(p, "save")
  /\ UNCHANGED <<info, chartFile, command, release, bulkfile, imported, applied,
                 history, ahead, broken>>

-----------------------------------------------------------------------------
(* loadtest, for kubernetes.                                               *)

(* A release has pods, and without pods Loadtest wraps a nil error: it     *)
(* returns success, having tested nothing.                                 *)
NoPods(p) ==
  /\ at[p] = "pods"
  /\ ~copy[p].release \/ release = Nothing
  /\ Return(p)
  /\ UNCHANGED <<info, chartFile, outside, history, ahead, broken>>

ChooseBulkLoad(p) ==
  /\ at[p] = "pods"
  /\ copy[p].release
  /\ release # Nothing
  /\ Go(p, IF command[p].skip \/ (copy[p].complete /\ ~command[p].force)
           THEN "run" ELSE "generate")
  /\ UNCHANGED <<info, chartFile, command, copy, outside, history, ahead, broken>>

(* genbulkload on a load test pod, from where the file is copied to an app *)
(* pod.  Not having the emoji, or the administrator, does not matter.      *)
Generate(p) ==
  /\ at[p] = "generate"
  /\ agents # Nothing
  /\ bulkfile' = agents
  /\ Go(p, "import")
  /\ UNCHANGED <<info, chartFile, command, copy, release, agents, imported, applied,
                 history, ahead, broken>>

Import(p) ==
  /\ at[p] = "import"
  /\ bulkfile # Nothing
  /\ imported' = imported \union {bulkfile}
  /\ copy' = [copy EXCEPT ![p].complete = TRUE]
  /\ Go(p, "save")
  /\ UNCHANGED <<info, chartFile, command, release, agents, bulkfile, applied,
                 history, ahead, broken>>

(* The tests on all the pods; their errors are only logged.                *)
RunTests(p) ==
  /\ at[p] = "run"
  /\ Return(p)
  /\ UNCHANGED <<info, chartFile, outside, history, ahead, broken>>

-----------------------------------------------------------------------------
(* destroy.  An empty release name, or one that is gone, is an error of    *)
(* helm; nothing to destroy is none of terraform.                          *)

Purge ==
  /\ release' = Nothing
  /\ agents' = Nothing
  /\ bulkfile' = Nothing
  /\ imported' = {}
  /\ UNCHANGED applied

DestroyMachines ==
  /\ applied' = 0
  /\ UNCHANGED <<release, agents, bulkfile, imported>>

Destroy(p) ==
  /\ at[p] = "destroy"
  /\ IF copy[p].type = "kubernetes"
     THEN copy[p].release /\ release # Nothing /\ Purge
     ELSE DestroyMachines
  /\ UNCHANGED <<info, chartFile, history>>

DestroyDone(p) ==
  /\ Destroy(p)
  /\ Go(p, "remove")
  /\ ahead' = ahead \union {p}
  /\ UNCHANGED <<command, copy, broken>>

DestroyFails(p) ==
  /\ Destroy(p)
  /\ Return(p)
  /\ broken' = TRUE
  /\ UNCHANGED ahead

(* RemoveAll may be stopped when it has removed the file, and not others.  *)
Remove(p) ==
  /\ at[p] = "remove"
  /\ info' = NoInfo
  /\ chartFile' \in {chartFile, Nothing}
  /\ Return(p)
  /\ ahead' = ahead \ {p}
  /\ UNCHANGED <<outside, history, broken>>

-----------------------------------------------------------------------------
Operation(p) ==
  \/ Start(p) \/ Stop(p) \/ LoadToDeploy(p) \/ LoadToTest(p) \/ LoadToDestroy(p)
  \/ UseMachines(p) \/ Save(p) \/ SaveTorn(p)
  \/ PrepareKubernetes(p) \/ PrepareTerraform(p) \/ Apply(p) \/ ApplyFails(p)
  \/ WriteChart(p) \/ HelmDone(p) \/ HelmFails(p) \/ RestartApp(p) \/ RestartTests(p)
  \/ NoPods(p) \/ ChooseBulkLoad(p) \/ Generate(p) \/ Import(p) \/ RunTests(p)
  \/ DestroyDone(p) \/ DestroyFails(p) \/ Remove(p)

Next == \E p \in Process : Operation(p)

Spec == Init /\ [][Next]_vars

-----------------------------------------------------------------------------
HasRecord == info \notin {NoInfo, Torn}

(* While no command is at work, and if none was stopped between a change   *)
(* of what there is and of the file, nor was used for a cluster it did not *)
(* know of: the file is whole, names a release if and only if there is     *)
(* one, with the users it was deployed for, has the keys of the machines   *)
(* there are; and without a file there is nothing, that nobody could       *)
(* destroy any more.  (cluster_create.go and cluster_deploy.go save last,  *)
(* Destroy removes last.)                                                  *)
Reconciled ==
  Busy = {} /\ ~broken /\ ~overlapped =>
    /\ info # Torn
    /\ info = NoInfo => release = Nothing /\ applied = 0
    /\ HasRecord =>
         /\ info.release <=> release # Nothing
         /\ info.profile = "standard" => release = Standard(info.users)
         /\ applied = info.keys

(* The file says that bulk loading is complete only if the data of the     *)
(* chart that the agents read were imported into the database of this very *)
(* release, so that skipping the import is right.  There is one way around *)
(* it: a custom chart deployed with the number of users of the standard    *)
(* one before it (cluster_deploy.go:76 compares the profile asked for,     *)
(* which is never the custom one).                                         *)
BulkLoadRecorded ==
  HasRecord /\ ~broken /\ ~overlapped /\ ahead = {} =>
    (info.complete => agents \in imported \/ (agents = Custom /\ info.users # 0))

(* Whatever failed or was killed, a file that names a release there is     *)
(* never claims a completed bulk load of a database that got none: not the *)
(* one of a release that was destroyed, or forgotten, before.              *)
CompleteMeansImported ==
  ~overlapped /\ HasRecord /\ release # Nothing =>
    (info.release /\ info.complete => imported # {})
=============================================================================
