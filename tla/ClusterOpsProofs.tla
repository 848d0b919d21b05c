--------------------------- MODULE ClusterOpsProofs ---------------------------
(***************************************************************************)
(* Proofs about ClusterOps, for any number of terminals and of commands:   *)
(* the types of its state, which rest on what a command has read and       *)
(* checked by the step it is at; that no file claims a bulk load that the  *)
(* database of its release does not have; and that the file describes what *)
(* there is when nobody is at work.                                        *)
(***************************************************************************)
EXTENDS ClusterOps, TLAPS

USE ClusterOpsAssumption

(* The flags a command has.                                                *)
LEMMA CommandFlags ==
  ASSUME NEW c \in Command
  PROVE  /\ c.op \in {"create", "deploy", "loadtest", "destroy"}
         /\ c.op = "create" => c.type \in {"kubernetes", "terraform"}
         /\ c.op = "deploy" => c.users \in {0} \union UserCounts /\ c.helmConfig \in BOOLEAN
  BY DEF Command

(* The step a command is at goes with what it is and with what it knows.   *)
Fitting(step, c, known) ==
  /\ step \in Step
  /\ c \in Command \union {Nothing}
  /\ known \in Cluster \union {NoInfo}
  /\ step = "idle" => known = NoInfo
  /\ step # "idle" => c \in Command
  /\ step \notin {"idle", "prepare", "load"} => known \in Cluster
  /\ step \in {"prepare", "apply"} => c.op = "create"
  /\ step \in {"chart", "helm", "restart app", "restart tests"} => c.op = "deploy"
  /\ step = "chart" => c.users # 0 \/ c.helmConfig
  /\ step \in {"pods", "generate", "import", "run"} => c.op = "loadtest"
  /\ step \in {"destroy", "remove"} => c.op = "destroy"

ProcessesOK ==
  /\ command \in [Process -> Command \union {Nothing}]
  /\ at \in [Process -> Step]
  /\ copy \in [Process -> Cluster \union {NoInfo}]
  /\ \A p \in Process : Fitting(at[p], command[p], copy[p])

RestOK ==
  /\ info \in Cluster \union {NoInfo, Torn}
  /\ chartFile \in UserCounts \union {Nothing}
  /\ release \in Chart \union {Nothing}
  /\ agents \in Chart \union {Nothing}
  /\ bulkfile \in Chart \union {Nothing}
  /\ imported \in SUBSET Chart
  /\ applied \in 0 .. MaxCommands
  /\ started \in 0 .. MaxCommands
  /\ ahead \in SUBSET Process
  /\ overlapped \in BOOLEAN
  /\ broken \in BOOLEAN

Typed == ProcessesOK /\ RestOK

(* A step of one process to where it fits.                                 *)
LEMMA FittingStep ==
  ASSUME ProcessesOK, NEW p \in Process, NEW step, NEW c, NEW known,
         Fitting(step, c, known), Go(p, step),
         command' = [command EXCEPT ![p] = c],
         copy' = [copy EXCEPT ![p] = known]
  PROVE  ProcessesOK'
<1>1. /\ at' = [at EXCEPT ![p] = step]
      /\ step \in Step /\ c \in Command \union {Nothing} /\ known \in Cluster \union {NoInfo}
  BY DEF Go, Fitting
<1>2. /\ command' \in [Process -> Command \union {Nothing}]
      /\ at' \in [Process -> Step]
      /\ copy' \in [Process -> Cluster \union {NoInfo}]
  BY <1>1 DEF ProcessesOK
<1>3. ASSUME NEW q \in Process
      PROVE  Fitting(at'[q], command'[q], copy'[q])
  <2>1. CASE q = p
    BY <1>1, <2>1 DEF ProcessesOK
  <2>2. CASE q # p
    <3>1. at'[q] = at[q] /\ command'[q] = command[q] /\ copy'[q] = copy[q]
      BY <1>1, <2>2 DEF ProcessesOK
    <3> QED
      BY <3>1 DEF ProcessesOK
  <2> QED
    BY <2>1, <2>2
<1>4. (\A q \in Process : Fitting(at[q], command[q], copy[q]))'
  <2> SUFFICES ASSUME NEW q \in Process
               PROVE  Fitting(at[q], command[q], copy[q])'
    OBVIOUS
  <2> QED
    BY <1>3 DEF Fitting
<1> QED
  BY <1>2, <1>4 DEF ProcessesOK

(* The end of a command fits.                                              *)
LEMMA ReturnFits ==
  ASSUME ProcessesOK, NEW p \in Process, Return(p)
  PROVE  ProcessesOK'
<1>1. Fitting("idle", Nothing, NoInfo)
  BY DEF Fitting, Step
<1> QED
  BY <1>1, FittingStep DEF Return

(* A step that changes what the process knows, or not even that.           *)
LEMMA MoveFits ==
  ASSUME ProcessesOK, NEW p \in Process, NEW step, NEW known,
         Fitting(step, command[p], known), Go(p, step), UNCHANGED command,
         copy' = [copy EXCEPT ![p] = known]
  PROVE  ProcessesOK'
<1>1. command' = [command EXCEPT ![p] = command[p]]
  BY DEF ProcessesOK
<1> QED
  BY <1>1, FittingStep

LEMMA GoFits ==
  ASSUME ProcessesOK, NEW p \in Process, NEW step,
         Fitting(step, command[p], copy[p]), Go(p, step), UNCHANGED <<command, copy>>
  PROVE  ProcessesOK'
<1>1. copy' = [copy EXCEPT ![p] = copy[p]]
  BY DEF ProcessesOK
<1> QED
  BY <1>1, MoveFits

(* What create makes, and what deploy records, are clusters.               *)
LEMMA NewClusterTyped ==
  ASSUME NEW t \in {"kubernetes", "terraform"}, NEW k \in 0 .. MaxCommands
  PROVE  NewCluster(t, k) \in Cluster
  BY DEF NewCluster, Cluster

LEMMA RecordedTyped ==
  ASSUME Typed, NEW p \in Process, at[p] \in {"helm", "restart tests"}
  PROVE  Recorded(p) \in Cluster /\ Recorded(p).release
         /\ (Recorded(p).complete => copy[p].complete)
<1>1. copy[p] \in Cluster /\ command[p] \in Command /\ command[p].op = "deploy"
  BY DEF Typed, ProcessesOK, Fitting
<1>2. command[p].users \in {0} \union UserCounts
  BY <1>1, CommandFlags
<1> DEFINE k == copy[p]
           u == command[p].users
           h == command[p].helmConfig
           f == IF h THEN "custom helm config" ELSE "standard"
           b == k.complete /\ k.profile = "standard" /\ k.users = u
           r == [type |-> k.type, release |-> TRUE, profile |-> f, users |-> u,
                 complete |-> b, keys |-> k.keys]
<1>3. Recorded(p) = r
  BY DEF Recorded
<1>4. k \in Cluster /\ u \in {0} \union UserCounts
  BY <1>1, <1>2
<1> HIDE DEF k, u, h
<1>5. /\ k.type \in {"kubernetes", "terraform"} /\ k.complete \in BOOLEAN
      /\ k.keys \in 0 .. MaxCommands
  BY <1>4 DEF Cluster
<1>6. /\ f \in {"", "standard", "custom helm config"}
      /\ b \in BOOLEAN /\ (b => k.complete)
  BY <1>5
<1> HIDE DEF f, b
<1>7. r \in Cluster
  BY <1>4, <1>5, <1>6 DEF Cluster
<1>8. r.release = TRUE /\ r.complete = b
  OBVIOUS
<1> QED
  BY <1>3, <1>6, <1>7, <1>8 DEF k

(* What a process knows fits the step it goes to, for every operation.     *)
LEMMA ProcessesStep ==
  ASSUME Typed, NEW p \in Process, Operation(p)
  PROVE  ProcessesOK'
<1> USE DEF Typed
<1>a. Fitting(at[p], command[p], copy[p])
  BY DEF ProcessesOK
<1>1. CASE Start(p)
  <2>1. PICK c \in Command :
          /\ command' = [command EXCEPT ![p] = c]
          /\ Go(p, IF c.op = "create" THEN "prepare" ELSE "load")
    BY <1>1 DEF Start
  <2>2. copy[p] = NoInfo /\ copy' = [copy EXCEPT ![p] = copy[p]]
    BY <1>1, <1>a DEF Start, Fitting, ProcessesOK
  <2>3. Fitting(IF c.op = "create" THEN "prepare" ELSE "load", c, copy[p])
    BY <2>2 DEF Fitting, Step
  <2> QED
    BY <2>1, <2>2, <2>3, FittingStep
<1>2. CASE \/ Stop(p) \/ UseMachines(p) \/ SaveTorn(p) \/ ApplyFails(p) \/ HelmFails(p)
           \/ NoPods(p) \/ RunTests(p) \/ DestroyFails(p) \/ Remove(p)
  BY <1>2, ReturnFits DEF Stop, UseMachines, SaveTorn, ApplyFails, HelmFails, NoPods,
                          RunTests, DestroyFails, Remove
<1>3. CASE LoadToDeploy(p) \/ LoadToTest(p) \/ LoadToDestroy(p)
  <2>1. /\ copy' = [copy EXCEPT ![p] = info] /\ UNCHANGED command
        /\ info \in Cluster /\ command[p] \in Command
    BY <1>3, <1>a DEF LoadToDeploy, LoadToTest, LoadToDestroy, LoadCluster, RestOK, Fitting
  <2>2. CASE LoadToDeploy(p)
    <3>1. PICK step \in {"chart", "machines"} :
            /\ Go(p, step)
            /\ step = "chart" => command[p].users # 0 \/ command[p].helmConfig
            /\ command[p].op = "deploy"
      BY <2>2 DEF LoadToDeploy
    <3>2. Fitting(step, command[p], info)
      BY <2>1, <3>1 DEF Fitting, Step
    <3> QED
      BY <2>1, <3>1, <3>2, MoveFits
  <2>3. CASE LoadToTest(p)
    <3>1. PICK step \in {"pods", "machines"} : Go(p, step) /\ command[p].op = "loadtest"
      BY <2>3 DEF LoadToTest
    <3>2. Fitting(step, command[p], info)
      BY <2>1, <3>1 DEF Fitting, Step
    <3> QED
      BY <2>1, <3>1, <3>2, MoveFits
  <2>4. CASE LoadToDestroy(p)
    <3>1. Go(p, "destroy") /\ command[p].op = "destroy"
      BY <2>4 DEF LoadToDestroy
    <3>2. Fitting("destroy", command[p], info)
      BY <2>1, <3>1 DEF Fitting, Step
    <3> QED
      BY <2>1, <3>1, <3>2, MoveFits
  <2> QED
    BY <1>3, <2>2, <2>3, <2>4
<1>4. CASE Save(p)
  <2>1. CASE command[p].op = "loadtest"
    <3>1. Fitting("run", command[p], copy[p])
      BY <1>4, <1>a, <2>1 DEF Save, Fitting, Step
    <3> QED
      BY <1>4, <2>1, <3>1, GoFits DEF Save
  <2>2. CASE command[p].op # "loadtest"
    BY <1>4, <2>2, ReturnFits DEF Save
  <2> QED
    BY <2>1, <2>2
<1>5. CASE PrepareKubernetes(p) \/ PrepareTerraform(p)
  <2>1. command[p] \in Command /\ command[p].op = "create" /\ UNCHANGED command
    BY <1>5, <1>a DEF PrepareKubernetes, PrepareTerraform, Fitting
  <2>2. PICK step \in {"save", "apply"}, known \in Cluster :
          Go(p, step) /\ copy' = [copy EXCEPT ![p] = known]
    <3>1. NewCluster("kubernetes", 0) \in Cluster /\ NewCluster("terraform", started) \in Cluster
      BY NewClusterTyped DEF RestOK
    <3> QED
      BY <1>5, <3>1 DEF PrepareKubernetes, PrepareTerraform
  <2>3. Fitting(step, command[p], known)
    BY <2>1 DEF Fitting, Step
  <2> QED
    BY <2>1, <2>2, <2>3, MoveFits
<1>6. CASE \/ Apply(p) \/ WriteChart(p) \/ RestartApp(p) \/ ChooseBulkLoad(p) \/ Generate(p)
           \/ DestroyDone(p)
  <2>1. /\ at[p] \notin {"idle", "prepare", "load"} /\ UNCHANGED <<command, copy>>
        /\ \/ at[p] = "apply" /\ Go(p, "save")
           \/ at[p] = "chart" /\ Go(p, "helm")
           \/ at[p] = "restart app" /\ Go(p, "restart tests")
           \/ at[p] = "pods" /\ (Go(p, "run") \/ Go(p, "generate"))
           \/ at[p] = "generate" /\ Go(p, "import")
           \/ at[p] = "destroy" /\ Go(p, "remove")
    BY <1>6 DEF Apply, WriteChart, RestartApp, ChooseBulkLoad, Generate, DestroyDone, Destroy
  <2>2. PICK step \in {"save", "helm", "restart tests", "run", "generate", "import", "remove"} :
          /\ Go(p, step)
          /\ step = "helm" => at[p] = "chart"
          /\ step = "restart tests" => at[p] = "restart app"
          /\ step \in {"run", "generate", "import"} => at[p] \in {"pods", "generate"}
          /\ step = "remove" => at[p] = "destroy"
    BY <2>1
  <2>3. Fitting(step, command[p], copy[p])
    BY <1>a, <2>1, <2>2 DEF Fitting, Step
  <2> QED
    BY <2>1, <2>2, <2>3, GoFits
<1>7. CASE HelmDone(p)
  <2>1. at[p] = "helm" /\ UNCHANGED command
    BY <1>7 DEF HelmDone, Helm
  <2>2. CASE copy[p].release
    <3>1. Fitting("restart app", command[p], copy[p])
      BY <1>a, <2>1 DEF Fitting, Step
    <3> QED
      BY <1>7, <2>1, <2>2, <3>1, GoFits DEF HelmDone
  <2>3. CASE ~copy[p].release
    <3>1. Fitting("save", command[p], Recorded(p))
      BY <1>a, <2>1, RecordedTyped DEF Fitting, Step
    <3> QED
      BY <1>7, <2>1, <2>3, <3>1, MoveFits DEF HelmDone
  <2> QED
    BY <2>2, <2>3
<1>8. CASE RestartTests(p)
  <2>1. at[p] = "restart tests" /\ UNCHANGED command
    BY <1>8 DEF RestartTests
  <2>2. Fitting("save", command[p], Recorded(p))
    BY <1>a, <2>1, RecordedTyped DEF Fitting, Step
  <2> QED
    BY <1>8, <2>1, <2>2, MoveFits DEF RestartTests
<1>9. CASE Import(p)
  <2> DEFINE known == [copy[p] EXCEPT !.complete = TRUE]
  <2>1. at[p] = "import" /\ UNCHANGED command /\ copy' = [copy EXCEPT ![p] = known]
    BY <1>9 DEF Import
  <2>2. known \in Cluster
    <3>1. copy[p] \in Cluster
      BY <1>a, <2>1 DEF Fitting
    <3> QED
      BY <3>1 DEF Cluster
  <2> HIDE DEF known
  <2>3. Fitting("save", command[p], known)
    BY <1>a, <2>1, <2>2 DEF Fitting, Step
  <2> QED
    BY <1>9, <2>1, <2>3, MoveFits DEF Import
<1> QED
  BY <1>1, <1>2, <1>3, <1>4, <1>5, <1>6, <1>7, <1>8, <1>9 DEF Operation

(* What there is, and the file, keep their types.                          *)
LEMMA RestStep ==
  ASSUME Typed, NEW p \in Process, Operation(p)
  PROVE  RestOK'
<1> USE DEF Typed, RestOK
<1>a. Fitting(at[p], command[p], copy[p])
  BY DEF ProcessesOK
<1>1. CASE Start(p)
  <2>1. started' \in 0 .. MaxCommands
    BY <1>1 DEF Start
  <2>2. overlapped' \in BOOLEAN
    BY <1>1 DEF Start
  <2>3. UNCHANGED <<info, chartFile, outside, ahead, broken>>
    BY <1>1 DEF Start
  <2> QED
    BY <2>1, <2>2, <2>3 DEF outside
<1>2. CASE Stop(p)
  BY <1>2 DEF Stop, outside, history
<1>3. CASE LoadToDeploy(p) \/ LoadToTest(p) \/ LoadToDestroy(p) \/ UseMachines(p)
           \/ NoPods(p) \/ ChooseBulkLoad(p) \/ RunTests(p)
  BY <1>3 DEF LoadToDeploy, LoadToTest, LoadToDestroy, LoadCluster, UseMachines, NoPods,
              ChooseBulkLoad, RunTests, outside, history
<1>4. CASE Save(p)
  <2>1. copy[p] \in Cluster
    BY <1>4, <1>a DEF Save, Fitting
  <2> QED
    BY <1>4, <2>1 DEF Save, outside, history
<1>5. CASE SaveTorn(p)
  BY <1>5 DEF SaveTorn, outside, history
<1>6. CASE PrepareKubernetes(p) \/ PrepareTerraform(p)
  BY <1>6 DEF PrepareKubernetes, PrepareTerraform, outside, history
<1>7. CASE Apply(p) \/ ApplyFails(p)
  <2>1. copy[p].keys \in 0 .. MaxCommands
    BY <1>7, <1>a DEF Apply, ApplyFails, Fitting, Cluster
  <2> QED
    BY <1>7, <2>1 DEF Apply, ApplyFails, history
<1>8. CASE WriteChart(p)
  <2>1. ~command[p].helmConfig => command[p].users \in UserCounts
    <3>1. command[p] \in Command /\ command[p].op = "deploy"
          /\ (command[p].users # 0 \/ command[p].helmConfig)
      BY <1>8, <1>a DEF WriteChart, Fitting
    <3> QED
      BY <3>1, CommandFlags
  <2> QED
    BY <1>8, <2>1 DEF WriteChart, outside, history
<1>9. CASE HelmDone(p) \/ HelmFails(p)
  <2>1. Helm(p) /\ ahead' \in SUBSET Process /\ broken' \in BOOLEAN
    BY <1>9 DEF HelmDone, HelmFails
  <2>2. /\ release' \in Chart
        /\ UNCHANGED <<info, chartFile, bulkfile, applied, history>>
    BY <2>1 DEF Helm, Chart
  <2>3. agents' \in Chart \union {Nothing} /\ imported' \in SUBSET Chart
    BY <2>1, <2>2 DEF Helm
  <2> QED
    BY <2>1, <2>2, <2>3 DEF history
<1>10. CASE RestartApp(p) \/ RestartTests(p) \/ Generate(p)
  BY <1>10 DEF RestartApp, RestartTests, Generate, history
<1>11. CASE Import(p)
  <2>1. imported' \in SUBSET Chart
    BY <1>11 DEF Import
  <2> QED
    BY <1>11, <2>1 DEF Import, history
<1>12. CASE DestroyDone(p) \/ DestroyFails(p)
  <2>1. /\ Destroy(p) /\ ahead' \in SUBSET Process /\ broken' \in BOOLEAN
    BY <1>12 DEF DestroyDone, DestroyFails
  <2>2. Purge \/ DestroyMachines
    BY <2>1 DEF Destroy
  <2>3. UNCHANGED <<info, chartFile, history>>
    BY <2>1 DEF Destroy
  <2> QED
    BY <2>1, <2>2, <2>3 DEF Purge, DestroyMachines, history
<1>13. CASE Remove(p)
  BY <1>13 DEF Remove, outside, history
<1> QED
  BY <1>1, <1>2, <1>3, <1>4, <1>5, <1>6, <1>7, <1>8, <1>9, <1>10, <1>11, <1>12, <1>13
  DEF Operation

(* The state keeps its types, and what is known fits, for any number of    *)
(* terminals and commands.                                                 *)
LEMMA StaysTyped == Spec => []Typed
<1>1. Init => Typed
  <2> SUFFICES ASSUME Init
               PROVE  Typed
    OBVIOUS
  <2>1. Fitting("idle", Nothing, NoInfo)
    BY DEF Fitting, Step
  <2>2. ProcessesOK
    BY <2>1 DEF Init, ProcessesOK, Step
  <2>3. RestOK
    <3>1. /\ info = NoInfo /\ chartFile = Nothing /\ release = Nothing /\ agents = Nothing
          /\ bulkfile = Nothing /\ imported = {} /\ ahead = {}
      BY DEF Init
    <3>2. applied = 0 /\ started = 0 /\ 0 \in 0 .. MaxCommands
      BY DEF Init
    <3>3. overlapped \in BOOLEAN /\ broken \in BOOLEAN
      BY DEF Init
    <3> QED
      BY <3>1, <3>2, <3>3 DEF RestOK
  <2> QED
    BY <2>2, <2>3 DEF Typed
<1>2. ASSUME Typed, [Next]_vars
      PROVE  Typed'
  <2>1. CASE Next
    BY <1>2, <2>1, ProcessesStep, RestStep DEF Next, Typed
  <2>2. CASE UNCHANGED vars
    <3>1. UNCHANGED <<command, at, copy>>
      BY <2>2 DEF vars
    <3>2. ProcessesOK'
      <4>1. (\A p \in Process : Fitting(at[p], command[p], copy[p]))'
        BY <1>2, <3>1 DEF Typed, ProcessesOK, Fitting
      <4> QED
        BY <1>2, <3>1, <4>1 DEF Typed, ProcessesOK
    <3> QED
      BY <1>2, <2>2, <3>2 DEF vars, outside, history, Typed, RestOK
  <2> QED
    BY <1>2, <2>1, <2>2
<1> QED
  BY <1>1, <1>2, PTL DEF Spec

(* The file, what there is and what the commands know have their types.    *)
THEOREM TypeCorrect == Spec => []TypeOK
<1>1. Typed => TypeOK
  BY DEF Typed, ProcessesOK, RestOK, TypeOK
<1> QED
  BY <1>1, StaysTyped, PTL

-----------------------------------------------------------------------------

(* What a cluster says of its bulk load is so, if its release is there.    *)
Sound(k) == k.complete => k.release /\ (release # Nothing => imported # {})

(* Unless two commands are run at once that should not be, those at work   *)
(* are all load tests or there is only one, which saw the file as it is;   *)
(* and the file and what is known of it are sound.                         *)
Alone(p) ==
  \A q \in Process : p # q /\ at[p] # "idle" /\ at[q] # "idle" =>
    command[p].op = "loadtest" /\ command[q].op = "loadtest"

KnowsWell(p) ==
  /\ at[p] \notin {"idle", "prepare", "load"} => Sound(copy[p])
  /\ at[p] \in {"chart", "helm"} => info = copy[p]
  /\ at[p] \in {"generate", "import"} => copy[p].release

Honest ==
  ~overlapped =>
    /\ HasRecord => Sound(info)
    /\ \A p \in Process : Alone(p) /\ KnowsWell(p)

(* A step of one process leaves what the others execute and know alone.    *)
LEMMA OthersStay ==
  ASSUME Typed, NEW p \in Process, Operation(p), NEW q \in Process, q # p
  PROVE  at'[q] = at[q] /\ command'[q] = command[q] /\ copy'[q] = copy[q]
<1> USE DEF Typed, ProcessesOK, Go
<1>1. CASE Start(p) \/ Stop(p)
  BY <1>1 DEF Start, Stop, Return
<1>2. CASE LoadToDeploy(p) \/ LoadToTest(p) \/ LoadToDestroy(p)
  BY <1>2 DEF LoadToDeploy, LoadToTest, LoadToDestroy, LoadCluster
<1>3. CASE UseMachines(p) \/ Save(p) \/ SaveTorn(p)
  BY <1>3 DEF UseMachines, Save, SaveTorn, Return
<1>4. CASE PrepareKubernetes(p) \/ PrepareTerraform(p) \/ Apply(p) \/ ApplyFails(p)
  BY <1>4 DEF PrepareKubernetes, PrepareTerraform, Apply, ApplyFails, Return
<1>5. CASE WriteChart(p) \/ HelmDone(p) \/ HelmFails(p) \/ RestartApp(p) \/ RestartTests(p)
  BY <1>5 DEF WriteChart, HelmDone, HelmFails, RestartApp, RestartTests, Return
<1>6. CASE NoPods(p) \/ ChooseBulkLoad(p) \/ Generate(p) \/ Import(p) \/ RunTests(p)
  BY <1>6 DEF NoPods, ChooseBulkLoad, Generate, Import, RunTests, Return
<1>7. CASE DestroyDone(p) \/ DestroyFails(p) \/ Remove(p)
  BY <1>7 DEF DestroyDone, DestroyFails, Remove, Return
<1> QED
  BY <1>1, <1>2, <1>3, <1>4, <1>5, <1>6, <1>7 DEF Operation

(* After the end of a command nothing is known.                            *)
LEMMA ReturnForgets ==
  ASSUME Typed, NEW p \in Process, Return(p)
  PROVE  at'[p] = "idle" /\ copy'[p] = NoInfo
  BY DEF Return, Go, Typed, ProcessesOK

(* Only the start of a command can make two that should not be, and then   *)
(* it is remembered.                                                       *)
LEMMA AloneStep ==
  ASSUME Typed, NEW p \in Process, Operation(p), ~overlapped', Honest
  PROVE  ~overlapped /\ \A r \in Process : Alone(r)'
<1>1. CASE Start(p)
  <2>1. PICK c \in Command :
          /\ at[p] = "idle"
          /\ command' = [command EXCEPT ![p] = c]
          /\ overlapped' = (overlapped \/ \E q \in Busy : {c.op, command[q].op} # {"loadtest"})
    BY <1>1 DEF Start
  <2>2. ~overlapped /\ \A q \in Process :
          at[q] # "idle" => c.op = "loadtest" /\ command[q].op = "loadtest"
    BY <2>1 DEF Busy
  <2>3. command'[p] = c
    BY <2>1 DEF Typed, ProcessesOK
  <2>4. ASSUME NEW r \in Process, NEW q \in Process, r # q, at'[r] # "idle", at'[q] # "idle"
        PROVE  command'[r].op = "loadtest" /\ command'[q].op = "loadtest"
    <3>1. CASE r # p /\ q # p
      BY <2>2, <2>4, <3>1, OthersStay DEF Honest, Alone
    <3>2. CASE r = p
      BY <2>2, <2>3, <2>4, <3>2, OthersStay
    <3>3. CASE q = p
      BY <2>2, <2>3, <2>4, <3>3, OthersStay
    <3> QED
      BY <3>1, <3>2, <3>3
  <2> QED
    BY <2>2, <2>4 DEF Alone
<1>2. CASE ~Start(p)
  <2>1. UNCHANGED overlapped
    BY <1>2 DEF Operation, Stop, LoadToDeploy, LoadToTest, LoadToDestroy, LoadCluster,
                UseMachines, Save, SaveTorn, PrepareKubernetes, PrepareTerraform, Apply,
                ApplyFails, WriteChart, HelmDone, HelmFails, Helm, RestartApp, RestartTests,
                NoPods, ChooseBulkLoad, Generate, Import, RunTests, DestroyDone,
                DestroyFails, Destroy, Remove, history
  <2>2. at[p] # "idle" /\ (at'[p] # "idle" => command'[p] = command[p])
    BY <1>2 DEF Operation, Stop, LoadToDeploy, LoadToTest, LoadToDestroy, LoadCluster,
                UseMachines, Save, SaveTorn, PrepareKubernetes, PrepareTerraform, Apply,
                ApplyFails, WriteChart, HelmDone, HelmFails, Helm, RestartApp, RestartTests,
                NoPods, ChooseBulkLoad, Generate, Import, RunTests, DestroyDone,
                DestroyFails, Destroy, Remove, Return, Go, Typed, ProcessesOK
  <2>3. ASSUME NEW r \in Process, NEW q \in Process, r # q, at'[r] # "idle", at'[q] # "idle"
        PROVE  command'[r].op = "loadtest" /\ command'[q].op = "loadtest"
    <3>1. /\ at[r] # "idle" /\ command'[r] = command[r]
          /\ at[q] # "idle" /\ command'[q] = command[q]
      BY <2>2, <2>3, OthersStay
    <3> QED
      BY <2>1, <2>3, <3>1 DEF Honest, Alone
  <2> QED
    BY <2>1, <2>3 DEF Alone
<1> QED
  BY <1>1, <1>2

(* A first installation makes a database without data.                     *)
Installs(p) == (HelmDone(p) \/ HelmFails(p)) /\ ~copy[p].release

(* No other step leaves a release without data that was not so before.     *)
LEMMA SoundnessStays ==
  ASSUME Typed, NEW p \in Process, Operation(p), ~Installs(p)
  PROVE  release' # Nothing /\ imported' = {} => release # Nothing /\ imported = {}
<1>1. CASE HelmDone(p) \/ HelmFails(p)
  BY <1>1 DEF HelmDone, HelmFails, Helm, Installs
<1>2. CASE DestroyDone(p) \/ DestroyFails(p)
  BY <1>2 DEF DestroyDone, DestroyFails, Destroy, Purge, DestroyMachines
<1>3. CASE Import(p)
  BY <1>3 DEF Import
<1>4. CASE ~(HelmDone(p) \/ HelmFails(p) \/ DestroyDone(p) \/ DestroyFails(p) \/ Import(p))
  <2>1. UNCHANGED <<release, imported>>
    BY <1>4 DEF Operation, Start, Stop, LoadToDeploy, LoadToTest, LoadToDestroy, LoadCluster,
                UseMachines, Save, SaveTorn, PrepareKubernetes, PrepareTerraform, Apply,
                ApplyFails, WriteChart, RestartApp, RestartTests, NoPods, ChooseBulkLoad,
                Generate, RunTests, Remove, outside
  <2> QED
    BY <2>1
<1> QED
  BY <1>1, <1>2, <1>3, <1>4

(* The file is written by save and by destroy.                             *)
LEMMA InfoStep ==
  ASSUME NEW p \in Process, Operation(p)
  PROVE  \/ UNCHANGED info
         \/ info' \in {NoInfo, Torn}
         \/ at[p] = "save" /\ info' = copy[p]
<1>1. CASE Save(p) \/ SaveTorn(p) \/ Remove(p)
  BY <1>1 DEF Save, SaveTorn, Remove
<1>2. CASE ~(Save(p) \/ SaveTorn(p) \/ Remove(p))
  BY <1>2 DEF Operation, Start, Stop, LoadToDeploy, LoadToTest, LoadToDestroy, LoadCluster,
              UseMachines, PrepareKubernetes, PrepareTerraform, Apply, ApplyFails, WriteChart,
              HelmDone, HelmFails, Helm, RestartApp, RestartTests, NoPods, ChooseBulkLoad,
              Generate, Import, RunTests, DestroyDone, DestroyFails, Destroy
<1> QED
  BY <1>1, <1>2

(* What is known of a cluster that is being installed is what the file     *)
(* says, and no bulk load; and nobody else is at work.                     *)
LEMMA Installing ==
  ASSUME Typed, Honest, ~overlapped, NEW p \in Process, Installs(p)
  PROVE  /\ at[p] = "helm" /\ info = copy[p] /\ ~copy[p].complete /\ UNCHANGED info
         /\ \A q \in Process : q # p => at[q] = "idle"
<1>1. at[p] = "helm" /\ ~copy[p].release /\ UNCHANGED info
  BY DEF Installs, HelmDone, HelmFails, Helm
<1>2. info = copy[p] /\ ~copy[p].complete
  BY <1>1 DEF Honest, KnowsWell, Sound
<1>3. command[p].op = "deploy"
  BY <1>1 DEF Typed, ProcessesOK, Fitting
<1>4. ASSUME NEW q \in Process, q # p, at[q] # "idle"
      PROVE  FALSE
  <2>1. command[p].op = "loadtest"
    BY <1>1, <1>4 DEF Honest, Alone
  <2> QED
    BY <1>3, <2>1
<1> QED
  BY <1>1, <1>2, <1>4

(* What the process itself knows.                                          *)
LEMMA KnowsWellStep ==
  ASSUME Typed, Honest, ~overlapped, NEW p \in Process, Operation(p)
  PROVE  KnowsWell(p)'
<1>a. KnowsWell(p) /\ (HasRecord => Sound(info))
  BY DEF Honest
<1>b. at'[p] \in {"idle", "prepare", "load"} => KnowsWell(p)'
  BY DEF KnowsWell
<1>1. CASE Start(p)
  BY <1>1, <1>b DEF Start, Go, Typed, ProcessesOK
<1>2. CASE \/ Stop(p) \/ UseMachines(p) \/ SaveTorn(p) \/ ApplyFails(p) \/ HelmFails(p)
           \/ NoPods(p) \/ RunTests(p) \/ DestroyFails(p) \/ Remove(p)
  <2>1. Return(p)
    BY <1>2 DEF Stop, UseMachines, SaveTorn, ApplyFails, HelmFails, NoPods, RunTests,
                DestroyFails, Remove
  <2> QED
    BY <2>1, <1>b, ReturnForgets
<1>3. CASE LoadToDeploy(p) \/ LoadToTest(p) \/ LoadToDestroy(p)
  <2>1. /\ HasRecord /\ copy'[p] = info /\ UNCHANGED <<info, release, imported>>
        /\ at'[p] \in {"chart", "pods", "machines", "destroy"}
    BY <1>3 DEF LoadToDeploy, LoadToTest, LoadToDestroy, LoadCluster, HasRecord, outside, Go,
                Typed, ProcessesOK
  <2> QED
    BY <1>a, <2>1 DEF KnowsWell, Sound
<1>4. CASE PrepareKubernetes(p) \/ PrepareTerraform(p)
  <2>1. PICK t \in {"kubernetes", "terraform"}, k \in Int : copy'[p] = NewCluster(t, k)
    BY <1>4 DEF PrepareKubernetes, PrepareTerraform, Typed, ProcessesOK, RestOK
  <2>2. at'[p] \in {"save", "apply"}
    BY <1>4 DEF PrepareKubernetes, PrepareTerraform, Go, Typed, ProcessesOK
  <2>3. ~copy'[p].complete
    <3>1. NewCluster(t, k).complete = FALSE
      BY DEF NewCluster
    <3> QED
      BY <2>1, <3>1
  <2>4. Sound(copy[p])'
    BY <2>3 DEF Sound
  <2> QED
    BY <2>2, <2>4 DEF KnowsWell
<1>5. CASE Save(p)
  <2>1. CASE command[p].op = "loadtest"
    BY <1>5, <1>a, <2>1 DEF Save, KnowsWell, Sound, Go, Typed, ProcessesOK, outside
  <2>2. CASE command[p].op # "loadtest"
    BY <1>5, <1>b, <2>2, ReturnForgets DEF Save
  <2> QED
    BY <2>1, <2>2
<1>6. CASE \/ Apply(p) \/ WriteChart(p) \/ RestartApp(p) \/ ChooseBulkLoad(p) \/ Generate(p)
           \/ DestroyDone(p)
  <2>1. /\ at[p] \notin {"idle", "prepare", "load"} /\ copy'[p] = copy[p]
        /\ at'[p] \in {"chart", "helm"} => at[p] = "chart" /\ UNCHANGED info
        /\ at'[p] \in {"generate", "import"} => at[p] = "generate" \/ copy[p].release
    BY <1>6 DEF Apply, WriteChart, RestartApp, ChooseBulkLoad, Generate, DestroyDone, Destroy,
                Go, Typed, ProcessesOK
  <2>2. Sound(copy[p]) /\ ~Installs(p)
    BY <1>6, <1>a, <2>1 DEF KnowsWell, Apply, WriteChart, RestartApp, ChooseBulkLoad, Generate,
                            DestroyDone, Destroy, Installs, HelmDone, HelmFails, Helm
  <2>3. Sound(copy[p])'
    BY <2>1, <2>2, SoundnessStays DEF Sound
  <2> QED
    BY <1>a, <2>1, <2>3 DEF KnowsWell
<1>7. CASE HelmDone(p)
  <2>1. at[p] = "helm" /\ at'[p] \in {"restart app", "save"}
    BY <1>7 DEF HelmDone, Helm, Go, Typed, ProcessesOK
  <2>2. Sound(copy[p])'
    <3>1. CASE copy[p].release
      <4>1. copy'[p] = copy[p] /\ Sound(copy[p]) /\ ~Installs(p)
        BY <1>7, <1>a, <2>1, <3>1 DEF HelmDone, KnowsWell, Installs
      <4> QED
        BY <4>1, SoundnessStays DEF Sound
    <3>2. CASE ~copy[p].release
      <4>1. copy'[p] = Recorded(p) /\ ~copy[p].complete
        BY <1>7, <3>2, Installing DEF HelmDone, Installs, Typed, ProcessesOK
      <4>2. ~Recorded(p).complete
        BY <2>1, <4>1, RecordedTyped
      <4> QED
        BY <4>1, <4>2 DEF Sound
    <3> QED
      BY <3>1, <3>2
  <2> QED
    BY <2>1, <2>2 DEF KnowsWell
<1>8. CASE RestartTests(p)
  <2>1. /\ at[p] = "restart tests" /\ at'[p] = "save" /\ copy'[p] = Recorded(p)
        /\ UNCHANGED <<release, imported>>
    BY <1>8 DEF RestartTests, Go, Typed, ProcessesOK
  <2>2. Recorded(p).release /\ (Recorded(p).complete => copy[p].complete) /\ Sound(copy[p])
    BY <1>a, <2>1, RecordedTyped DEF KnowsWell
  <2>3. Sound(copy[p])'
    BY <2>1, <2>2 DEF Sound
  <2> QED
    BY <2>1, <2>3 DEF KnowsWell
<1>9. CASE Import(p)
  <2>1. at[p] = "import" /\ at'[p] = "save" /\ imported' # {}
    BY <1>9 DEF Import, Go, Typed, ProcessesOK
  <2>2. copy[p] \in Cluster /\ copy[p].release
    BY <1>a, <2>1 DEF Typed, ProcessesOK, Fitting, KnowsWell
  <2>3. copy'[p] = [copy[p] EXCEPT !.complete = TRUE]
    BY <1>9 DEF Import, Typed, ProcessesOK
  <2>4. copy'[p].release
    BY <2>2, <2>3 DEF Cluster
  <2> QED
    BY <2>1, <2>4 DEF KnowsWell, Sound
<1> QED
  BY <1>1, <1>2, <1>3, <1>4, <1>5, <1>6, <1>7, <1>8, <1>9 DEF Operation

LEMMA HonestStep ==
  ASSUME Typed, Honest, NEW p \in Process, Operation(p), ~overlapped'
  PROVE  Honest'
<1>1. ~overlapped /\ \A r \in Process : Alone(r)'
  BY AloneStep
<1>2. (HasRecord => Sound(info))'
  <2>1. CASE Installs(p)
    BY <1>1, <2>1, Installing DEF Sound
  <2>2. CASE ~Installs(p)
    <3>1. HasRecord' => UNCHANGED info \/ (at[p] = "save" /\ info' = copy[p])
      BY InfoStep DEF HasRecord
    <3>2. HasRecord' => Sound(info')
      BY <1>1, <3>1 DEF Honest, KnowsWell, HasRecord
    <3> QED
      BY <2>2, <3>2, SoundnessStays DEF Sound
  <2> QED
    BY <2>1, <2>2
<1>3. KnowsWell(p)'
  BY <1>1, KnowsWellStep
<1>4. ASSUME NEW q \in Process, q # p
      PROVE  KnowsWell(q)'
  <2>1. KnowsWell(q) /\ at'[q] = at[q] /\ command'[q] = command[q] /\ copy'[q] = copy[q]
    BY <1>1, <1>4, OthersStay DEF Honest
  <2>2. at[q] \notin {"idle", "prepare", "load"} => Sound(copy[q])'
    <3>1. CASE Installs(p)
      BY <1>1, <1>4, <3>1, Installing
    <3>2. CASE ~Installs(p)
      BY <2>1, <3>2, SoundnessStays DEF KnowsWell, Sound
    <3> QED
      BY <3>1, <3>2
  <2>3. at[q] \in {"chart", "helm"} => UNCHANGED info
    <3>1. at[q] \in {"chart", "helm"} => command[q].op = "deploy"
      BY DEF Typed, ProcessesOK, Fitting
    <3>2. at[q] \in {"chart", "helm"} => at[p] = "idle"
      BY <1>1, <1>4, <3>1 DEF Honest, Alone
    <3>3. at[p] = "idle" => UNCHANGED info
      BY DEF Operation, Start, Stop, LoadToDeploy, LoadToTest, LoadToDestroy, LoadCluster,
             UseMachines, Save, SaveTorn, PrepareKubernetes, PrepareTerraform, Apply,
             ApplyFails, WriteChart, HelmDone, HelmFails, Helm, RestartApp, RestartTests,
             NoPods, ChooseBulkLoad, Generate, Import, RunTests, DestroyDone,
             DestroyFails, Destroy, Remove
    <3> QED
      BY <3>2, <3>3
  <2> QED
    BY <2>1, <2>2, <2>3 DEF KnowsWell
<1> QED
  BY <1>1, <1>2, <1>3, <1>4 DEF Honest

(* Whatever fails or is killed, a file that names the release there is     *)
(* never claims a bulk load that its database did not get, as long as no   *)
(* two commands but load tests are run at once.                            *)
THEOREM NoFalseClaim == Spec => []CompleteMeansImported
<1>1. Init => Honest
  BY DEF Init, Honest, HasRecord, Alone, KnowsWell
<1>2. ASSUME Typed, Honest, [Next]_vars
      PROVE  Honest'
  <2>1. CASE Next
    <3>1. PICK p \in Process : Operation(p)
      BY <2>1 DEF Next
    <3>2. CASE overlapped'
      BY <3>2 DEF Honest
    <3>3. CASE ~overlapped'
      BY <1>2, <3>1, <3>3, HonestStep
    <3> QED
      BY <3>2, <3>3
  <2>2. CASE UNCHANGED vars
    BY <1>2, <2>2 DEF vars, outside, history, Honest, HasRecord, Sound, Alone, KnowsWell
  <2> QED
    BY <1>2, <2>1, <2>2
<1>3. Honest => CompleteMeansImported
  BY DEF Honest, Sound, CompleteMeansImported
<1> QED
  BY <1>1, <1>2, <1>3, StaysTyped, PTL DEF Spec

-----------------------------------------------------------------------------

(* A record describes what there is, as far as a command can rely on it.   *)
NothingThere == release = Nothing /\ applied = 0

Describes(k) ==
  /\ k.release <=> release # Nothing
  /\ k.profile = "standard" => release = Standard(k.users)
  /\ applied = k.keys
  /\ IF k.type = "kubernetes" THEN k.keys = 0 ELSE ~k.release

(* What a command knows, or is about to write, describes what there is; a  *)
(* command that is ahead of the file still has to write it.                *)
Accounted(p) ==
  /\ at[p] \in {"chart", "helm", "pods", "generate", "import", "destroy", "save"} =>
       Describes(copy[p])
  /\ at[p] \in {"chart", "helm", "restart app", "restart tests"} =>
       copy[p].type = "kubernetes"
  /\ at[p] = "helm" => command[p].helmConfig \/ chartFile = command[p].users
  /\ at[p] \in {"restart app", "restart tests"} => Describes(Recorded(p))
  /\ at[p] = "apply" =>
       /\ release = Nothing /\ ~copy[p].release
       /\ copy[p].profile # "standard" /\ copy[p].type = "terraform"
  /\ at[p] = "remove" => NothingThere
  /\ p \in ahead =>
       /\ command[p].op # "loadtest"
       /\ at[p] \in {"restart app", "restart tests", "save", "remove"}

FileOK ==
  ahead = {} => (info = NoInfo /\ NothingThere) \/ (HasRecord /\ Describes(info))

Faithful == ~broken /\ ~overlapped => FileOK /\ \A p \in Process : Accounted(p)

(* Nothing makes amends for a command that was stopped half way.           *)
LEMMA BrokenStays ==
  ASSUME NEW p \in Process, Operation(p), ~broken', Typed
  PROVE  /\ ~broken
         /\ ahead' \subseteq ahead \union {p}
         /\ ~(SaveTorn(p) \/ ApplyFails(p) \/ HelmFails(p) \/ DestroyFails(p))
  BY DEF Operation, Start, Stop, LoadToDeploy, LoadToTest, LoadToDestroy, LoadCluster,
         UseMachines, Save, SaveTorn, PrepareKubernetes, PrepareTerraform, Apply,
         ApplyFails, WriteChart, HelmDone, HelmFails, Helm, RestartApp, RestartTests,
         NoPods, ChooseBulkLoad, Generate, Import, RunTests, DestroyDone,
         DestroyFails, Destroy, Remove, Typed, RestOK

(* Who starts, or tests, changes nothing that a record describes.          *)
LEMMA QuietStep ==
  ASSUME Typed, NEW p \in Process, Operation(p),
         at[p] = "idle" \/ command[p].op = "loadtest"
  PROVE  UNCHANGED <<release, applied, chartFile>>
<1>1. /\ at[p] \notin {"prepare", "apply", "chart", "helm", "restart app",
                      "restart tests", "destroy", "remove"}
  BY DEF Typed, ProcessesOK, Fitting
<1> QED
  BY <1>1 DEF Operation, Start, Stop, LoadToDeploy, LoadToTest, LoadToDestroy, LoadCluster,
         UseMachines, Save, SaveTorn, PrepareKubernetes, PrepareTerraform, Apply,
         ApplyFails, WriteChart, HelmDone, HelmFails, Helm, RestartApp, RestartTests,
         NoPods, ChooseBulkLoad, Generate, Import, RunTests, DestroyDone,
         DestroyFails, Destroy, Remove, outside

(* The others stay accounted for.                                          *)
LEMMA OthersAccounted ==
  ASSUME Typed, Honest, ~overlapped, \A r \in Process : Accounted(r),
         NEW p \in Process, Operation(p), ~broken', NEW q \in Process, q # p
  PROVE  Accounted(q)'
<1>1. /\ at'[q] = at[q] /\ command'[q] = command[q] /\ copy'[q] = copy[q]
      /\ q \in ahead' => q \in ahead
  BY OthersStay, BrokenStays
<1>2. CASE at[q] = "idle"
  BY <1>1, <1>2 DEF Accounted
<1>3. CASE at[q] # "idle"
  <2>1. UNCHANGED <<release, applied, chartFile>>
    BY <1>3, QuietStep DEF Honest, Alone
  <2>2. Recorded(q)' = Recorded(q)
    BY <1>1 DEF Recorded
  <2>3. Describes(copy[q])' <=> Describes(copy[q])
    BY <1>1, <2>1 DEF Describes
  <2>4. Describes(Recorded(q))' <=> Describes(Recorded(q))
    BY <2>1, <2>2 DEF Describes
  <2> QED
    BY <1>1, <2>1, <2>3, <2>4 DEF Accounted, NothingThere
<1> QED
  BY <1>2, <1>3

(* A command that is not a load test finds nobody ahead of the file, and a *)
(* load test neither.                                                      *)
LEMMA NobodyAhead ==
  ASSUME Typed, Honest, ~overlapped, \A r \in Process : Accounted(r),
         NEW p \in Process, at[p] # "idle", p \notin ahead
  PROVE  ahead = {}
<1>1. ASSUME NEW q \in ahead
      PROVE  FALSE
  <2>1. q \in Process /\ q # p /\ at[q] # "idle" /\ command[q].op # "loadtest"
    BY <1>1 DEF Typed, RestOK, Accounted
  <2> QED
    BY <2>1 DEF Honest, Alone
<1> QED
  BY <1>1

(* What deploy is about to record describes the chart that helm was given. *)
LEMMA HelmDescribed ==
  ASSUME Typed, NEW p \in Process, Helm(p), Accounted(p)
  PROVE  /\ Recorded(p).release /\ release' # Nothing
         /\ Recorded(p).profile = "standard" => release' = Standard(Recorded(p).users)
         /\ applied' = Recorded(p).keys
         /\ Recorded(p).type = "kubernetes" /\ Recorded(p).keys = 0
<1>1. /\ at[p] = "helm" /\ UNCHANGED applied
      /\ command[p].helmConfig \/ chartFile # Nothing
      /\ release' = IF command[p].helmConfig THEN Custom ELSE Standard(chartFile)
  BY DEF Helm
<1>2. /\ Describes(copy[p]) /\ copy[p].type = "kubernetes"
      /\ command[p].helmConfig \/ chartFile = command[p].users
  BY <1>1 DEF Accounted
<1>3. release' \in Chart
  BY <1>1 DEF Typed, RestOK, Chart
<1>4. release' # Nothing
  BY <1>3, DistinctAssumption
<1>5. /\ Recorded(p).release = TRUE /\ Recorded(p).users = command[p].users
      /\ Recorded(p).profile = "standard" => ~command[p].helmConfig
      /\ Recorded(p).type = copy[p].type /\ Recorded(p).keys = copy[p].keys
  BY DEF Recorded
<1> QED
  BY <1>1, <1>2, <1>4, <1>5 DEF Describes

(* A step keeps its process accounted for.                                 *)
LEMMA OwnAccounted ==
  ASSUME Typed, Honest, ~overlapped, FileOK, \A r \in Process : Accounted(r),
         NEW p \in Process, Operation(p), ~broken'
  PROVE  Accounted(p)'
<1>a. Accounted(p) /\ ~broken
  BY BrokenStays
<1>b. at'[p] \in {"idle", "load", "prepare", "machines", "run"} /\ p \notin ahead'
        => Accounted(p)'
  BY DEF Accounted
<1>1. CASE Start(p)
  <2>1. at'[p] \in {"load", "prepare"} /\ at[p] = "idle" /\ UNCHANGED ahead
    BY <1>1 DEF Start, Go, Typed, ProcessesOK
  <2> QED
    BY <1>a, <1>b, <2>1 DEF Accounted
<1>2. CASE Stop(p) \/ UseMachines(p) \/ NoPods(p) \/ RunTests(p) \/ Remove(p)
  <2>1. /\ Return(p)
        /\ ahead' = ahead \ {p} \/ (UNCHANGED ahead /\ at[p] \in {"machines", "pods", "run"})
    BY <1>2 DEF Stop, UseMachines, NoPods, RunTests, Remove
  <2> QED
    BY <1>a, <1>b, <2>1, ReturnForgets DEF Accounted
<1>3. CASE LoadToDeploy(p) \/ LoadToTest(p) \/ LoadToDestroy(p)
  <2>1. /\ at[p] = "load" /\ HasRecord /\ copy'[p] = info
        /\ UNCHANGED <<ahead, release, applied, command>>
        /\ at'[p] \in {"chart", "pods", "machines", "destroy"}
        /\ at'[p] = "chart" => info.type = "kubernetes"
    BY <1>3 DEF LoadToDeploy, LoadToTest, LoadToDestroy, LoadCluster, HasRecord, outside, Go,
                Typed, ProcessesOK
  <2>2. p \notin ahead
    BY <1>a, <2>1 DEF Accounted
  <2>3. Describes(info)
    BY <2>1, <2>2, NobodyAhead DEF FileOK, HasRecord
  <2>4. Describes(copy[p])'
    BY <2>1, <2>3 DEF Describes
  <2> QED
    BY <2>1, <2>2, <2>4 DEF Accounted
<1>4. CASE PrepareKubernetes(p)
  <2>1. /\ at[p] = "prepare" /\ at'[p] = "save" /\ UNCHANGED <<ahead, release, applied>>
        /\ copy'[p] = NewCluster("kubernetes", 0) /\ NothingThere
    BY <1>4 DEF PrepareKubernetes, outside, NothingThere, Go, Typed, ProcessesOK
  <2>2. Describes(copy[p])'
    <3>1. /\ ~copy'[p].release /\ copy'[p].profile # "standard"
          /\ copy'[p].type = "kubernetes" /\ copy'[p].keys = 0
      <4>1. NewCluster("kubernetes", 0).release = FALSE
        BY DEF NewCluster
      <4>2. NewCluster("kubernetes", 0).profile # "standard"
        BY DEF NewCluster
      <4>3. NewCluster("kubernetes", 0).type = "kubernetes"
        BY DEF NewCluster
      <4>4. NewCluster("kubernetes", 0).keys = 0
        BY DEF NewCluster
      <4> QED
        BY <2>1, <4>1, <4>2, <4>3, <4>4
    <3> QED
      BY <2>1, <3>1 DEF Describes, NothingThere
  <2> QED
    BY <1>a, <2>1, <2>2 DEF Accounted
<1>5. CASE PrepareTerraform(p)
  <2>1. /\ at[p] = "prepare" /\ at'[p] = "apply" /\ UNCHANGED <<ahead, release>>
        /\ copy'[p] = NewCluster("terraform", started) /\ release = Nothing
    BY <1>5 DEF PrepareTerraform, outside, Go, Typed, ProcessesOK
  <2>2. ~copy'[p].release /\ copy'[p].profile # "standard" /\ copy'[p].type = "terraform"
    <3>1. NewCluster("terraform", started).release = FALSE
      BY DEF NewCluster
    <3>2. NewCluster("terraform", started).profile # "standard"
      BY DEF NewCluster
    <3>3. NewCluster("terraform", started).type = "terraform"
      BY DEF NewCluster
    <3> QED
      BY <2>1, <3>1, <3>2, <3>3
  <2> QED
    BY <1>a, <2>1, <2>2 DEF Accounted
<1>6. CASE Apply(p)
  <2>1. /\ at[p] = "apply" /\ at'[p] = "save" /\ UNCHANGED <<release, command, copy>>
        /\ applied' = copy[p].keys
    BY <1>6 DEF Apply, Go, Typed, ProcessesOK
  <2>2. command[p].op = "create"
    BY <2>1 DEF Typed, ProcessesOK, Fitting
  <2>3. /\ release = Nothing /\ ~copy[p].release
        /\ copy[p].profile # "standard" /\ copy[p].type = "terraform"
    BY <1>a, <2>1 DEF Accounted
  <2>4. Describes(copy[p])'
    BY <2>1, <2>3 DEF Describes
  <2> QED
    BY <2>1, <2>2, <2>4 DEF Accounted
<1>7. CASE WriteChart(p)
  <2>1. /\ at[p] = "chart" /\ at'[p] = "helm"
        /\ UNCHANGED <<release, applied, command, copy, ahead>>
        /\ command[p].helmConfig \/ chartFile' = command[p].users
    BY <1>7 DEF WriteChart, outside, Go, Typed, ProcessesOK
  <2>2. Describes(copy[p])' /\ copy[p].type = "kubernetes"
    BY <1>a, <2>1 DEF Accounted, Describes
  <2> QED
    BY <1>a, <2>1, <2>2 DEF Accounted
<1>8. CASE HelmDone(p)
  <2>1. /\ Helm(p) /\ at[p] = "helm" /\ UNCHANGED command
        /\ \/ at'[p] = "restart app" /\ UNCHANGED copy
           \/ at'[p] = "save" /\ copy'[p] = Recorded(p)
    BY <1>8 DEF HelmDone, Helm, Go, Typed, ProcessesOK
  <2>2. command[p].op = "deploy" /\ copy[p].type = "kubernetes"
    BY <1>a, <2>1 DEF Typed, ProcessesOK, Fitting, Accounted
  <2>3. CASE at'[p] = "restart app" /\ UNCHANGED copy
    <3>1. Recorded(p)' = Recorded(p)
      BY <2>1, <2>3 DEF Recorded
    <3>2. Describes(Recorded(p))'
      BY <1>a, <2>1, <3>1, HelmDescribed DEF Describes
    <3> QED
      BY <2>1, <2>2, <2>3, <3>2 DEF Accounted
  <2>4. CASE at'[p] = "save" /\ copy'[p] = Recorded(p)
    <3>1. Describes(copy[p])'
      BY <1>a, <2>1, <2>4, HelmDescribed DEF Describes
    <3> QED
      BY <2>1, <2>2, <2>4, <3>1 DEF Accounted
  <2> QED
    BY <2>1, <2>3, <2>4
<1>9. CASE RestartApp(p)
  <2>1. /\ at[p] = "restart app" /\ at'[p] = "restart tests"
        /\ UNCHANGED <<release, applied, command, copy, ahead>>
    BY <1>9 DEF RestartApp, Go, Typed, ProcessesOK
  <2>2. Recorded(p)' = Recorded(p)
    BY <2>1 DEF Recorded
  <2>3. Describes(Recorded(p))'
    BY <1>a, <2>1, <2>2 DEF Accounted, Describes
  <2> QED
    BY <1>a, <2>1, <2>3 DEF Accounted
<1>10. CASE RestartTests(p)
  <2>1. /\ at[p] = "restart tests" /\ at'[p] = "save" /\ copy'[p] = Recorded(p)
        /\ UNCHANGED <<release, applied, command, ahead>>
    BY <1>10 DEF RestartTests, Go, Typed, ProcessesOK
  <2>2. Describes(copy[p])'
    BY <1>a, <2>1 DEF Accounted, Describes
  <2> QED
    BY <1>a, <2>1, <2>2 DEF Accounted
<1>11. CASE ChooseBulkLoad(p) \/ Generate(p)
  <2>1. /\ at[p] \in {"pods", "generate"} /\ at'[p] \in {"run", "generate", "import"}
        /\ UNCHANGED <<release, applied, command, copy, ahead>>
    BY <1>11 DEF ChooseBulkLoad, Generate, outside, Go, Typed, ProcessesOK
  <2>2. Describes(copy[p])'
    BY <1>a, <2>1 DEF Accounted, Describes
  <2> QED
    BY <1>a, <2>1, <2>2 DEF Accounted
<1>12. CASE Import(p)
  <2>1. /\ at[p] = "import" /\ at'[p] = "save"
        /\ copy'[p] = [copy[p] EXCEPT !.complete = TRUE]
        /\ UNCHANGED <<release, applied, command, ahead>>
    BY <1>12 DEF Import, Go, Typed, ProcessesOK
  <2>2. copy[p] \in Cluster
    BY <2>1 DEF Typed, ProcessesOK, Fitting
  <2>3. /\ copy'[p].release = copy[p].release /\ copy'[p].profile = copy[p].profile
        /\ copy'[p].users = copy[p].users /\ copy'[p].keys = copy[p].keys
        /\ copy'[p].type = copy[p].type
    BY <2>1, <2>2 DEF Cluster
  <2>4. Describes(copy[p])'
    BY <1>a, <2>1, <2>3 DEF Accounted, Describes
  <2> QED
    BY <1>a, <2>1, <2>4 DEF Accounted
<1>13. CASE Save(p)
  <2>1. at'[p] \in {"idle", "run"} /\ p \notin ahead'
    BY <1>13, ReturnForgets DEF Save, Go, Typed, ProcessesOK
  <2> QED
    BY <1>b, <2>1
<1>14. CASE DestroyDone(p)
  <2>1. /\ at[p] = "destroy" /\ at'[p] = "remove" /\ UNCHANGED command
        /\ IF copy[p].type = "kubernetes" THEN Purge ELSE DestroyMachines
    BY <1>14 DEF DestroyDone, Destroy, Go, Typed, ProcessesOK
  <2>2. command[p].op = "destroy" /\ Describes(copy[p])
    BY <1>a, <2>1 DEF Typed, ProcessesOK, Fitting, Accounted
  <2>3. NothingThere'
    BY <2>1, <2>2 DEF Describes, Purge, DestroyMachines, NothingThere
  <2> QED
    BY <2>1, <2>2, <2>3 DEF Accounted
<1> QED
  BY <1>1, <1>2, <1>3, <1>4, <1>5, <1>6, <1>7, <1>8, <1>9, <1>10, <1>11, <1>12, <1>13,
     <1>14, BrokenStays DEF Operation

(* The file describes what there is, unless somebody is ahead of it.       *)
LEMMA FileStep ==
  ASSUME Typed, Honest, ~overlapped, FileOK, \A r \in Process : Accounted(r),
         NEW p \in Process, Operation(p), ~broken'
  PROVE  FileOK'
<1>1. CASE Save(p)
  <2>1. /\ at[p] = "save" /\ info' = copy[p] /\ UNCHANGED <<release, applied>>
    BY <1>1 DEF Save, outside
  <2>2. copy[p] \in Cluster /\ Describes(copy[p])
    BY <2>1 DEF Typed, ProcessesOK, Fitting, Accounted
  <2>3. HasRecord' /\ Describes(info)'
    BY <2>1, <2>2, DistinctAssumption DEF HasRecord, Describes
  <2> QED
    BY <2>3 DEF FileOK
<1>2. CASE Remove(p)
  <2>1. at[p] = "remove" /\ info' = NoInfo /\ UNCHANGED <<release, applied>>
    BY <1>2 DEF Remove, outside
  <2> QED
    BY <2>1 DEF Accounted, NothingThere, FileOK
<1>3. CASE HelmDone(p) \/ Apply(p) \/ DestroyDone(p)
  BY <1>3 DEF HelmDone, Apply, DestroyDone, FileOK
<1>4. CASE Stop(p)
  <2>1. p \notin ahead /\ ahead' = ahead \ {p} /\ UNCHANGED <<info, release, applied>>
    BY <1>4 DEF Stop, outside
  <2> QED
    BY <2>1 DEF FileOK, NothingThere, HasRecord, Describes
<1>5. CASE ~(Save(p) \/ Remove(p) \/ HelmDone(p) \/ Apply(p) \/ DestroyDone(p) \/ Stop(p))
  <2>1. UNCHANGED <<info, release, applied, ahead>>
    BY <1>5, BrokenStays DEF Operation, Start, LoadToDeploy, LoadToTest, LoadToDestroy,
                LoadCluster, UseMachines, PrepareKubernetes, PrepareTerraform, WriteChart,
                RestartApp, RestartTests, NoPods, ChooseBulkLoad, Generate, Import, RunTests,
                outside
  <2> QED
    BY <2>1 DEF FileOK, NothingThere, HasRecord, Describes
<1> QED
  BY <1>1, <1>2, <1>3, <1>4, <1>5

(* The invariant of both kinds of honesty.                                 *)
LEMMA StaysFaithful == Spec => [](Honest /\ Faithful)
<1>1. Init => Honest /\ Faithful
  <2> SUFFICES ASSUME Init
               PROVE  Honest /\ Faithful
    OBVIOUS
  <2>1. Honest
    BY DEF Init, Honest, HasRecord, Alone, KnowsWell
  <2>2. FileOK /\ \A p \in Process : Accounted(p)
    BY DEF Init, FileOK, NothingThere, Accounted
  <2> QED
    BY <2>1, <2>2 DEF Faithful
<1>2. ASSUME Typed, Honest, Faithful, [Next]_vars
      PROVE  Honest' /\ Faithful'
  <2>1. CASE Next
    <3>1. PICK p \in Process : Operation(p)
      BY <2>1 DEF Next
    <3>2. Honest'
      <4>1. CASE overlapped'
        BY <4>1 DEF Honest
      <4>2. CASE ~overlapped'
        BY <1>2, <3>1, <4>2, HonestStep
      <4> QED
        BY <4>1, <4>2
    <3>3. ASSUME ~broken', ~overlapped'
          PROVE  (FileOK /\ \A q \in Process : Accounted(q))'
      <4>1. ~broken /\ ~overlapped
        BY <1>2, <3>1, <3>3, BrokenStays, AloneStep
      <4>2. FileOK /\ \A q \in Process : Accounted(q)
        BY <1>2, <4>1 DEF Faithful
      <4>3. FileOK'
        BY <1>2, <3>1, <3>3, <4>1, <4>2, FileStep
      <4>4. ASSUME NEW q \in Process
            PROVE  Accounted(q)'
        <5>1. CASE q = p
          BY <1>2, <3>1, <3>3, <4>1, <4>2, <5>1, OwnAccounted
        <5>2. CASE q # p
          BY <1>2, <3>1, <3>3, <4>1, <4>2, <5>2, OthersAccounted
        <5> QED
          BY <5>1, <5>2
      <4> QED
        BY <4>3, <4>4
    <3> QED
      BY <3>2, <3>3 DEF Faithful
  <2>2. CASE UNCHANGED vars
    <3>1. Honest'
      BY <1>2, <2>2 DEF vars, outside, history, Honest, HasRecord, Sound, Alone, KnowsWell
    <3>2. Faithful'
      <4>1. UNCHANGED <<info, chartFile, command, at, copy, release, applied, ahead,
                        broken, overlapped>>
        BY <2>2 DEF vars, outside, history
      <4>2. FileOK' <=> FileOK
        BY <4>1 DEF FileOK, HasRecord, NothingThere, Describes
      <4>3. ASSUME NEW q \in Process, Accounted(q)
            PROVE  Accounted(q)'
        <5>1. Describes(copy[q])' <=> Describes(copy[q])
          BY <4>1 DEF Describes
        <5>2. Recorded(q)' = Recorded(q)
          BY <4>1 DEF Recorded
        <5>3. Describes(Recorded(q))' <=> Describes(Recorded(q))
          BY <4>1, <5>2 DEF Describes
        <5> QED
          BY <4>1, <4>3, <5>1, <5>3 DEF Accounted, NothingThere
      <4> QED
        BY <1>2, <4>1, <4>2, <4>3 DEF Faithful
    <3> QED
      BY <3>1, <3>2
  <2> QED
    BY <1>2, <2>1, <2>2
<1> QED
  BY <1>1, <1>2, StaysTyped, PTL DEF Spec

(* When no command is at work, and none was stopped half way, the file is  *)
(* whole and describes the release and the machines there are; without one *)
(* there is nothing.                                                       *)
THEOREM FileIsReconciled == Spec => []Reconciled
<1>1. Typed /\ Faithful => Reconciled
  <2> SUFFICES ASSUME Typed, Faithful, Busy = {}, ~broken, ~overlapped
               PROVE  /\ info # Torn
                      /\ info = NoInfo => release = Nothing /\ applied = 0
                      /\ HasRecord =>
                           /\ info.release <=> release # Nothing
                           /\ info.profile = "standard" => release = Standard(info.users)
                           /\ applied = info.keys
    BY DEF Reconciled
  <2>1. ahead = {}
    BY DEF Faithful, Accounted, Busy, Typed, RestOK
  <2>2. (info = NoInfo /\ NothingThere) \/ (HasRecord /\ Describes(info))
    BY <2>1 DEF Faithful, FileOK
  <2> QED
    BY <2>2, DistinctAssumption DEF HasRecord, NothingThere, Describes
<1> QED
  BY <1>1, StaysFaithful, StaysTyped, PTL

-----------------------------------------------------------------------------

(* A record claims a bulk load only if the agents' data were imported, but *)
(* for the exception of BulkLoadRecorded.                                  *)
Backed(k) ==
  k.complete => agents \in imported \/ (agents = Custom /\ k.users # 0)

Restarting(p) == at[p] \in {"restart app", "restart tests"}

(* What a command knows, or is about to write, is backed.  While deploy    *)
(* changes the chart, what it was before is what counts: if it was the     *)
(* standard one of so many users, their data were imported.                *)
Entitled(p) ==
  /\ at[p] \in {"apply", "pods", "generate", "import", "save"} => Backed(copy[p])
  /\ at[p] \in {"chart", "helm"} \/ Restarting(p) =>
       (copy[p].complete /\ copy[p].profile = "standard" =>
          Standard(copy[p].users) \in imported)
  /\ Restarting(p) =>
       /\ p \in ahead
       /\ command[p].helmConfig => release = Custom
  /\ at[p] = "restart tests" => bulkfile = Nothing

(* The agents read the chart of the release, unless they are about to be   *)
(* restarted; and a bulkload file is of their chart.                       *)
Served ==
  /\ bulkfile \in {Nothing, agents}
  /\ release = Nothing => agents = Nothing
  /\ release = agents \/ \E p \in Process : Restarting(p)

BackedFile == ahead = {} /\ HasRecord => Backed(info)

AllBacked == ~broken /\ ~overlapped => Served /\ BackedFile /\ \A p \in Process : Entitled(p)

(* Who is restarting pods goes on, or stops and leaves the cluster broken. *)
LEMMA RestartsGoOn ==
  ASSUME Typed, NEW p \in Process, Operation(p), ~broken', Restarting(p), p \in ahead
  PROVE  RestartApp(p) \/ RestartTests(p)
BY DEF Operation, Start, Stop, LoadToDeploy, LoadToTest, LoadToDestroy, LoadCluster,
       UseMachines, Save, SaveTorn, PrepareKubernetes, PrepareTerraform, Apply,
       ApplyFails, WriteChart, HelmDone, HelmFails, Helm, NoPods, ChooseBulkLoad, Generate,
       Import, RunTests, DestroyDone, DestroyFails, Destroy, Remove, Restarting

(* The steps that leave the release, its agents and its data alone.        *)
LEMMA ServerUntouched ==
  ASSUME NEW p \in Process, Operation(p), ~(HelmFails(p) \/ DestroyFails(p)),
         ~(HelmDone(p) \/ RestartApp(p) \/ RestartTests(p) \/ Generate(p) \/ Import(p)
           \/ DestroyDone(p))
  PROVE  UNCHANGED <<release, agents, bulkfile, imported>>
BY DEF Operation, Start, Stop, LoadToDeploy, LoadToTest, LoadToDestroy, LoadCluster,
       UseMachines, Save, SaveTorn, PrepareKubernetes, PrepareTerraform, Apply,
       ApplyFails, WriteChart, NoPods, ChooseBulkLoad, RunTests, Remove, outside

LEMMA ServedStep ==
  ASSUME Typed, Honest, ~overlapped, Served, \A r \in Process : Entitled(r) /\ Accounted(r),
         NEW p \in Process, Operation(p), ~broken'
  PROVE  Served'
<1>a. ~(HelmFails(p) \/ DestroyFails(p))
  BY BrokenStays
<1>b. ASSUME ~HelmDone(p), ~RestartTests(p), NEW q \in Process, Restarting(q)
      PROVE  Restarting(q)'
  <2>1. CASE q # p
    BY <1>b, <2>1, OthersStay DEF Restarting
  <2>2. CASE q = p
    <3>1. p \in ahead
      BY <1>b, <2>2 DEF Entitled
    <3>2. RestartApp(p)
      BY <1>b, <2>2, <3>1, RestartsGoOn
    <3> QED
      BY <2>2, <3>2 DEF RestartApp, Restarting, Go, Typed, ProcessesOK
  <2> QED
    BY <2>1, <2>2
<1>1. CASE HelmDone(p)
  <2>1. CASE copy[p].release
    <3>1. /\ UNCHANGED <<agents, bulkfile>> /\ at'[p] = "restart app"
      BY <1>1, <2>1 DEF HelmDone, Helm, Go, Typed, ProcessesOK
    <3>2. release' # Nothing
      BY <1>1, HelmDescribed DEF HelmDone
    <3> QED
      BY <3>1, <3>2 DEF Served, Restarting
  <2>2. CASE ~copy[p].release
    <3>1. release = Nothing /\ agents' = release' /\ UNCHANGED bulkfile
      BY <1>1, <2>2 DEF HelmDone, Helm
    <3> QED
      BY <3>1 DEF Served
  <2> QED
    BY <2>1, <2>2
<1>2. CASE RestartApp(p)
  <2>1. bulkfile' = Nothing /\ UNCHANGED <<release, agents>> /\ at'[p] = "restart tests"
    BY <1>2 DEF RestartApp, Go, Typed, ProcessesOK
  <2> QED
    BY <2>1 DEF Served, Restarting
<1>3. CASE RestartTests(p)
  <2>1. at[p] = "restart tests" /\ agents' = release /\ UNCHANGED <<release, bulkfile>>
    BY <1>3 DEF RestartTests
  <2> QED
    BY <2>1 DEF Served, Entitled
<1>4. CASE Generate(p)
  <2>1. bulkfile' = agents /\ UNCHANGED <<release, agents>> /\ ~HelmDone(p) /\ ~RestartTests(p)
    BY <1>4 DEF Generate, HelmDone, Helm, RestartTests
  <2> QED
    BY <1>b, <2>1 DEF Served
<1>5. CASE DestroyDone(p)
  <2>1. CASE Purge
    BY <2>1 DEF Purge, Served
  <2>2. CASE DestroyMachines
    <3>1. UNCHANGED <<release, agents, bulkfile>> /\ ~HelmDone(p) /\ ~RestartTests(p)
      BY <1>5, <2>2 DEF DestroyMachines, DestroyDone, Destroy, HelmDone, Helm, RestartTests
    <3> QED
      BY <1>b, <3>1 DEF Served
  <2> QED
    BY <1>5, <2>1, <2>2 DEF DestroyDone, Destroy
<1>6. CASE Import(p)
  <2>1. UNCHANGED <<release, agents, bulkfile>> /\ ~HelmDone(p) /\ ~RestartTests(p)
    BY <1>6 DEF Import, HelmDone, Helm, RestartTests
  <2> QED
    BY <1>b, <2>1 DEF Served
<1>7. CASE ~(HelmDone(p) \/ RestartApp(p) \/ RestartTests(p) \/ Generate(p) \/ Import(p)
             \/ DestroyDone(p))
  <2>1. UNCHANGED <<release, agents, bulkfile>>
    BY <1>a, <1>7, ServerUntouched
  <2> QED
    BY <1>b, <1>7, <2>1 DEF Served
<1> QED
  BY <1>1, <1>2, <1>3, <1>4, <1>5, <1>6, <1>7

(* Who is ahead of the file stays so until a step of its own.              *)
LEMMA OthersAhead ==
  ASSUME Typed, NEW p \in Process, Operation(p), NEW q \in ahead, q # p
  PROVE  q \in ahead'
BY DEF Operation, Start, Stop, LoadToDeploy, LoadToTest, LoadToDestroy, LoadCluster,
       UseMachines, Save, SaveTorn, PrepareKubernetes, PrepareTerraform, Apply,
       ApplyFails, WriteChart, HelmDone, HelmFails, Helm, RestartApp, RestartTests,
       NoPods, ChooseBulkLoad, Generate, Import, RunTests, DestroyDone,
       DestroyFails, Destroy, Remove

LEMMA OthersEntitled ==
  ASSUME Typed, Honest, ~overlapped, \A r \in Process : Entitled(r),
         NEW p \in Process, Operation(p), ~broken', NEW q \in Process, q # p
  PROVE  Entitled(q)'
<1>1. /\ at'[q] = at[q] /\ command'[q] = command[q] /\ copy'[q] = copy[q]
      /\ q \in ahead => q \in ahead'
  BY OthersStay, OthersAhead
<1>2. CASE at[q] = "idle"
  BY <1>1, <1>2 DEF Entitled, Restarting
<1>3. CASE at[q] # "idle"
  <2>1. at[p] = "idle" \/ (command[p].op = "loadtest" /\ command[q].op = "loadtest")
    BY <1>3 DEF Honest, Alone
  <2>2. at[p] = "idle" => UNCHANGED <<release, agents, imported, bulkfile>>
    BY DEF Operation, Start, Stop, LoadToDeploy, LoadToTest, LoadToDestroy, LoadCluster,
           UseMachines, Save, SaveTorn, PrepareKubernetes, PrepareTerraform, Apply,
           ApplyFails, WriteChart, HelmDone, HelmFails, Helm, RestartApp, RestartTests,
           NoPods, ChooseBulkLoad, Generate, Import, RunTests, DestroyDone,
           DestroyFails, Destroy, Remove, outside
  <2>3. command[p].op = "loadtest" /\ at[p] # "idle" =>
          UNCHANGED <<release, agents>> /\ imported \subseteq imported'
    <3>1. command[p].op = "loadtest" /\ at[p] # "idle" =>
            at[p] \notin {"prepare", "apply", "chart", "helm", "restart app",
                          "restart tests", "destroy", "remove"}
      BY DEF Typed, ProcessesOK, Fitting
    <3> QED
      BY <3>1 DEF Operation, Start, Stop, LoadToDeploy, LoadToTest, LoadToDestroy, LoadCluster,
           UseMachines, Save, SaveTorn, PrepareKubernetes, PrepareTerraform, Apply,
           ApplyFails, WriteChart, HelmDone, HelmFails, Helm, RestartApp, RestartTests,
           NoPods, ChooseBulkLoad, Generate, Import, RunTests, DestroyDone,
           DestroyFails, Destroy, Remove, outside
  <2>4. command[q].op = "loadtest" => at[q] \notin {"chart", "helm", "restart app",
                                                   "restart tests"}
    BY DEF Typed, ProcessesOK, Fitting
  <2>5. UNCHANGED <<release, agents>> /\ imported \subseteq imported'
    BY <2>1, <2>2, <2>3
  <2>6. Backed(copy[q]) => Backed(copy[q])'
    BY <1>1, <2>5 DEF Backed
  <2>7. at[q] = "restart tests" => UNCHANGED bulkfile
    BY <2>1, <2>2, <2>4
  <2> QED
    BY <1>1, <2>5, <2>6, <2>7 DEF Entitled, Restarting
<1> QED
  BY <1>2, <1>3

(* What deploy records of a new chart is backed by the data of the one     *)
(* before it, for the standard one of the same number of users.            *)
LEMMA RecordedBacked ==
  ASSUME Typed, NEW p \in Process, RestartTests(p), Entitled(p), Accounted(p)
  PROVE  Recorded(p).complete =>
           release \in imported \/ (release = Custom /\ Recorded(p).users # 0)
<1>1. at[p] = "restart tests"
  BY DEF RestartTests
<1>2. /\ Recorded(p).complete => copy[p].complete /\ copy[p].profile = "standard"
                                 /\ copy[p].users = command[p].users
      /\ Recorded(p).users = command[p].users
      /\ Recorded(p).profile = "standard" <=> ~command[p].helmConfig
  BY DEF Recorded
<1>3. /\ copy[p].complete /\ copy[p].profile = "standard" => Standard(copy[p].users) \in imported
      /\ command[p].helmConfig => release = Custom
      /\ Recorded(p).profile = "standard" => release = Standard(command[p].users)
  BY <1>1, <1>2 DEF Entitled, Restarting, Accounted, Describes
<1>4. ASSUME Standard(command[p].users) \in imported
      PROVE  command[p].users # 0
  <2>1. Standard(command[p].users) \in Chart
    BY <1>4 DEF Typed, RestOK
  <2>2. \A n \in {0} : Standard(n) \notin Chart
    BY ClusterOpsAssumption DEF Chart, Standard, Custom
  <2> QED
    BY <2>1, <2>2
<1> QED
  BY <1>2, <1>3, <1>4

LEMMA OwnEntitled ==
  ASSUME Typed, Honest, ~overlapped, Served, BackedFile, FileOK,
         \A r \in Process : Entitled(r) /\ Accounted(r),
         NEW p \in Process, Operation(p), ~broken'
  PROVE  Entitled(p)'
<1>a. Entitled(p) /\ Accounted(p) /\ KnowsWell(p)
  BY DEF Honest
<1>b. at'[p] \in {"idle", "load", "prepare", "machines", "run", "destroy", "remove"}
        => Entitled(p)'
  BY DEF Entitled, Restarting
<1>c. ~copy'[p].complete /\ at'[p] \in {"apply", "save"} => Entitled(p)'
  BY DEF Entitled, Restarting, Backed
<1>d. Backed(copy[p])' /\ at'[p] \in {"apply", "pods", "generate", "import", "save"}
        => Entitled(p)'
  BY DEF Entitled, Restarting
<1>1. CASE Start(p)
  BY <1>1, <1>b DEF Start, Go, Typed, ProcessesOK
<1>2. CASE Stop(p) \/ UseMachines(p) \/ NoPods(p) \/ RunTests(p) \/ Remove(p)
  <2>1. Return(p)
    BY <1>2 DEF Stop, UseMachines, NoPods, RunTests, Remove
  <2> QED
    BY <1>b, <2>1, ReturnForgets
<1>3. CASE LoadToTest(p)
  <2>1. /\ at[p] = "load" /\ HasRecord /\ copy'[p] = info /\ UNCHANGED <<agents, imported>>
        /\ at'[p] \in {"pods", "machines"}
    BY <1>3 DEF LoadToTest, LoadCluster, HasRecord, outside, Go, Typed, ProcessesOK
  <2>2. p \notin ahead
    BY <1>a, <2>1 DEF Accounted
  <2>3. Backed(copy[p])'
    BY <2>1, <2>2, NobodyAhead DEF BackedFile, Backed
  <2> QED
    BY <1>b, <1>d, <2>1, <2>3
<1>4. CASE LoadToDeploy(p)
  <2>1. /\ at[p] = "load" /\ HasRecord /\ copy'[p] = info
        /\ UNCHANGED <<release, agents, imported>> /\ at'[p] \in {"chart", "machines"}
    BY <1>4 DEF LoadToDeploy, LoadCluster, HasRecord, outside, Go, Typed, ProcessesOK
  <2>2. p \notin ahead
    BY <1>a, <2>1 DEF Accounted
  <2>3. ahead = {}
    BY <2>1, <2>2, NobodyAhead
  <2>4. Describes(info) /\ Backed(info) /\ release = agents
    BY <2>1, <2>3 DEF FileOK, HasRecord, BackedFile, Served, Entitled
  <2>5. info.users \in {0} \union UserCounts
    BY <2>1 DEF HasRecord, Typed, RestOK, Cluster
  <2>6. \A n \in {0} \union UserCounts : Standard(n) # Custom
    BY ClusterOpsAssumption DEF Standard, Custom
  <2>7. info.complete /\ info.profile = "standard" => Standard(info.users) \in imported
    BY <2>4, <2>5, <2>6 DEF Describes, Backed
  <2> QED
    BY <1>b, <2>1, <2>7 DEF Entitled, Restarting
<1>5. CASE LoadToDestroy(p)
  BY <1>5, <1>b DEF LoadToDestroy, LoadCluster, Go, Typed, ProcessesOK
<1>6. CASE PrepareKubernetes(p) \/ PrepareTerraform(p)
  <2>1. PICK t \in {"kubernetes", "terraform"}, k \in Int : copy'[p] = NewCluster(t, k)
    BY <1>6 DEF PrepareKubernetes, PrepareTerraform, Typed, ProcessesOK, RestOK
  <2>2. at'[p] \in {"save", "apply"}
    BY <1>6 DEF PrepareKubernetes, PrepareTerraform, Go, Typed, ProcessesOK
  <2>3. ~copy'[p].complete
    <3>1. NewCluster(t, k).complete = FALSE
      BY DEF NewCluster
    <3> QED
      BY <2>1, <3>1
  <2> QED
    BY <1>c, <2>2, <2>3
<1>7. CASE Apply(p) \/ ChooseBulkLoad(p) \/ Generate(p)
  <2>1. /\ at[p] \in {"apply", "pods", "generate"} /\ UNCHANGED <<copy, agents, imported>>
        /\ at'[p] \in {"save", "run", "generate", "import"}
    BY <1>7 DEF Apply, ChooseBulkLoad, Generate, outside, Go, Typed, ProcessesOK
  <2>2. Backed(copy[p])'
    BY <1>a, <2>1 DEF Entitled, Backed
  <2> QED
    BY <1>b, <1>d, <2>1, <2>2
<1>8. CASE WriteChart(p)
  <2>1. /\ at[p] = "chart" /\ at'[p] = "helm" /\ UNCHANGED <<copy, imported>>
    BY <1>8 DEF WriteChart, outside, Go, Typed, ProcessesOK
  <2> QED
    BY <1>a, <2>1 DEF Entitled, Restarting
<1>9. CASE HelmDone(p)
  <2>1. at[p] = "helm" /\ p \in ahead'
    BY <1>9 DEF HelmDone, Helm
  <2>2. CASE copy[p].release
    <3>1. at'[p] = "restart app" /\ UNCHANGED <<copy, imported>>
      BY <1>9, <2>2 DEF HelmDone, Helm, Go, Typed, ProcessesOK
    <3>2. (command[p].helmConfig => release = Custom)'
      BY <1>9 DEF HelmDone, Helm
    <3>3. (copy[p].complete /\ copy[p].profile = "standard" =>
             Standard(copy[p].users) \in imported)'
      BY <1>a, <2>1, <3>1 DEF Entitled
    <3> QED
      BY <2>1, <3>1, <3>2, <3>3 DEF Entitled, Restarting
  <2>3. CASE ~copy[p].release
    <3>1. at'[p] = "save" /\ copy'[p] = Recorded(p) /\ ~copy[p].complete
      BY <1>9, <2>3, Installing DEF HelmDone, Installs, Go, Typed, ProcessesOK
    <3>2. ~Recorded(p).complete
      BY <2>1, <3>1, RecordedTyped
    <3> QED
      BY <1>c, <3>1, <3>2
  <2> QED
    BY <2>2, <2>3
<1>10. CASE RestartApp(p)
  <2>1. /\ at[p] = "restart app" /\ at'[p] = "restart tests" /\ bulkfile' = Nothing
        /\ UNCHANGED <<copy, command, release, imported, ahead>>
    BY <1>10 DEF RestartApp, Go, Typed, ProcessesOK
  <2> QED
    BY <1>a, <2>1 DEF Entitled, Restarting
<1>11. CASE RestartTests(p)
  <2>1. /\ at'[p] = "save" /\ copy'[p] = Recorded(p)
        /\ agents' = release /\ UNCHANGED imported
    BY <1>11 DEF RestartTests, Go, Typed, ProcessesOK
  <2>2. Backed(copy[p])'
    BY <1>a, <1>11, <2>1, RecordedBacked DEF Backed
  <2> QED
    BY <1>d, <2>1, <2>2
<1>12. CASE Import(p)
  <2>1. /\ at'[p] = "save" /\ bulkfile # Nothing /\ UNCHANGED agents
        /\ imported' = imported \union {bulkfile}
    BY <1>12 DEF Import, Go, Typed, ProcessesOK
  <2>2. Backed(copy[p])'
    BY <2>1 DEF Served, Backed
  <2> QED
    BY <1>d, <2>1, <2>2
<1>13. CASE Save(p)
  <2>1. at'[p] \in {"idle", "run"}
    BY <1>13, ReturnForgets DEF Save, Go, Typed, ProcessesOK
  <2> QED
    BY <1>b, <2>1
<1>14. CASE DestroyDone(p)
  BY <1>14, <1>b DEF DestroyDone, Go, Typed, ProcessesOK
<1> QED
  BY <1>1, <1>2, <1>3, <1>4, <1>5, <1>6, <1>7, <1>8, <1>9, <1>10, <1>11, <1>12, <1>13,
     <1>14, BrokenStays DEF Operation

LEMMA BackedFileStep ==
  ASSUME Typed, Honest, ~overlapped, BackedFile,
         \A r \in Process : Entitled(r) /\ Accounted(r), NEW p \in Process, Operation(p), ~broken'
  PROVE  BackedFile'
<1>a. Entitled(p) /\ ~(HelmFails(p) \/ DestroyFails(p) \/ SaveTorn(p))
  BY BrokenStays
<1>1. CASE Save(p)
  <2>1. at[p] = "save" /\ info' = copy[p] /\ UNCHANGED <<agents, imported>>
    BY <1>1 DEF Save, outside
  <2> QED
    BY <1>a, <2>1 DEF BackedFile, Entitled, Backed
<1>2. CASE Remove(p)
  BY <1>2 DEF Remove, BackedFile, HasRecord
<1>3. CASE HelmDone(p) \/ DestroyDone(p) \/ Apply(p)
  BY <1>3 DEF HelmDone, DestroyDone, Apply, BackedFile
<1>4. CASE RestartTests(p)
  BY <1>4, <1>a DEF RestartTests, Entitled, Restarting, BackedFile
<1>5. CASE ~(Save(p) \/ Remove(p) \/ HelmDone(p) \/ DestroyDone(p) \/ Apply(p)
             \/ RestartTests(p))
  <2>1. UNCHANGED <<info, agents>> /\ imported \subseteq imported'
    BY <1>5, <1>a DEF Operation, Start, Stop, LoadToDeploy, LoadToTest, LoadToDestroy,
           LoadCluster, UseMachines, PrepareKubernetes, PrepareTerraform, ApplyFails, WriteChart,
           RestartApp, NoPods, ChooseBulkLoad, Generate, Import, RunTests, outside
  <2>2. ahead' = {} => ahead = {}
    <3>1. CASE Stop(p)
      <4>1. p \notin ahead /\ ahead' = ahead \ {p}
        BY <1>5, <3>1 DEF Stop
      <4> QED
        BY <4>1
    <3>2. CASE ~Stop(p)
      BY <1>5, <1>a, <3>2 DEF Operation, Start, LoadToDeploy, LoadToTest, LoadToDestroy,
           LoadCluster, UseMachines, PrepareKubernetes, PrepareTerraform, ApplyFails, WriteChart,
           RestartApp, NoPods, ChooseBulkLoad, Generate, Import, RunTests
    <3> QED
      BY <3>1, <3>2
  <2> QED
    BY <2>1, <2>2 DEF BackedFile, HasRecord, Backed
<1> QED
  BY <1>1, <1>2, <1>3, <1>4, <1>5

(* A bulk load is recorded only of the data the agents read, unless a      *)
(* custom chart was deployed with a number of users.                       *)
THEOREM RecordIsRight == Spec => []BulkLoadRecorded
<1>1. Init => AllBacked
  BY DEF Init, AllBacked, Served, BackedFile, HasRecord, Entitled, Restarting
<1>2. ASSUME Typed, Honest /\ Faithful, AllBacked, [Next]_vars
      PROVE  AllBacked'
  <2>1. CASE Next
    <3>1. PICK p \in Process : Operation(p)
      BY <2>1 DEF Next
    <3>2. SUFFICES ASSUME ~broken', ~overlapped'
                   PROVE  (Served /\ BackedFile /\ \A q \in Process : Entitled(q))'
      BY DEF AllBacked
    <3>3. ~broken /\ ~overlapped
      BY <1>2, <3>1, <3>2, BrokenStays, AloneStep
    <3>4. FileOK /\ Served /\ BackedFile /\ \A q \in Process : Entitled(q) /\ Accounted(q)
      BY <1>2, <3>3 DEF Faithful, AllBacked
    <3>5. Served'
      BY <1>2, <3>1, <3>2, <3>3, <3>4, ServedStep
    <3>6. BackedFile'
      BY <1>2, <3>1, <3>2, <3>3, <3>4, BackedFileStep
    <3>7. ASSUME NEW q \in Process
          PROVE  Entitled(q)'
      <4>1. CASE q = p
        BY <1>2, <3>1, <3>2, <3>3, <3>4, <4>1, OwnEntitled
      <4>2. CASE q # p
        BY <1>2, <3>1, <3>2, <3>3, <3>4, <4>2, OthersEntitled
      <4> QED
        BY <4>1, <4>2
    <3> QED
      BY <3>5, <3>6, <3>7
  <2>2. CASE UNCHANGED vars
    <3>1. UNCHANGED <<info, command, at, copy, release, agents, bulkfile, imported, ahead,
                      broken, overlapped>>
      BY <2>2 DEF vars, outside, history
    <3>2. (Served' <=> Served) /\ (BackedFile' <=> BackedFile)
      BY <3>1 DEF Served, Restarting, BackedFile, HasRecord, Backed
    <3>3. \A q \in Process : Entitled(q)' <=> Entitled(q)
      BY <3>1 DEF Entitled, Restarting, Backed
    <3> QED
      BY <1>2, <3>1, <3>2, <3>3 DEF AllBacked
  <2> QED
    BY <1>2, <2>1, <2>2
<1>3. Typed /\ Faithful /\ AllBacked => BulkLoadRecorded
  BY DEF AllBacked, BackedFile, Backed, BulkLoadRecorded
<1> QED
  BY <1>1, <1>2, <1>3, StaysFaithful, StaysTyped, PTL DEF Spec

=============================================================================
