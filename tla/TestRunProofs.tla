---------------------------- MODULE TestRunProofs ----------------------------
(***************************************************************************)
(* Proofs about TestRun: the wait group counts the live goroutines of the  *)
(* entities, RunTest joins them all unless a timeout or a recovered panic  *)
(* intervenes, and so no other panic of theirs ends the process.  A success *)
(* that was sent is in the channel, among the results, or in the log.      *)
(***************************************************************************)
EXTENDS TestRun, FiniteSetTheorems, TLAPS

USE TestRunAssumption

(* The types of all variables but the wait group, whose range follows from *)
(* what it counts.                                                         *)
Typed ==
  /\ main \in {"launch", "run", "entities", "monitors", "returned"}
  /\ launched \in 0 .. NumEntities
  /\ stopEntity \in BOOLEAN
  /\ waiter \in {"off", "start", "asleep", "woken", "gone"}
  /\ pc \in [Goroutine -> Location]
  /\ retries \in [Entity -> 0 .. MaxRetries + 1]
  /\ reports \in Seq(Outcome) /\ Len(reports) <= ChanCapacity
  /\ closed \in BOOLEAN
  /\ monitor \in {"receive", "done"}
  /\ stats \in [Outcome -> Nat] /\ stats["ok"] <= MaxResults
  /\ logged \in [Outcome -> Nat]
  /\ sent \in [Outcome -> Nat]
  /\ calls \in 0 .. MaxCalls
  /\ timedOut \in BOOLEAN
  /\ recovered \in BOOLEAN
  /\ dead \in BOOLEAN

(* Only the goroutines of entities launched have started.                  *)
LaunchedOnly == \A g \in Entities : pc[g] # "off" <=> g[1] <= launched

(* RunTest waits, and closes the channel, when all entities are launched.  *)
Phases ==
  /\ main \in {"launch", "run"} => waiter = "off" /\ ~ closed
  /\ waiter # "off" \/ closed \/ main \in {"run", "entities"} => launched = NumEntities

(* Only an actor or a poller is ever between its Done and its Add.         *)
Recoveries ==
  \A g \in Goroutine : pc[g] = "recover" => recovered /\ g[2] \in Recovering

(* The waiter wakes when nobody is alive, which only a recovery changes.   *)
Joined == waiter \in {"woken", "gone"} /\ ~ recovered => LiveEntities = {}

ClosedAfterWait == closed /\ ~ timedOut => waiter = "gone"

-----------------------------------------------------------------------------
(* How a step of one goroutine changes the set of those that are alive.    *)

(* There are finitely many goroutines to wait for.                         *)
LEMMA EntitiesFinite ==
  /\ IsFiniteSet(Counted)
  /\ IsFiniteSet(Entities)
<1>1. IsFiniteSet({"actor"}) /\ IsFiniteSet({"poller"}) /\ IsFiniteSet({"listener"})
  BY FS_Singleton
<1>2. IsFiniteSet(Recovering)
  <2>1. IsFiniteSet({})
    BY FS_EmptySet
  <2> QED
    BY <1>1, <2>1, FS_Union DEF Recovering
<1>3. IsFiniteSet(Counted)
  BY <1>1, <1>2, FS_Union DEF Counted
<1>4. IsFiniteSet(Entity)
  BY FS_Interval DEF Entity
<1> QED
  BY <1>3, <1>4, FS_Product DEF Entities

(* So the live ones are counted by a number that is bounded.               *)
LEMMA LiveFinite ==
  /\ IsFiniteSet(LiveEntities)
  /\ Cardinality(LiveEntities) \in 0 .. Cardinality(Entities)
<1>1. LiveEntities \in SUBSET Entities
  BY DEF LiveEntities
<1> QED
  BY <1>1, EntitiesFinite, FS_Subset, FS_CardinalityType

(* One that goes from life to life, or is not of the wait group, changes   *)
(* nothing.                                                                *)
LEMMA StaysLive ==
  ASSUME Typed, NEW g \in Goroutine, NEW l \in Location, Goto(g, l),
         (pc[g] \in Live /\ l \in Live) \/ g \notin Entities
  PROVE  LiveEntities' = LiveEntities
  BY DEF Typed, Goto, LiveEntities, Entities, Goroutine

(* One that ends, by returning or by a panic, is counted off.              *)
LEMMA EndsLive ==
  ASSUME Typed, WaitGroupCounts, NEW g \in Entities, NEW l \in Location,
         pc[g] \in Live, l \notin Live, Goto(g, l), Done
  PROVE  /\ WaitGroupCounts'
         /\ LiveEntities' = LiveEntities \ {g}
         /\ waitEntity = 1 => LiveEntities' = {}
         /\ waitEntity # 1 => waiter' = waiter
         /\ waiter' = waiter \/ (waiter = "asleep" /\ waiter' = "woken" /\ waitEntity = 1)
<1>1. LiveEntities' = LiveEntities \ {g}
  BY DEF Typed, Goto, LiveEntities, Entities, Goroutine
<1>2. g \in LiveEntities
  BY DEF LiveEntities
<1>3. Cardinality(LiveEntities \ {g}) = Cardinality(LiveEntities) - 1
  BY <1>2, LiveFinite, FS_RemoveElement
<1>4. WaitGroupCounts'
  BY <1>1, <1>3 DEF WaitGroupCounts, Done
<1>5. IsFiniteSet(LiveEntities \ {g})
  BY LiveFinite, FS_RemoveElement
<1>6. waitEntity = 1 => LiveEntities \ {g} = {}
  BY <1>3, <1>5, FS_EmptySet DEF WaitGroupCounts
<1> QED
  BY <1>1, <1>4, <1>6 DEF Done

(* One that is started anew is counted again.                              *)
LEMMA BeginsLive ==
  ASSUME Typed, WaitGroupCounts, NEW g \in Entities, NEW l \in Live,
         pc[g] \notin Live, Goto(g, l), waitEntity' = waitEntity + 1
  PROVE  WaitGroupCounts'
<1>1. LiveEntities' = LiveEntities \union {g}
  BY DEF Typed, Goto, LiveEntities, Entities, Goroutine
<1>2. g \notin LiveEntities
  BY DEF LiveEntities
<1>3. Cardinality(LiveEntities \union {g}) = Cardinality(LiveEntities) + 1
  BY <1>2, LiveFinite, FS_AddElement
<1> QED
  BY <1>1, <1>3 DEF WaitGroupCounts

(* All the goroutines of a new entity are counted.                         *)
LEMMA LaunchCounts ==
  ASSUME Typed, WaitGroupCounts, LaunchedOnly, Launch
  PROVE  WaitGroupCounts'
<1> DEFINE new == {launched + 1} \X Counted
<1>1. launched + 1 \in Entity /\ launched' = launched + 1
  BY DEF Launch, Typed, Entity
<1>2. LiveEntities' = LiveEntities \union new
  <2>1. ASSUME NEW g \in Entities
        PROVE  pc'[g] = IF g[1] # launched + 1 THEN pc[g]
                        ELSE IF g[2] = "listener" THEN "start" ELSE "idle"
    <3>1. g \in Goroutine /\ (g \in new <=> g[1] = launched + 1)
      BY DEF Entities, Goroutine
    <3> QED
      BY <3>1 DEF Launch
  <2>2. ASSUME NEW g \in Entities
        PROVE  (pc'[g] \in Live) <=> (pc[g] \in Live \/ g[1] = launched + 1)
    <3>1. g[1] = launched + 1 => pc'[g] \in Live
      BY <2>1 DEF Live
    <3> QED
      BY <2>1, <3>1
  <2>3. new = {g \in Entities : g[1] = launched + 1}
    BY <1>1 DEF Entities
  <2>4. LiveEntities' = {g \in Entities : pc'[g] \in Live}
    BY DEF LiveEntities
  <2> QED
    BY <2>2, <2>3, <2>4 DEF LiveEntities
<1>3. LiveEntities \intersect new = {}
  <2> SUFFICES ASSUME NEW g \in LiveEntities, g \in new
               PROVE  FALSE
    OBVIOUS
  <2>1. g \in Entities /\ g[1] = launched + 1 /\ pc[g] # "off"
    BY DEF LiveEntities, Live, Outcome
  <2> QED
    BY <2>1 DEF LaunchedOnly, Typed
<1>4. IsFiniteSet(new) /\ Cardinality(new) = Cardinality(Counted)
  <2>1. IsFiniteSet({launched + 1}) /\ Cardinality({launched + 1}) = 1
    BY FS_Singleton
  <2>2. Cardinality(Counted) \in Nat
    BY EntitiesFinite, FS_CardinalityType
  <2>3. /\ IsFiniteSet({launched + 1} \X Counted)
        /\ Cardinality({launched + 1} \X Counted) =
             Cardinality({launched + 1}) * Cardinality(Counted)
    BY <2>1, EntitiesFinite, FS_Product
  <2> QED
    BY <2>1, <2>2, <2>3
<1>5. Cardinality(LiveEntities \union new) =
        Cardinality(LiveEntities) + Cardinality(new) - 0
  BY <1>3, <1>4, LiveFinite, FS_Union, FS_EmptySet
<1>6. Cardinality(new) \in Nat /\ Cardinality(LiveEntities) \in Nat
  BY <1>4, LiveFinite, FS_CardinalityType
<1> HIDE DEF new
<1> QED
  BY <1>2, <1>4, <1>5, <1>6 DEF WaitGroupCounts, Launch

-----------------------------------------------------------------------------
(* The inductive invariant.                                                *)

IInv ==
  /\ Typed
  /\ WaitGroupCounts
  /\ LaunchedOnly
  /\ Phases
  /\ Recoveries
  /\ Joined
  /\ ClosedAfterWait
  /\ PanicsExplained

(* Every step of RunTest, of a goroutine or of the monitor keeps the types. *)
LEMMA TypedStep == Typed /\ [Next]_vars => Typed'
<1> SUFFICES ASSUME Typed, [Next]_vars
             PROVE  Typed'
  OBVIOUS
<1> USE DEF Typed, waiting, collected, Goto, Location, Live, Outcome
<1>1. CASE Launch
  <2>1. launched' \in 0 .. NumEntities
    BY <1>1 DEF Launch
  <2>2. pc' \in [Goroutine -> Location]
    BY <1>1 DEF Launch
  <2> QED
    BY <1>1, <2>1, <2>2 DEF Launch
<1>2. CASE InterruptLaunch
  BY <1>2 DEF InterruptLaunch
<1>3. CASE AllLaunched
  BY <1>3 DEF AllLaunched
<1>4. CASE EndTest
  BY <1>4 DEF EndTest
<1>5. CASE Wait
  BY <1>5 DEF Wait
<1>6. CASE WaiterRuns
  BY <1>6 DEF WaiterRuns
<1>7. CASE EntitiesStopped
  BY <1>7 DEF EntitiesStopped
<1>8. CASE MonitorStopped
  BY <1>8 DEF MonitorStopped
<1>9. ASSUME NEW g \in Goroutine, Stop(g)
      PROVE  Typed'
  BY <1>9 DEF Stop, Done
<1>10. ASSUME NEW g \in Goroutine, Act(g)
       PROVE  Typed'
  BY <1>10 DEF Act
<1>11. ASSUME NEW g \in Goroutine, Answer(g)
       PROVE  Typed'
  BY <1>11 DEF Answer
<1>12. ASSUME NEW g \in Goroutine, Report(g)
       PROVE  Typed'
  <2>1. reports' \in Seq(Outcome) /\ Len(reports') <= ChanCapacity
    BY <1>12 DEF Report
  <2>2. sent' \in [Outcome -> Nat]
    BY <1>12 DEF Report
  <2>3. pc' \in [Goroutine -> Location]
    BY <1>12 DEF Report
  <2> QED
    BY <1>12, <2>1, <2>2, <2>3 DEF Report
<1>13. ASSUME NEW g \in Goroutine, ReportPanics(g) \/ ActionPanics(g)
       PROVE  Typed'
  <2>1. Panic(g)
    BY <1>13 DEF ReportPanics, ActionPanics
  <2>2. CASE g[2] \in Recovering
    <3>1. Goto(g, "recover") /\ Done /\ recovered' = TRUE /\ UNCHANGED dead
      BY <2>1, <2>2 DEF Panic
    <3>2. pc' \in [Goroutine -> Location]
      BY <3>1 DEF Goto, Location, Live
    <3> QED
      BY <2>1, <3>1, <3>2 DEF Panic, Done
  <2>3. CASE g[2] \notin Recovering
    BY <2>1, <2>3 DEF Panic
  <2> QED
    BY <2>2, <2>3
<1>14. ASSUME NEW g \in Goroutine, Restart(g)
       PROVE  Typed'
  BY <1>14 DEF Restart
<1>15. ASSUME NEW e \in Entity, Search(e)
       PROVE  Typed'
  <2>1. calls' \in 0 .. MaxCalls
    BY <1>15 DEF Search
  <2>2. pc' \in [Goroutine -> Location]
    BY <1>15 DEF Search
  <2> QED
    BY <1>15, <2>1, <2>2 DEF Search
<1>16. ASSUME NEW e \in Entity, Listen(e)
       PROVE  Typed'
  <2>1. calls' \in 0 .. MaxCalls
    BY <1>16 DEF Listen
  <2>2. pc' \in [Goroutine -> Location]
    BY <1>16 DEF Listen
  <2> QED
    BY <1>16, <2>1, <2>2 DEF Listen
<1>17. ASSUME NEW e \in Entity, Disconnect(e)
       PROVE  Typed'
  <2>1. <<e, "listener">> \in Goroutine /\ Goto(<<e, "listener">>, "backoff")
    BY <1>17 DEF Disconnect, Goroutine, Counted
  <2>2. pc' \in [Goroutine -> Location]
    BY <2>1
  <2> QED
    BY <1>17, <2>2 DEF Disconnect
<1>18. ASSUME NEW e \in Entity, ConnectFails(e)
       PROVE  Typed'
  BY <1>18 DEF ConnectFails
<1>19. ASSUME NEW e \in Entity, GiveUp(e)
       PROVE  Typed'
  BY <1>19 DEF GiveUp, Done
<1>20. CASE Receive
  <2> DEFINE added == [stats EXCEPT ![Head(reports)] = @ + 1]
  <2>1. Head(reports) \in Outcome /\ Tail(reports) \in Seq(Outcome)
    BY <1>20 DEF Receive
  <2>2. added \in [Outcome -> Nat]
    BY <2>1
  <2>3. /\ reports' = Tail(reports)
        /\ IF CountResults(added) > MaxResults
             THEN Log(added) /\ stats' = Nothing
             ELSE stats' = added /\ UNCHANGED logged
        /\ UNCHANGED <<main, launched, waiter, monitor, stopEntity, waitEntity, pc,
                       retries, closed, sent, calls, timedOut, recovered, dead>>
    BY <1>20 DEF Receive
  <2> HIDE DEF added
  <2>4. stats' \in [Outcome -> Nat] /\ stats'["ok"] <= MaxResults
    BY <2>2, <2>3 DEF CountResults, Nothing
  <2>5. logged' \in [Outcome -> Nat]
    BY <2>2, <2>3 DEF Log
  <2>6. Len(Tail(reports)) <= ChanCapacity
    BY <1>20 DEF Receive
  <2> QED
    BY <2>1, <2>3, <2>4, <2>5, <2>6
<1>21. CASE EndMonitor
  BY <1>21 DEF EndMonitor, Log, CountResults, Nothing
<1>22. CASE UNCHANGED vars
  BY <1>22 DEF vars
<1> QED
  BY <1>1, <1>2, <1>3, <1>4, <1>5, <1>6, <1>7, <1>8, <1>9, <1>10, <1>11, <1>12,
     <1>13, <1>14, <1>15, <1>16, <1>17, <1>18, <1>19, <1>20, <1>21, <1>22
  DEF Next, Shutdown

-----------------------------------------------------------------------------
(* Of a step that leaves the goroutines alone.                             *)
LEMMA QuietStep ==
  ASSUME IInv, UNCHANGED <<pc, waitEntity>>
  PROVE  /\ LiveEntities' = LiveEntities
         /\ WaitGroupCounts'
         /\ launched' = launched => LaunchedOnly'
         /\ recovered' = recovered => Recoveries'
  BY DEF IInv, LiveEntities, WaitGroupCounts, LaunchedOnly, Recoveries

(* Of a step of one goroutine that lives on, or of a search.               *)
LEMMA LivingStep ==
  ASSUME IInv, NEW g \in Goroutine, NEW l \in Location, Goto(g, l), Running,
         (pc[g] \in Live /\ l \in Live) \/ g \notin Entities, l # "recover",
         UNCHANGED <<main, launched, waiter, waitEntity, closed, timedOut, recovered, dead>>
  PROVE  /\ WaitGroupCounts' /\ LaunchedOnly' /\ Phases' /\ Recoveries'
         /\ Joined' /\ ClosedAfterWait' /\ PanicsExplained'
<1>1. LiveEntities' = LiveEntities
  BY StaysLive DEF IInv
<1>2. /\ pc' = [pc EXCEPT ![g] = l]
      /\ \A h \in Goroutine : h # g => pc'[h] = pc[h]
      /\ pc'[g] = l
  BY DEF IInv, Typed, Goto
<1>3. WaitGroupCounts' /\ Joined'
  BY <1>1 DEF IInv, WaitGroupCounts, Joined
<1>4. LaunchedOnly'
  <2>1. g \in Entities => pc[g] # "off" /\ l # "off"
    BY DEF Live, Outcome
  <2>2. Entities \subseteq Goroutine
    BY DEF Entities, Goroutine
  <2> QED
    BY <1>2, <2>1, <2>2 DEF IInv, LaunchedOnly
<1>5. Recoveries'
  BY <1>2 DEF IInv, Recoveries
<1>6. Phases' /\ ClosedAfterWait' /\ PanicsExplained'
  BY DEF IInv, Phases, ClosedAfterWait, PanicsExplained, Running
<1> QED
  BY <1>3, <1>4, <1>5, <1>6

(* Of a step that ends a goroutine.                                        *)
LEMMA EndingStep ==
  ASSUME IInv, NEW g \in Entities, NEW l \in {"done", "recover"}, Goto(g, l),
         pc[g] \in Live, Done, Running,
         l = "recover" => g[2] \in Recovering /\ recovered',
         l = "done" => recovered' = recovered,
         UNCHANGED <<main, launched, closed, timedOut, dead>>
  PROVE  /\ WaitGroupCounts' /\ LaunchedOnly' /\ Phases' /\ Recoveries'
         /\ Joined' /\ ClosedAfterWait' /\ PanicsExplained'
<1>1. l \in Location /\ l \notin Live /\ g \in Goroutine
  BY DEF Location, Live, Outcome, Entities, Goroutine
<1>2. /\ WaitGroupCounts'
      /\ LiveEntities' = LiveEntities \ {g}
      /\ waitEntity = 1 => LiveEntities' = {}
      /\ waiter' = waiter \/ (waiter = "asleep" /\ waiter' = "woken" /\ waitEntity = 1)
  BY <1>1, EndsLive DEF IInv
<1>3. /\ \A h \in Goroutine : h # g => pc'[h] = pc[h]
      /\ pc'[g] = l
  BY <1>1 DEF IInv, Typed, Goto
<1>4. LaunchedOnly'
  <2>1. pc[g] # "off" /\ l # "off"
    BY DEF Live, Outcome
  <2>2. Entities \subseteq Goroutine
    BY DEF Entities, Goroutine
  <2> QED
    BY <1>3, <2>1, <2>2 DEF IInv, LaunchedOnly
<1>5. Recoveries'
  BY <1>3 DEF IInv, Recoveries, Typed
<1>6. Joined'
  <2> SUFFICES ASSUME waiter' \in {"woken", "gone"}, ~ recovered'
               PROVE  LiveEntities' = {}
    BY DEF Joined
  <2>1. CASE waiter' = waiter
    BY <1>2, <2>1 DEF IInv, Joined, Typed
  <2>2. CASE waiter' # waiter
    BY <1>2, <2>2
  <2> QED
    BY <2>1, <2>2
<1>7. Phases' /\ ClosedAfterWait' /\ PanicsExplained'
  BY <1>2 DEF IInv, Phases, ClosedAfterWait, PanicsExplained, Running
<1> QED
  BY <1>2, <1>4, <1>5, <1>6, <1>7

(* Every step keeps the inductive invariant.                               *)
LEMMA IInvInductive == IInv /\ [Next]_vars => IInv'
<1> SUFFICES ASSUME IInv, [Next]_vars
             PROVE  IInv'
  OBVIOUS
<1>t. Typed /\ Typed'
  BY TypedStep DEF IInv
<1> DEFINE Rest == /\ WaitGroupCounts /\ LaunchedOnly /\ Phases /\ Recoveries
                   /\ Joined /\ ClosedAfterWait /\ PanicsExplained
<1> SUFFICES Rest'
  BY <1>t DEF IInv
<1>s. Entities \subseteq Goroutine
  BY DEF Entities, Goroutine
<1>1. CASE Launch
  <2>1. WaitGroupCounts'
    BY <1>1, LaunchCounts DEF IInv
  <2>2. LaunchedOnly'
    <3> SUFFICES ASSUME NEW g \in Entities
                 PROVE  pc'[g] # "off" <=> g[1] <= launched'
      BY DEF LaunchedOnly
    <3>1. /\ launched' = launched + 1
          /\ pc'[g] = IF g \notin {launched + 1} \X Counted THEN pc[g]
                      ELSE IF g[2] = "listener" THEN "start" ELSE "idle"
      BY <1>1, <1>s DEF Launch
    <3>2. g \in {launched + 1} \X Counted <=> g[1] = launched + 1
      BY DEF Entities
    <3>3. g[1] \in Nat /\ launched \in Nat
      BY <1>t DEF Entities, Entity, Typed
    <3>4. pc[g] # "off" <=> g[1] <= launched
      BY DEF IInv, LaunchedOnly
    <3> QED
      BY <3>1, <3>2, <3>3, <3>4
  <2>3. Phases'
    BY <1>1 DEF Launch, IInv, Phases
  <2>4. Recoveries'
    BY <1>1 DEF Launch, IInv, Recoveries
  <2>5. Joined' /\ ClosedAfterWait'
    BY <1>1 DEF Launch, IInv, Phases, Joined, ClosedAfterWait
  <2>6. PanicsExplained'
    BY <1>1 DEF Launch, Running, PanicsExplained
  <2> QED
    BY <2>1, <2>2, <2>3, <2>4, <2>5, <2>6
<1>2. CASE InterruptLaunch
  BY <1>2, QuietStep DEF InterruptLaunch, Running, IInv, Phases, Joined, ClosedAfterWait, PanicsExplained, collected
<1>3. CASE AllLaunched
  BY <1>3, QuietStep DEF AllLaunched, Running, IInv, Phases, Joined, ClosedAfterWait, PanicsExplained, collected
<1>4. CASE EndTest
  BY <1>4, QuietStep DEF EndTest, Running, IInv, Phases, Joined, ClosedAfterWait, PanicsExplained, collected
<1>5. CASE Wait
  <2>1. LiveEntities' = LiveEntities /\ WaitGroupCounts' /\ LaunchedOnly' /\ Recoveries'
    BY <1>5, QuietStep DEF Wait
  <2>2. Joined'
    <3>1. waitEntity = 0 => LiveEntities = {}
      BY LiveFinite, FS_EmptySet DEF IInv, WaitGroupCounts
    <3> QED
      BY <1>5, <2>1, <3>1 DEF Wait, Joined
  <2>3. Phases' /\ ClosedAfterWait' /\ PanicsExplained'
    BY <1>5 DEF Wait, Running, IInv, Phases, ClosedAfterWait, PanicsExplained
  <2> QED
    BY <2>1, <2>2, <2>3
<1>6. CASE WaiterRuns
  <2>1. LiveEntities' = LiveEntities /\ WaitGroupCounts' /\ LaunchedOnly' /\ Recoveries'
    BY <1>6, QuietStep DEF WaiterRuns
  <2>2. Phases' /\ Joined' /\ ClosedAfterWait'
    BY <1>6, <2>1 DEF WaiterRuns, Running, IInv, Phases, Joined, ClosedAfterWait
  <2>3. ~ recovered => waitEntity = 0
    BY <1>6, FS_EmptySet DEF WaiterRuns, IInv, Joined, WaitGroupCounts
  <2>4. PanicsExplained'
    BY <1>6, <2>3 DEF WaiterRuns, PanicsExplained
  <2> QED
    BY <2>1, <2>2, <2>4
<1>7. CASE EntitiesStopped
  BY <1>7, QuietStep DEF EntitiesStopped, Running, IInv, Phases, Joined, ClosedAfterWait, PanicsExplained, collected
<1>8. CASE MonitorStopped
  BY <1>8, QuietStep DEF MonitorStopped, Running, IInv, Phases, Joined, ClosedAfterWait, PanicsExplained, collected
<1>9. ASSUME NEW g \in Goroutine, Stop(g)
      PROVE  Rest'
  <2>1. pc[g] \in Live
    BY <1>9 DEF Stop, Live
  <2> QED
    BY <1>9, <2>1, EndingStep DEF Stop
<1>10. ASSUME NEW g \in Goroutine, Act(g)
       PROVE  Rest'
  <2>1. pc[g] \in Live /\ "call" \in Live /\ "call" \in Location
    BY <1>10 DEF Act, Live, Location
  <2> QED
    BY <1>10, <2>1, LivingStep DEF Act, waiting
<1>11. ASSUME NEW g \in Goroutine, Answer(g)
       PROVE  Rest'
  <2>1. PICK o \in Outcome : Goto(g, o)
    BY <1>11 DEF Answer
  <2>2. pc[g] \in Live /\ o \in Live /\ o \in Location /\ o # "recover"
    BY <1>11 DEF Answer, Live, Location, Outcome
  <2> QED
    BY <1>11, <2>1, <2>2, LivingStep DEF Answer, waiting
<1>12. ASSUME NEW g \in Goroutine, Report(g)
       PROVE  Rest'
  <2>1. CASE g[2] = "search"
    <3>1. g \notin Entities /\ "off" \in Location
      BY <2>1 DEF Entities, Counted, Recovering, Location
    <3> QED
      BY <1>12, <2>1, <3>1, LivingStep DEF Report, waiting
  <2>2. CASE g[2] # "search"
    <3>1. pc[g] \in Live /\ "idle" \in Live /\ "idle" \in Location
      BY <1>12 DEF Report, Live, Location
    <3> QED
      BY <1>12, <2>2, <3>1, LivingStep DEF Report, waiting
  <2> QED
    BY <2>1, <2>2
<1>13. ASSUME NEW g \in Goroutine, ReportPanics(g) \/ ActionPanics(g)
       PROVE  Rest'
  <2>1. pc[g] \in Live /\ Running /\ Panic(g)
    BY <1>13 DEF ReportPanics, ActionPanics, Live
  <2>2. CASE g[2] \in Recovering
    <3>1. g \in Entities
      BY <2>2 DEF Entities, Goroutine, Counted
    <3> QED
      BY <2>1, <2>2, <3>1, EndingStep DEF Panic
  <2>3. CASE g[2] \notin Recovering
    <3>1. /\ UNCHANGED <<pc, waitEntity, waiter, recovered, main, launched, closed, timedOut>>
          /\ ReportPanics(g)
      BY <1>13, <2>1, <2>3 DEF Panic, ActionPanics
    <3>2. LiveEntities' = LiveEntities /\ WaitGroupCounts' /\ LaunchedOnly' /\ Recoveries'
      BY <3>1, QuietStep
    <3>3. Phases' /\ Joined' /\ ClosedAfterWait'
      BY <3>1, <3>2 DEF IInv, Phases, Joined, ClosedAfterWait
    <3>4. PanicsExplained'
      <4>1. CASE g \in Entities
        <5>1. closed /\ g \in LiveEntities
          BY <2>1, <3>1, <4>1 DEF ReportPanics, LiveEntities
        <5>2. timedOut \/ recovered
          BY <5>1 DEF IInv, Joined, ClosedAfterWait
        <5> QED
          BY <3>1, <5>2 DEF PanicsExplained
      <4>2. CASE g \notin Entities
        <5>1. g[2] = "search" /\ g[1] \in Entity /\ g = <<g[1], g[2]>>
          BY <4>2 DEF Entities, Goroutine
        <5>2. pc'[<<g[1], "search">>] \in Outcome
          BY <3>1, <5>1 DEF ReportPanics
        <5> QED
          BY <5>1, <5>2 DEF PanicsExplained
      <4> QED
        BY <4>1, <4>2
    <3> QED
      BY <3>2, <3>3, <3>4
  <2> QED
    BY <2>2, <2>3
<1>14. ASSUME NEW g \in Goroutine, Restart(g)
       PROVE  Rest'
  <2>1. recovered /\ g[2] \in Recovering /\ g \in Entities
    BY <1>14 DEF Restart, IInv, Recoveries, Entities, Goroutine, Counted
  <2>2. pc[g] \notin Live /\ "idle" \in Live
    BY <1>14 DEF Restart, Live, Outcome
  <2>3. WaitGroupCounts'
    BY <1>14, <2>1, <2>2, BeginsLive DEF Restart, IInv
  <2>4. /\ \A h \in Goroutine : h # g => pc'[h] = pc[h]
        /\ pc'[g] = "idle"
    BY <1>14, <1>t DEF Restart, Goto, Typed
  <2>5. LaunchedOnly'
    BY <1>14, <1>s, <2>1, <2>4 DEF Restart, IInv, LaunchedOnly, waiting
  <2>6. Recoveries'
    BY <1>14, <2>4 DEF Restart, IInv, Recoveries
  <2>7. Phases' /\ Joined' /\ ClosedAfterWait' /\ PanicsExplained'
    BY <1>14, <2>1 DEF Restart, IInv, Phases, Joined, ClosedAfterWait, PanicsExplained, waiting
  <2> QED
    BY <2>3, <2>5, <2>6, <2>7
<1>15. ASSUME NEW e \in Entity, Search(e)
       PROVE  Rest'
  <2>1. /\ <<e, "search">> \in Goroutine /\ <<e, "search">> \notin Entities
        /\ "call" \in Location
    BY DEF Goroutine, Entities, Counted, Recovering, Location, Live
  <2> QED
    BY <1>15, <2>1, LivingStep DEF Search, waiting
<1>l. ASSUME NEW e \in Entity
      PROVE  <<e, "listener">> \in Entities /\ <<e, "listener">> \in Goroutine
  BY DEF Goroutine, Entities, Counted
<1>16. ASSUME NEW e \in Entity, Listen(e)
       PROVE  Rest'
  <2>1. pc[<<e, "listener">>] \in Live /\ "call" \in Live /\ "call" \in Location
    BY <1>16 DEF Listen, Live, Location
  <2> QED
    BY <1>16, <1>l, <2>1, LivingStep DEF Listen, waiting
<1>17. ASSUME NEW e \in Entity, Disconnect(e)
       PROVE  Rest'
  <2>1. pc[<<e, "listener">>] \in Live /\ "backoff" \in Live /\ "backoff" \in Location
    BY <1>17 DEF Disconnect, Live, Location
  <2> QED
    BY <1>17, <1>l, <2>1, LivingStep DEF Disconnect, waiting
<1>18. ASSUME NEW e \in Entity, ConnectFails(e)
       PROVE  Rest'
  BY <1>18, QuietStep DEF ConnectFails, Running, IInv, Phases, Joined, ClosedAfterWait, PanicsExplained, waiting
<1>19. ASSUME NEW e \in Entity, GiveUp(e)
       PROVE  Rest'
  <2>1. pc[<<e, "listener">>] \in Live
    BY <1>19 DEF GiveUp, Live
  <2> QED
    BY <1>19, <1>l, <2>1, EndingStep DEF GiveUp
<1>20. CASE Receive
  BY <1>20, QuietStep DEF Receive, Running, IInv, Phases, Joined, ClosedAfterWait, PanicsExplained, waiting
<1>21. CASE EndMonitor
  BY <1>21, QuietStep DEF EndMonitor, Running, IInv, Phases, Joined, ClosedAfterWait, PanicsExplained, waiting
<1>22. CASE UNCHANGED vars
  BY <1>22, QuietStep DEF vars, waiting, IInv, Phases, Joined, ClosedAfterWait, PanicsExplained
<1> HIDE DEF Rest
<1> QED
  BY <1>1, <1>2, <1>3, <1>4, <1>5, <1>6, <1>7, <1>8, <1>9, <1>10, <1>11, <1>12,
     <1>13, <1>14, <1>15, <1>16, <1>17, <1>18, <1>19, <1>20, <1>21, <1>22
  DEF Next, Shutdown

-----------------------------------------------------------------------------
(* The theorems.                                                           *)

(* Before the first entity is launched, nobody is alive.                   *)
LEMMA IInvInitially == Init => IInv
<1> SUFFICES ASSUME Init
             PROVE  IInv
  OBVIOUS
<1>1. Typed
  <2>1. Nothing \in [Outcome -> Nat] /\ Nothing["ok"] = 0
    BY DEF Nothing, Outcome
  <2>2. reports \in Seq(Outcome) /\ Len(reports) = 0
    BY DEF Init
  <2>3. pc \in [Goroutine -> Location]
    BY DEF Init, Location
  <2>4. retries \in [Entity -> 0 .. MaxRetries + 1]
    BY DEF Init
  <2>5. 0 \in 0 .. NumEntities /\ 0 \in 0 .. MaxCalls /\ 0 <= MaxResults /\ 0 <= ChanCapacity
    OBVIOUS
  <2>6. stats["ok"] <= MaxResults /\ Len(reports) <= ChanCapacity
    BY <2>1, <2>2, <2>5 DEF Init
  <2>7. launched \in 0 .. NumEntities /\ calls \in 0 .. MaxCalls
    BY <2>5 DEF Init
  <2>8. /\ stats \in [Outcome -> Nat]
        /\ logged \in [Outcome -> Nat]
        /\ sent \in [Outcome -> Nat]
    BY <2>1 DEF Init
  <2> QED
    BY <2>2, <2>3, <2>4, <2>6, <2>7, <2>8, Zenon DEF Init, Typed
<1>2. LiveEntities = {}
  BY DEF Init, LiveEntities, Entities, Goroutine, Live, Outcome
<1>3. WaitGroupCounts
  BY <1>2, FS_EmptySet DEF Init, WaitGroupCounts
<1>4. LaunchedOnly
  BY DEF Init, LaunchedOnly, Entities, Goroutine, Entity
<1>5. Phases /\ Recoveries /\ Joined /\ ClosedAfterWait /\ PanicsExplained
  BY DEF Init, Phases, Recoveries, Joined, ClosedAfterWait, PanicsExplained
<1> QED
  BY <1>1, <1>3, <1>4, <1>5 DEF IInv

(* The inductive invariant holds in every state a test reaches.            *)
LEMMA IInvHolds == Spec => []IInv
<1>1. Init => IInv
  BY IInvInitially
<1>2. IInv /\ [Next]_vars => IInv'
  BY IInvInductive
<1> QED
  BY <1>1, <1>2, PTL DEF Spec

(* Every variable of a test keeps its type; in particular the results the  *)
(* monitor keeps never exceed the batch it logs (run.go), and the count of *)
(* the wait group stays between zero and the number of goroutines.         *)
THEOREM TypeCorrect == Spec => []TypeOK
<1>1. IInv => TypeOK
  BY LiveFinite DEF IInv, Typed, TypeOK, WaitGroupCounts
<1> QED
  BY <1>1, IInvHolds, PTL

(* waitEntity counts the actors, pollers and listeners that are alive, in  *)
(* every interleaving of their returns, panics and restarts (entity.go):   *)
(* no Done without an Add makes it negative.                               *)
THEOREM WaitGroupIsRight == Spec => []WaitGroupCounts
<1>1. IInv => WaitGroupCounts
  BY DEF IInv
<1> QED
  BY <1>1, IInvHolds, PTL

(* If the wait of RunTest does not time out and no goroutine ever recovered *)
(* from a panic, every actor, poller and listener has returned when RunTest *)
(* closes the channel their reports are sent to (run.go).                  *)
THEOREM EntitiesAreJoined == Spec => []EntitiesJoinedOrRestarted
<1>1. IInv => EntitiesJoinedOrRestarted
  <2> SUFFICES ASSUME IInv, closed, ~ timedOut, ~ recovered, NEW g \in Entities
               PROVE  pc[g] = "done"
    BY DEF EntitiesJoinedOrRestarted
  <2>1. pc[g] \notin Live
    BY DEF IInv, Joined, ClosedAfterWait, LiveEntities
  <2>2. g \in Goroutine /\ g[1] <= NumEntities
    BY DEF Entities, Goroutine, Entity
  <2>3. pc[g] # "off"
    BY <2>2 DEF IInv, Phases, LaunchedOnly
  <2>4. pc[g] # "recover"
    BY <2>2 DEF IInv, Recoveries
  <2> QED
    BY <2>1, <2>2, <2>3, <2>4 DEF IInv, Typed, Location
<1> QED
  BY <1>1, IInvHolds, PTL

(* The process dies of a panic only after a wait that timed out, after a   *)
(* goroutine was restarted, or with the report of a search nobody waits    *)
(* for (tests.go): a send on the closed channel or a misuse   *)
(* of the wait group has no other cause.                                   *)
THEOREM PanicsAreExplained == Spec => []PanicsExplained
<1>1. IInv => PanicsExplained
  BY DEF IInv
<1> QED
  BY <1>1, IInvHolds, PTL

-----------------------------------------------------------------------------

(* Where in a queue of reports the successful ones are.                    *)
Successes(q) == {i \in 1 .. Len(q) : q[i] = "ok"}

LEMMA SuccessesFinite ==
  ASSUME NEW q \in Seq(Outcome)
  PROVE  IsFiniteSet(Successes(q)) /\ Cardinality(Successes(q)) \in Nat
<1>1. Len(q) \in Nat /\ 1 \in Int
  OBVIOUS
<1>2. IsFiniteSet(1 .. Len(q))
  BY <1>1, FS_Interval
<1>3. Successes(q) \subseteq 1 .. Len(q)
  BY DEF Successes
<1>4. IsFiniteSet(Successes(q))
  BY <1>2, <1>3, FS_Subset
<1> QED
  BY <1>4, FS_CardinalityType

(* A report is sent.                                                       *)
LEMMA SuccessSent ==
  ASSUME NEW q \in Seq(Outcome), NEW o \in Outcome
  PROVE  Cardinality(Successes(Append(q, o)))
           = Cardinality(Successes(q)) + (IF o = "ok" THEN 1 ELSE 0)
<1> DEFINE n == Len(q) + 1
           r == Append(q, o)
<1>1. /\ n \in Nat /\ n \notin 1 .. Len(q) /\ Len(r) = n /\ r[n] = o
      /\ \A i \in 1 .. Len(q) : r[i] = q[i]
      /\ 1 .. n = (1 .. Len(q)) \union {n}
  OBVIOUS
<1>2. n \notin Successes(q)
  BY <1>1 DEF Successes
<1> HIDE DEF n, r
<1>3. CASE o = "ok"
  <2>1. Successes(r) = Successes(q) \union {n}
    BY <1>1, <1>3 DEF Successes
  <2> QED
    BY <1>2, <1>3, <2>1, SuccessesFinite, FS_AddElement DEF r
<1>4. CASE o # "ok"
  <2>1. Successes(r) = Successes(q)
    BY <1>1, <1>4 DEF Successes
  <2> QED
    BY <1>4, <2>1, SuccessesFinite DEF r
<1> QED
  BY <1>3, <1>4

(* The first report is received: the others move up by one.                *)
LEMMA SuccessReceived ==
  ASSUME NEW q \in Seq(Outcome), q # <<>>
  PROVE  Cardinality(Successes(q))
           = Cardinality(Successes(Tail(q))) + (IF Head(q) = "ok" THEN 1 ELSE 0)
<1> DEFINE r == Tail(q)
           S == Successes(r)
           T == Successes(q) \ {1}
           up == [i \in S |-> i + 1]
<1>1. /\ r \in Seq(Outcome) /\ Len(q) \in Nat \ {0} /\ Len(r) = Len(q) - 1
      /\ \A i \in 1 .. Len(r) : r[i] = q[i + 1]
      /\ Head(q) = q[1]
  OBVIOUS
<1>2. \A i \in S : i \in 1 .. Len(r) /\ r[i] = "ok" /\ i + 1 \in T
  BY <1>1 DEF Successes
<1>3. \A j \in T : j - 1 \in S /\ (j - 1) + 1 = j
  BY <1>1 DEF Successes
<1> HIDE DEF r, T, S
<1>4. up \in Bijection(S, T)
  <2>1. up \in [S -> T]
    BY <1>2
  <2>2. \A a, b \in S : up[a] = up[b] => a = b
    BY <1>2
  <2>3. \A j \in T : \E i \in S : up[i] = j
    BY <1>3
  <2> QED
    BY <2>1, <2>2, <2>3 DEF Bijection, Injection, Surjection, IsInjective
<1>5. IsFiniteSet(S) /\ Cardinality(S) \in Nat
  BY <1>1, SuccessesFinite DEF S
<1>6. IsFiniteSet(T) /\ Cardinality(T) = Cardinality(S)
  BY <1>4, <1>5, FS_Bijection DEF ExistsBijection
<1>7. CASE Head(q) = "ok"
  <2>1. Successes(q) = T \union {1} /\ 1 \notin T
    BY <1>1, <1>7 DEF Successes, T
  <2> QED
    BY <1>5, <1>6, <1>7, <2>1, FS_AddElement DEF S, r
<1>8. CASE Head(q) # "ok"
  <2>1. Successes(q) = T
    BY <1>1, <1>8 DEF Successes, T
  <2> QED
    BY <1>5, <1>6, <1>8, <2>1 DEF S, r
<1> QED
  BY <1>7, <1>8

(* Successful requests are logged, among the results, or on their way; and *)
(* none is left when the monitor is done, for nothing is sent any more.    *)
Tallied ==
  /\ sent["ok"] = logged["ok"] + stats["ok"] + Cardinality(Successes(reports))
  /\ monitor = "done" => closed /\ reports = <<>> /\ stats["ok"] = 0

LEMMA TalliedStep ==
  ASSUME Typed, Tallied, [Next]_vars
  PROVE  Tallied'
<1>t. /\ reports \in Seq(Outcome) /\ stats \in [Outcome -> Nat] /\ logged \in [Outcome -> Nat]
      /\ sent \in [Outcome -> Nat] /\ "ok" \in Outcome
  BY DEF Typed, Outcome
<1>c. Cardinality(Successes(reports)) \in Nat
  BY <1>t, SuccessesFinite
<1>1. CASE UNCHANGED <<sent, logged, stats, reports, monitor>> /\ (closed => closed')
  BY <1>1 DEF Tallied
<1>2. ASSUME NEW g \in Goroutine, Report(g)
      PROVE  Tallied'
  <2>1. /\ pc[g] \in Outcome /\ ~ closed /\ reports' = Append(reports, pc[g])
        /\ sent' = [sent EXCEPT ![pc[g]] = @ + 1] /\ UNCHANGED <<monitor, stats, logged>>
    BY <1>2 DEF Report, collected
  <2>2. Cardinality(Successes(reports'))
          = Cardinality(Successes(reports)) + (IF pc[g] = "ok" THEN 1 ELSE 0)
    BY <1>t, <2>1, SuccessSent
  <2>3. sent'["ok"] = sent["ok"] + (IF pc[g] = "ok" THEN 1 ELSE 0)
    BY <1>t, <2>1
  <2> QED
    BY <1>t, <1>c, <2>1, <2>2, <2>3 DEF Tallied
<1>3. CASE Receive
  <2> DEFINE h == Head(reports)
             added == [stats EXCEPT ![h] = @ + 1]
             one == IF h = "ok" THEN 1 ELSE 0
  <2>0. reports # <<>> /\ h \in Outcome
    BY <1>3, <1>t DEF Receive
  <2>a. \/ (\A o \in Outcome : logged'[o] = logged[o] + added[o]) /\ stats' = Nothing
        \/ stats' = added /\ UNCHANGED logged
    <3>1. \/ logged' = [o \in Outcome |-> logged[o] + added[o]] /\ stats' = Nothing
          \/ stats' = added /\ UNCHANGED logged
      BY <1>3 DEF Receive, Log
    <3> HIDE DEF added, h
    <3>2. ASSUME logged' = [o \in Outcome |-> logged[o] + added[o]], NEW o \in Outcome
          PROVE  logged'[o] = logged[o] + added[o]
      BY <3>2
    <3> QED
      BY <3>1, <3>2
  <2>1. /\ reports # <<>> /\ reports' = Tail(reports) /\ UNCHANGED <<monitor, sent>>
        /\ monitor = "receive" /\ h \in Outcome
    BY <1>3, <2>0 DEF Receive
  <2>2. Cardinality(Successes(reports)) = Cardinality(Successes(reports')) + one
    BY <1>t, <2>1, SuccessReceived
  <2>3. added["ok"] = stats["ok"] + one
    BY <1>t, <2>1
  <2>4. Cardinality(Successes(reports')) \in Nat /\ one \in {0, 1}
    <3>1. reports' \in Seq(Outcome)
      BY <1>t, <2>1
    <3> QED
      BY <3>1, SuccessesFinite
  <2>5. logged'["ok"] + stats'["ok"] = logged["ok"] + stats["ok"] + one
    <3>1. CASE (\A o \in Outcome : logged'[o] = logged[o] + added[o]) /\ stats' = Nothing
      <4>1. logged'["ok"] = logged["ok"] + added["ok"] /\ stats'["ok"] = 0
        BY <1>t, <3>1 DEF Nothing
      <4>2. logged["ok"] \in Nat /\ stats["ok"] \in Nat
        BY <1>t
      <4> HIDE DEF added, one
      <4> QED
        BY <2>3, <2>4, <4>1, <4>2
    <3>2. CASE stats' = added /\ UNCHANGED logged
      <4>1. logged["ok"] \in Nat /\ stats["ok"] \in Nat /\ stats'["ok"] = added["ok"]
        BY <1>t, <3>2
      <4> HIDE DEF added, one
      <4> QED
        BY <2>3, <2>4, <3>2, <4>1
    <3> QED
      BY <2>a, <3>1, <3>2
  <2>6. sent'["ok"] = logged'["ok"] + stats'["ok"] + Cardinality(Successes(reports'))
    <3> HIDE DEF one, h, added
    <3>1. sent["ok"] = logged["ok"] + stats["ok"] + Cardinality(Successes(reports))
      BY DEF Tallied
    <3> QED
      BY <1>t, <1>c, <2>1, <2>2, <2>4, <2>5, <3>1
  <2> QED
    BY <2>1, <2>6 DEF Tallied
<1>4. CASE EndMonitor
  <2>1. /\ closed /\ reports = <<>> /\ UNCHANGED <<closed, reports, sent>>
        /\ \/ (\A o \in Outcome : logged'[o] = logged[o] + stats[o]) /\ stats' = Nothing
           \/ ~(stats["ok"] > 0) /\ UNCHANGED <<stats, logged>>
    BY <1>4 DEF EndMonitor, Log, CountResults
  <2>2. logged'["ok"] + stats'["ok"] = logged["ok"] + stats["ok"] /\ stats'["ok"] = 0
    BY <1>t, <2>1 DEF Nothing
  <2> QED
    BY <2>1, <2>2 DEF Tallied
<1>5. \/ UNCHANGED <<sent, logged, stats, reports, monitor>> /\ (closed => closed')
      \/ Receive \/ EndMonitor \/ \E g \in Goroutine : Report(g)
  <2>1. CASE Launch \/ InterruptLaunch \/ AllLaunched \/ EndTest \/ Shutdown
    BY <2>1 DEF Launch, InterruptLaunch, AllLaunched, EndTest, Shutdown, Wait, WaiterRuns,
                EntitiesStopped, MonitorStopped, collected
  <2>2. CASE \E g \in Goroutine : Stop(g) \/ Act(g) \/ Answer(g) \/ Restart(g)
    BY <2>2 DEF Stop, Act, Answer, Restart, collected
  <2>3. CASE \E g \in Goroutine : ReportPanics(g) \/ ActionPanics(g)
    BY <2>3 DEF ReportPanics, ActionPanics, Panic, collected
  <2>4. CASE \E e \in Entity : Search(e) \/ Listen(e) \/ Disconnect(e) \/ ConnectFails(e)
                               \/ GiveUp(e)
    BY <2>4 DEF Search, Listen, Disconnect, ConnectFails, GiveUp, collected
  <2>5. CASE UNCHANGED vars
    BY <2>5 DEF vars, collected
  <2> QED
    BY <2>1, <2>2, <2>3, <2>4, <2>5 DEF Next
<1> QED
  BY <1>1, <1>2, <1>3, <1>4, <1>5

(* Each success reported is logged once, in a batch or at the end, however *)
(* many reports the channel holds and results a batch has                  *)
(* (client_timing_stats.go): what is neither logged nor among the results  *)
(* is still in the channel, and the monitor is not done before that is     *)
(* closed and empty.                                                       *)
THEOREM SuccessesAreLogged == Spec => []SuccessesLogged
<1>1. Init => Tallied
  <2>1. Successes(<<>>) = {}
    BY DEF Successes
  <2>2. Cardinality(Successes(<<>>)) = 0
    BY <2>1, FS_EmptySet
  <2> QED
    BY <2>2 DEF Init, Tallied, Nothing, Outcome
<1>2. IInv /\ Tallied /\ [Next]_vars => Tallied'
  BY TalliedStep DEF IInv
<1>3. IInv /\ Tallied => SuccessesLogged
  <2> SUFFICES ASSUME IInv, Tallied
               PROVE  SuccessesLogged
    OBVIOUS
  <2>1. /\ reports \in Seq(Outcome) /\ stats["ok"] \in Nat /\ logged["ok"] \in Nat
        /\ sent["ok"] \in Nat
    BY DEF IInv, Typed, Outcome
  <2>2. Cardinality(Successes(reports)) \in Nat
    BY <2>1, SuccessesFinite
  <2>3. reports = <<>> => Cardinality(Successes(reports)) = 0
    <3>1. Successes(<<>>) = {}
      BY DEF Successes
    <3> QED
      BY <3>1, FS_EmptySet
  <2> QED
    BY <2>1, <2>2, <2>3 DEF Tallied, SuccessesLogged
<1> QED
  BY <1>1, <1>2, <1>3, IInvHolds, PTL DEF Spec

=============================================================================
