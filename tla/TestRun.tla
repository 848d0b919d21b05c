------------------------------ MODULE TestRun ------------------------------
(***************************************************************************)
(* A test from the start of its entities to its end: RunTest (loadtest/    *)
(* run.go, from line 145), the goroutines of an entity (entity.go), the    *)
(* timing reports their requests make (timed_round_tripper.go), and the    *)
(* monitor that collects them.  An entity has an actor (runEntity), a      *)
(* listener (websocketListen) and, if configured, a poller                 *)
(* (doStatusPolling); a search an actor types lives on in a goroutine that *)
(* nobody waits for.                                                       *)
(***************************************************************************)
EXTENDS Naturals, Sequences, FiniteSets

CONSTANTS
  NumEntities,
  DoStatusPolling,
  ChanCapacity,  \* of clientTimingChannel: 10000
  MaxResults,    \* more results than this are logged: 100
  MaxRetries,    \* more reconnections than this are not attempted: 5
  MaxCalls       \* bound on the requests made, for model checking

ASSUME TestRunAssumption ==
  /\ NumEntities \in Nat \ {0}
  /\ DoStatusPolling \in BOOLEAN
  /\ ChanCapacity \in Nat \ {0}
  /\ MaxResults \in Nat
  /\ MaxRetries \in Nat
  /\ MaxCalls \in Nat

VARIABLES
  main,       \* where RunTest is
  launched,   \* entities started
  stopEntity, \* the channel stopEntity is closed
  waitEntity, \* the count of the WaitGroup of the entities
  waiter,     \* the goroutine waitWithTimeout started to wait for them
  pc,         \* where each goroutine of the entities is
  retries,    \* websocketRetryCount of each listener
  reports,    \* clientTimingChannel
  closed,     \* it is closed
  monitor,    \* where the monitor is
  stats,      \* the results in clientTimingStats, by outcome
  logged,     \* history: the results logged
  sent,       \* history: the reports sent
  calls,      \* history: the requests made
  timedOut,   \* history: RunTest gave up waiting for the entities
  recovered,  \* history: has an actor or a poller recovered from a panic?
  dead        \* a panic nobody recovered ended the process

waiting   == <<main, launched, waiter>>
collected == <<monitor, stats, logged>>
vars == <<waiting, collected, stopEntity, waitEntity, pc, retries, reports,
          closed, sent, calls, timedOut, recovered, dead>>

Entity  == 1 .. NumEntities
Outcome == {"ok", "error"}

Recovering == {"actor"} \union (IF DoStatusPolling THEN {"poller"} ELSE {})
Counted    == Recovering \union {"listener"}  \* in waitEntity
Goroutine  == Entity \X (Counted \union {"search"})

Entities == Entity \X Counted

(* A goroutine is at a request in "call", at its report in "ok" or "error",
   and between its deferred Done and Add in "recover".                     *)
Live     == {"start", "idle", "backoff", "call"} \union Outcome
Location == {"off", "recover", "done"} \union Live

TypeOK ==
  /\ main \in {"launch", "run", "entities", "monitors", "returned"}
  /\ launched \in 0 .. NumEntities
  /\ stopEntity \in BOOLEAN
  /\ waitEntity \in 0 .. Cardinality(Entities)
  /\ waiter \in {"off", "start", "asleep", "woken", "gone"}
  /\ pc \in [Goroutine -> Location]
  /\ retries \in [Entity -> 0 .. MaxRetries + 1]
  /\ reports \in Seq(Outcome) /\ Len(reports) <= ChanCapacity
  /\ closed \in BOOLEAN
  /\ monitor \in {"receive", "done"}
  /\ stats \in [Outcome -> Nat] /\ stats["ok"] <= MaxResults
  /\ logged \in [Outcome -> Nat]
  /\ sent \in [Outcome -> Nat]
  /\ calls \in 0 .. MaxCalls
  /\ timedOut \in BOOLEAN
  /\ recovered \in BOOLEAN
  /\ dead \in BOOLEAN

Nothing == [o \in Outcome |-> 0]

Init ==
  /\ main = "launch"
  /\ launched = 0
  /\ stopEntity = FALSE
  /\ waitEntity = 0
  /\ waiter = "off"
  /\ pc = [g \in Goroutine |-> "off"]
  /\ retries = [e \in Entity |-> 0]
  /\ reports = <<>>
  /\ closed = FALSE
  /\ monitor = "receive"
  /\ stats = Nothing
  /\ logged = Nothing
  /\ sent = Nothing
  /\ calls = 0
  /\ timedOut = FALSE
  /\ recovered = FALSE
  /\ dead = FALSE

(* The goroutines run until RunTest returns, when the program exits.       *)
Running == main # "returned" /\ ~ dead

Goto(g, l) == pc' = [pc EXCEPT ![g] = l]

-----------------------------------------------------------------------------
(* sync.WaitGroup.  A waiter that finds the count above zero sleeps until  *)
(* Done brings it to zero, and panics if it has risen again by the time it *)
(* runs.                                                                   *)

Done ==
  /\ waitEntity' = waitEntity - 1
  /\ waiter' = IF waitEntity = 1 /\ waiter = "asleep" THEN "woken" ELSE waiter

Wait ==
  /\ Running
  /\ waiter = "start"
  /\ waiter' = IF waitEntity = 0 THEN "gone" ELSE "asleep"
  /\ UNCHANGED <<main, launched, collected, stopEntity, waitEntity, pc, retries,
                 reports, closed, sent, calls, timedOut, recovered, dead>>

WaiterRuns ==
  /\ Running
  /\ waiter = "woken"
  /\ waiter' = "gone"
  /\ dead' = (waitEntity # 0)
  /\ UNCHANGED <<main, launched, collected, stopEntity, waitEntity, pc, retries,
                 reports, closed, sent, calls, timedOut, recovered>>

-----------------------------------------------------------------------------
(* RunTest.                                                                *)

(* Mutant: the listener of an entity is not added to the wait group.       *)
LaunchListenerUncounted ==
  /\ Running
  /\ main = "launch"
  /\ launched < NumEntities
  /\ launched' = launched + 1
  /\ waitEntity' = waitEntity + Cardinality(Recovering)
  /\ pc' = [g \in Goroutine |->
             IF g \notin {launched + 1} \X Counted THEN pc[g]
             ELSE IF g[2] = "listener" THEN "start" ELSE "idle"]
  /\ UNCHANGED <<main, waiter, collected, stopEntity, retries, reports, closed,
                 sent, calls, timedOut, recovered, dead>>

(* The goroutines of the next entity are counted and started.  An entity   *)
(* without a websocket has a listener that returns at once.                *)
Launch ==
  /\ Running
  /\ main = "launch"
  /\ launched < NumEntities
  /\ launched' = launched + 1
  /\ waitEntity' = waitEntity + Cardinality(Counted)
  /\ pc' = [g \in Goroutine |->
             IF g \notin {launched + 1} \X Counted THEN pc[g]
             ELSE IF g[2] = "listener" THEN "start" ELSE "idle"]
  /\ UNCHANGED <<main, waiter, collected, stopEntity, retries, reports, closed,
                 sent, calls, timedOut, recovered, dead>>

(* Interrupted between two entities, RunTest waits for nobody.             *)
InterruptLaunch ==
  /\ Running
  /\ main = "launch"
  /\ launched > 0
  /\ stopEntity' = TRUE
  /\ main' = "returned"
  /\ UNCHANGED <<launched, waiter, collected, waitEntity, pc, retries, reports,
                 closed, sent, calls, timedOut, recovered, dead>>

AllLaunched ==
  /\ Running
  /\ main = "launch"
  /\ launched = NumEntities
  /\ main' = "run"
  /\ UNCHANGED <<launched, waiter, collected, stopEntity, waitEntity, pc, retries,
                 reports, closed, sent, calls, timedOut, recovered, dead>>

(* Mutant: the channel of the reports is closed along with stopEntity.     *)
EndTestCloses ==
  /\ Running
  /\ main = "run"
  /\ stopEntity' = TRUE
  /\ closed' = TRUE
  /\ main' = "entities"
  /\ waiter' = "start"
  /\ UNCHANGED <<launched, collected, waitEntity, pc, retries, reports, sent,
                 calls, timedOut, recovered, dead>>

(* The time is up, or the test is interrupted.                             *)
EndTest ==
  /\ Running
  /\ main = "run"
  /\ stopEntity' = TRUE
  /\ main' = "entities"
  /\ waiter' = "start"
  /\ UNCHANGED <<launched, collected, waitEntity, pc, retries, reports, closed,
                 sent, calls, timedOut, recovered, dead>>

(* Mutant: a wait without a timeout.                                       *)
EntitiesStoppedUntimed ==
  /\ Running
  /\ main = "entities"
  /\ waiter = "gone"
  /\ closed' = TRUE
  /\ main' = "monitors"
  /\ UNCHANGED <<launched, waiter, collected, stopEntity, waitEntity, pc, retries,
                 reports, sent, calls, timedOut, recovered, dead>>

(* The waiter has returned, or ten seconds have passed; either way the     *)
(* channel of the reports is closed.                                       *)
EntitiesStopped ==
  /\ Running
  /\ main = "entities"
  /\ \/ waiter = "gone" /\ UNCHANGED timedOut
     \/ timedOut' = TRUE
  /\ closed' = TRUE
  /\ main' = "monitors"
  /\ UNCHANGED <<launched, waiter, collected, stopEntity, waitEntity, pc, retries,
                 reports, sent, calls, recovered, dead>>

(* The monitor is done, or ten seconds have passed.                        *)
MonitorStopped ==
  /\ Running
  /\ main = "monitors"
  /\ main' = "returned"
  /\ UNCHANGED <<launched, waiter, collected, stopEntity, waitEntity, pc, retries,
                 reports, closed, sent, calls, timedOut, recovered, dead>>

-----------------------------------------------------------------------------
(* The goroutines of an entity.                                            *)

(* stopEntity is closed: an idle goroutine may see it.                     *)
Stop(g) ==
  /\ Running
  /\ g \in Entities
  /\ pc[g] = "idle"
  /\ stopEntity
  /\ Goto(g, "done")
  /\ Done
  /\ UNCHANGED <<main, launched, collected, stopEntity, retries, reports, closed,
                 sent, calls, timedOut, recovered, dead>>

(* The timer fires: an action, with one request or after another.  When    *)
(* stopEntity is closed too, select chooses either.                        *)
Act(g) ==
  /\ Running
  /\ g[2] \in Recovering
  /\ pc[g] = "idle"
  /\ calls < MaxCalls
  /\ Goto(g, "call")
  /\ calls' = calls + 1
  /\ UNCHANGED <<waiting, collected, stopEntity, waitEntity, retries, reports,
                 closed, sent, timedOut, recovered, dead>>

(* An action that types a search starts a goroutine for it.  (Of several   *)
(* an entity has under way, one is modelled.)                              *)
Search(e) ==
  /\ Running
  /\ pc[<<e, "actor">>] = "idle"
  /\ pc[<<e, "search">>] = "off"
  /\ calls < MaxCalls
  /\ Goto(<<e, "search">>, "call")
  /\ calls' = calls + 1
  /\ UNCHANGED <<waiting, collected, stopEntity, waitEntity, retries, reports,
                 closed, sent, timedOut, recovered, dead>>

(* The server answers, or the request fails; it may also take for ever.    *)
Answer(g) ==
  /\ Running
  /\ pc[g] = "call"
  /\ \E o \in Outcome : Goto(g, o)
  /\ UNCHANGED <<waiting, collected, stopEntity, waitEntity, retries, reports,
                 closed, sent, calls, timedOut, recovered, dead>>

(* The deferred calls of an actor or a poller: Done first, then recover.   *)
(* Nothing recovers a panic in a listener or a search.                     *)
Panic(g) ==
  /\ IF g[2] \in Recovering
       THEN Goto(g, "recover") /\ Done /\ recovered' = TRUE /\ UNCHANGED dead
       ELSE dead' = TRUE /\ UNCHANGED <<pc, waitEntity, waiter, recovered>>
  /\ UNCHANGED <<main, launched, collected, stopEntity, retries, reports, closed,
                 sent, calls, timedOut>>

(* RoundTrip sends its report.                                             *)
Report(g) ==
  /\ Running
  /\ pc[g] \in Outcome
  /\ ~ closed
  /\ Len(reports) < ChanCapacity
  /\ reports' = Append(reports, pc[g])
  /\ sent' = [sent EXCEPT ![pc[g]] = @ + 1]
  /\ Goto(g, IF g[2] = "search" THEN "off" ELSE "idle")
  /\ UNCHANGED <<waiting, collected, stopEntity, waitEntity, retries, closed,
                 calls, timedOut, recovered, dead>>

(* A send on a closed channel panics.                                      *)
ReportPanics(g) ==
  /\ Running
  /\ pc[g] \in Outcome
  /\ closed
  /\ Panic(g)

(* An action panics for a reason of its own.                               *)
ActionPanics(g) ==
  /\ Running
  /\ g[2] \in Recovering
  /\ pc[g] = "idle"
  /\ Panic(g)

(* The deferred function counts the goroutine again and starts it anew.    *)
Restart(g) ==
  /\ Running
  /\ pc[g] = "recover"
  /\ waitEntity' = waitEntity + 1
  /\ Goto(g, "idle")
  /\ UNCHANGED <<waiting, collected, stopEntity, retries, reports, closed, sent,
                 calls, timedOut, recovered, dead>>

(* The listener wakes the web application up, when it starts and when it   *)
(* has reconnected.                                                        *)
Listen(e) ==
  /\ Running
  /\ pc[<<e, "listener">>] \in {"start", "backoff"}
  /\ retries[e] <= MaxRetries
  /\ calls < MaxCalls
  /\ Goto(<<e, "listener">>, "call")
  /\ calls' = calls + 1
  /\ UNCHANGED <<waiting, collected, stopEntity, waitEntity, retries, reports,
                 closed, sent, timedOut, recovered, dead>>

(* The connection is lost.  While it reconnects, the listener sees no      *)
(* stopEntity.                                                             *)
Disconnect(e) ==
  /\ Running
  /\ pc[<<e, "listener">>] = "idle"
  /\ Goto(<<e, "listener">>, "backoff")
  /\ UNCHANGED <<waiting, collected, stopEntity, waitEntity, retries, reports,
                 closed, sent, calls, timedOut, recovered, dead>>

ConnectFails(e) ==
  /\ Running
  /\ pc[<<e, "listener">>] = "backoff"
  /\ retries[e] <= MaxRetries
  /\ retries' = [retries EXCEPT ![e] = @ + 1]
  /\ UNCHANGED <<waiting, collected, stopEntity, waitEntity, pc, reports, closed,
                 sent, calls, timedOut, recovered, dead>>

(* There is no websocket, or reconnecting failed too often.                *)
GiveUp(e) ==
  /\ Running
  /\ \/ pc[<<e, "listener">>] = "start"
     \/ pc[<<e, "listener">>] = "backoff" /\ retries[e] > MaxRetries
  /\ Goto(<<e, "listener">>, "done")
  /\ Done
  /\ UNCHANGED <<main, launched, collected, stopEntity, retries, reports, closed,
                 sent, calls, timedOut, recovered, dead>>

-----------------------------------------------------------------------------
(* The monitor.                                                            *)

(* CountResults counts the durations, of which a failed request has none.  *)
CountResults(s) == s["ok"]

Log(s) == logged' = [o \in Outcome |-> logged[o] + s[o]]

(* Mutant: the results logged are not reset.                               *)
ReceiveNoReset ==
  /\ Running
  /\ monitor = "receive"
  /\ reports # <<>>
  /\ reports' = Tail(reports)
  /\ LET added == [stats EXCEPT ![Head(reports)] = @ + 1]
     IN  /\ stats' = added
         /\ IF CountResults(added) > MaxResults THEN Log(added) ELSE UNCHANGED logged
  /\ UNCHANGED <<waiting, monitor, stopEntity, waitEntity, pc, retries, closed,
                 sent, calls, timedOut, recovered, dead>>

Receive ==
  /\ Running
  /\ monitor = "receive"
  /\ reports # <<>>
  /\ reports' = Tail(reports)
  /\ LET added == [stats EXCEPT ![Head(reports)] = @ + 1]
     IN  IF CountResults(added) > MaxResults
           THEN Log(added) /\ stats' = Nothing
           ELSE stats' = added /\ UNCHANGED logged
  /\ UNCHANGED <<waiting, monitor, stopEntity, waitEntity, pc, retries, closed,
                 sent, calls, timedOut, recovered, dead>>

(* Mutant: what is left when the channel is closed is not logged.          *)
EndMonitorSilent ==
  /\ Running
  /\ monitor = "receive"
  /\ closed
  /\ reports = <<>>
  /\ monitor' = "done"
  /\ UNCHANGED <<waiting, stats, logged, stopEntity, waitEntity, pc, retries,
                 reports, closed, sent, calls, timedOut, recovered, dead>>

(* The channel is closed and empty: what is left is logged.                *)
EndMonitor ==
  /\ Running
  /\ monitor = "receive"
  /\ closed
  /\ reports = <<>>
  /\ monitor' = "done"
  /\ IF CountResults(stats) > 0
       THEN Log(stats) /\ stats' = Nothing
       ELSE UNCHANGED <<stats, logged>>
  /\ UNCHANGED <<waiting, stopEntity, waitEntity, pc, retries, reports, closed,
                 sent, calls, timedOut, recovered, dead>>

-----------------------------------------------------------------------------

Shutdown == Wait \/ WaiterRuns \/ EntitiesStopped \/ MonitorStopped

Next ==
  \/ Launch
  \/ InterruptLaunch
  \/ AllLaunched
  \/ EndTest
  \/ Shutdown
  \/ \E g \in Goroutine :
       \/ Stop(g)
       \/ Act(g)
       \/ Answer(g)
       \/ Report(g)
       \/ ReportPanics(g)
       \/ ActionPanics(g)
       \/ Restart(g)
  \/ \E e \in Entity :
       \/ Search(e)
       \/ Listen(e)
       \/ Disconnect(e)
       \/ ConnectFails(e)
       \/ GiveUp(e)
  \/ Receive
  \/ EndMonitor

Spec == Init /\ [][Next]_vars

(* RunTest's own steps happen, its timeouts included; no request need ever *)
(* be answered.                                                            *)
FairSpec == Spec /\ WF_vars(Shutdown)

-----------------------------------------------------------------------------
(* Properties.                                                             *)

LiveEntities == {g \in Entities : pc[g] \in Live}

(* The wait group counts the goroutines of entities that are alive, through *)
(* panics and restarts: it never goes negative, nor leaves one out.        *)
WaitGroupCounts == waitEntity = Cardinality(LiveEntities)

(* When RunTest closes the channel of the reports, all the goroutines of   *)
(* entities it started have returned: "Stop channels and wait groups, to   *)
(* stop and wait various things" (run.go, line 80).  Not so if the wait    *)
(* timed out, nor if one of them recovered from a panic: it is not counted *)
(* between its Done and its Add, and may outlive the wait.                 *)
EntitiesJoinedOrRestarted ==
  closed /\ ~ timedOut /\ ~ recovered =>
    \A g \in Entities : pc[g] = "done"

(* No panic ends the process if the entities stop in time, none of them    *)
(* had to be restarted and every search has been answered.                 *)
PanicsExplained ==
  dead =>
    \/ timedOut
    \/ recovered
    \/ \E e \in Entity : pc[<<e, "search">>] \in Outcome

(* Every successful request reported is in a result logged once the        *)
(* monitor is done, in batches or at the end, and in none logged twice.    *)
SuccessesLogged ==
  /\ logged["ok"] <= sent["ok"]
  /\ monitor = "done" => logged["ok"] = sent["ok"]

(* Once the entities are told to stop, RunTest returns, whatever they and  *)
(* the server do.                                                          *)
StopEnds == stopEntity ~> (main = "returned" \/ dead)

=============================================================================
