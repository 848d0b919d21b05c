----------------------------- MODULE Instances -----------------------------
(***************************************************************************)
(* The registry of load test agents (loadtest/instance.go): agents running *)
(* concurrently share the table LoadtestInstances, from which each takes   *)
(* an index of its own and a seed common to all.  The index decides which  *)
(* entities an agent simulates, the seed which user plays each entity.     *)
(*                                                                         *)
(* Time is counted in seconds, the resolution of the timestamps stored.    *)
(* Every run of the agent draws a fresh id, so a restarted agent is        *)
(* another member of Id, and a member of Id runs once.                     *)
(***************************************************************************)
EXTENDS Integers, FiniteSets

CONSTANTS
  Id,                         \* the ids agents draw when they start
  InstanceHeartbeatInterval,  \* 30 s in the code
  InsertAttempts,             \* 5 in the code
  MaxStartup,                 \* longest time from reading the clock to the first ticker
  MaxDelay,                   \* longest time a due heartbeat waits to be recorded
  NumActiveEntities,          \* entities simulated by one agent
  NumUsers,                   \* users the server was loaded with
  RandomizeEntitySelection,   \* shuffle the users over the entities
  Order,                      \* Order[s]: the permutation of users drawn from seed s
  MaxTime                     \* bound on the clock, for model checking

InstanceExpiredInterval == InstanceHeartbeatInterval * 4

(* A heartbeat that is due is recorded before the next one falls due, and  *)
(* an agent that starts and then beats on time is never silent for as long *)
(* as the expiry interval.                                                 *)
ASSUME TimingAssumption ==
  /\ InstanceHeartbeatInterval \in Nat \ {0}
  /\ MaxStartup \in Nat
  /\ MaxDelay \in Nat
  /\ MaxDelay < InstanceHeartbeatInterval
  /\ MaxStartup + InstanceHeartbeatInterval + MaxDelay < InstanceExpiredInterval

ASSUME ConfigAssumption ==
  /\ InsertAttempts \in Nat \ {0}
  /\ NumActiveEntities \in Nat
  /\ NumUsers \in Nat
  /\ RandomizeEntitySelection \in BOOLEAN
  /\ MaxTime \in Nat

(* rand.Perm returns a permutation whatever the seed.                      *)
ASSUME OrderAssumption ==
  \A s \in 0 .. MaxTime :
    /\ Order[s] \in [0 .. NumUsers - 1 -> 0 .. NumUsers - 1]
    /\ \A x, y \in 0 .. NumUsers - 1 : Order[s][x] = Order[s][y] => x = y

VARIABLES
  clock,     \* the time
  table,     \* the rows of LoadtestInstances
  pc,        \* where each agent is
  now,       \* the time an agent read when it started
  attempts,  \* the insertion attempt an agent is at
  index,     \* the index an agent found available, then its own
  seed,      \* the seed an agent read
  due,       \* when an agent's next heartbeat falls due
  zeroGone   \* history: has an index 0 ever been given up?

vars == <<clock, table, pc, now, attempts, index, seed, due, zeroGone>>

Time == 0 .. MaxTime

Row == [id : Id, idx : Nat, createAt : Time, activeAt : Time]

Starting   == {"prune", "select", "insert", "seed"}
Registered == {"registered", "running"}
Location   == {"off", "closing", "ended"} \union Starting \union Registered

TypeOK ==
  /\ clock \in Time
  /\ table \in SUBSET Row
  /\ pc \in [Id -> Location]
  /\ now \in [Id -> Time]
  /\ attempts \in [Id -> 1 .. InsertAttempts]
  /\ index \in [Id -> Nat]
  /\ seed \in [Id -> Time]
  /\ due \in [Id -> Nat]
  /\ zeroGone \in BOOLEAN

Init ==
  /\ clock = 0
  /\ table = {}
  /\ pc = [i \in Id |-> "off"]
  /\ now = [i \in Id |-> 0]
  /\ attempts = [i \in Id |-> 1]
  /\ index = [i \in Id |-> 0]
  /\ seed = [i \in Id |-> 0]
  /\ due = [i \in Id |-> 0]
  /\ zeroGone = FALSE

Goto(i, l) == pc' = [pc EXCEPT ![i] = l]

(* The process is over, and its variables with it.  (A variable whose scope
   ends is reset throughout, so that it tells no states apart.)            *)
Exit(i) ==
  /\ Goto(i, "ended")
  /\ now' = [now EXCEPT ![i] = 0]
  /\ attempts' = [attempts EXCEPT ![i] = 1]
  /\ index' = [index EXCEPT ![i] = 0]
  /\ seed' = [seed EXCEPT ![i] = 0]
  /\ due' = [due EXCEPT ![i] = 0]

HasIdx(t, k) == \E r \in t : r.idx = k

(* Replace the table, remembering whether index 0 was given up.            *)
SetTable(t) ==
  /\ table' = t
  /\ zeroGone' = (zeroGone \/ (HasIdx(table, 0) /\ ~ HasIdx(t, 0)))

-----------------------------------------------------------------------------
(* The queries.                                                            *)

(* Mutant: rows expire after one missed heartbeat.                         *)
UnexpiredEager(t) == {r \in table : r.activeAt > t - InstanceHeartbeatInterval}

(* The rows pruneInstances leaves at time t.                               *)
Unexpired(t) == {r \in table : r.activeAt > t - InstanceExpiredInterval}

(* The indexes the query of insertInstance may return: it asks for one     *)
(* unordered row, and an empty result reads as index 0.                    *)
AvailableIndexes ==
  LET NoLower(r)  == ~ HasIdx(table, r.idx - 1)
      NoHigher(r) == ~ HasIdx(table, r.idx + 1)
      Lower  == {r.idx - 1 : r \in {s \in table : s.idx > 0 /\ NoLower(s)}}
      Higher == {r.idx + 1 : r \in {s \in table : NoHigher(s) /\ ~ (s.idx > 0 /\ NoLower(s))}}
  IN  IF Lower \union Higher = {} THEN {0} ELSE Lower \union Higher

(* Mutant: a schema without the unique index on Idx.                       *)
ConflictsIdOnly(i, k) == \E r \in table : r.id = i

(* Id is the primary key and Idx is unique.                                *)
Conflicts(i, k) == \E r \in table : r.id = i \/ r.idx = k

(* Mutant: the seed query without its WHERE clause.                        *)
AnyCreateAt == {r.createAt : r \in table}

(* The seed of getCoordinatedRandomSeed, if there is a row with index 0.   *)
CoordinatedRandomSeed == {r.createAt : r \in {s \in table : s.idx = 0}}

-----------------------------------------------------------------------------
(* NewInstance.                                                            *)

(* The schema is there, or was created; the clock is read.                 *)
Start(i) ==
  /\ pc[i] = "off"
  /\ Goto(i, "prune")
  /\ now' = [now EXCEPT ![i] = clock]
  /\ UNCHANGED <<clock, table, attempts, index, seed, due, zeroGone>>

(* A failure to prune is logged and ignored.                               *)
Prune(i) ==
  /\ pc[i] = "prune"
  /\ Goto(i, "select")
  /\ \/ SetTable(Unexpired(now[i]))
     \/ UNCHANGED <<table, zeroGone>>
  /\ UNCHANGED <<clock, now, attempts, index, seed, due>>

Select(i) ==
  /\ pc[i] = "select"
  /\ Goto(i, "insert")
  /\ \E k \in AvailableIndexes : index' = [index EXCEPT ![i] = k]
  /\ UNCHANGED <<clock, table, now, attempts, seed, due, zeroGone>>

Insert(i) ==
  /\ pc[i] = "insert"
  /\ ~ Conflicts(i, index[i])
  /\ Goto(i, "seed")
  /\ SetTable(table \union
       {[id |-> i, idx |-> index[i], createAt |-> now[i], activeAt |-> now[i]]})
  /\ attempts' = [attempts EXCEPT ![i] = 1]
  /\ UNCHANGED <<clock, now, index, seed, due>>

(* Mutant: the loop over the attempts runs once too often.                 *)
InsertFailsOffByOne(i) ==
  /\ pc[i] = "insert"
  /\ \/ /\ attempts[i] <= InsertAttempts
        /\ attempts' = [attempts EXCEPT ![i] = @ + 1]
        /\ Goto(i, "select")
        /\ UNCHANGED <<now, index, seed, due>>
     \/ /\ attempts[i] > InsertAttempts
        /\ Exit(i)
  /\ UNCHANGED <<clock, table, zeroGone>>

(* The insertion fails, on a conflict or for any other reason: another     *)
(* attempt follows, until they are used up.                                *)
InsertFails(i) ==
  /\ pc[i] = "insert"
  /\ \/ /\ attempts[i] < InsertAttempts
        /\ attempts' = [attempts EXCEPT ![i] = @ + 1]
        /\ Goto(i, "select")
        /\ UNCHANGED <<now, index, seed, due>>
     \/ /\ attempts[i] = InsertAttempts
        /\ Exit(i)
  /\ UNCHANGED <<clock, table, zeroGone>>

ReadSeed(i) ==
  /\ pc[i] = "seed"
  /\ \E s \in CoordinatedRandomSeed : seed' = [seed EXCEPT ![i] = s]
  /\ Goto(i, "registered")
  /\ due' = [due EXCEPT ![i] = clock + InstanceHeartbeatInterval]
  /\ now' = [now EXCEPT ![i] = 0]
  /\ UNCHANGED <<clock, table, attempts, index, zeroGone>>

(* NewInstance returns an error from a failed query, or finding no row     *)
(* with index 0.  A row already inserted stays behind.                     *)
StartFails(i) ==
  /\ pc[i] \in {"select", "seed"}
  /\ Exit(i)
  /\ UNCHANGED <<clock, table, zeroGone>>

-----------------------------------------------------------------------------
(* The test the agent runs.                                                *)

EntityStartNum(k) == k * NumActiveEntities

Entities(i) ==
  EntityStartNum(index[i]) .. EntityStartNum(index[i]) + NumActiveEntities - 1

(* The user loginAsUsers logs in for entity e of agent i.                  *)
UserNum(i, e) == IF RandomizeEntitySelection THEN Order[seed[i]][e] ELSE e

(* RunTest refuses to start without enough users; the deferred Close runs. *)
Begin(i) ==
  /\ pc[i] = "registered"
  /\ IF EntityStartNum(index[i]) + NumActiveEntities > NumUsers
       THEN Goto(i, "closing")
       ELSE Goto(i, "running")
  /\ UNCHANGED <<clock, table, now, attempts, index, seed, due, zeroGone>>

(* The ticker's value is the time the heartbeat fell due.  The update of a *)
(* row that is no longer there succeeds and changes nothing.               *)
Heartbeat(i) ==
  /\ pc[i] \in Registered
  /\ clock >= due[i]
  /\ table' = {IF r.id = i THEN [r EXCEPT !.activeAt = due[i]] ELSE r : r \in table}
  /\ due' = [due EXCEPT ![i] = @ + InstanceHeartbeatInterval]
  /\ UNCHANGED <<clock, pc, now, attempts, index, seed, zeroGone>>

(* A failed update is logged; the next tick tries again.  Assumed: the     *)
(* database never fails for so long that the row expires meanwhile.        *)
HeartbeatFails(i) ==
  /\ pc[i] \in Registered
  /\ clock >= due[i]
  /\ \A r \in table : r.id = i =>
       due[i] + InstanceHeartbeatInterval + MaxDelay < r.activeAt + InstanceExpiredInterval
  /\ due' = [due EXCEPT ![i] = @ + InstanceHeartbeatInterval]
  /\ UNCHANGED <<clock, table, pc, now, attempts, index, seed, zeroGone>>

(* The test is over, or failed: Close stops the heartbeats first.          *)
Stop(i) ==
  /\ pc[i] = "running"
  /\ Goto(i, "closing")
  /\ UNCHANGED <<clock, table, now, attempts, index, seed, due, zeroGone>>

(* Close deletes the row; a failure is logged and leaves it behind.        *)
Delete(i) ==
  /\ pc[i] = "closing"
  /\ Exit(i)
  /\ \/ SetTable({r \in table : r.id # i})
     \/ UNCHANGED <<table, zeroGone>>
  /\ UNCHANGED clock

(* The process dies.  Its row stays until somebody prunes it.              *)
Crash(i) ==
  /\ pc[i] \in Starting \union Registered \union {"closing"}
  /\ Exit(i)
  /\ UNCHANGED <<clock, table, zeroGone>>

(* Time passes, but not beyond the deadlines assumed.                      *)
Tick ==
  /\ clock < MaxTime
  /\ \A i \in Id : pc[i] \in Starting => clock < now[i] + MaxStartup
  /\ \A i \in Id : pc[i] \in Registered => clock < due[i] + MaxDelay
  /\ clock' = clock + 1
  /\ UNCHANGED <<table, pc, now, attempts, index, seed, due, zeroGone>>

StartupStep(i) ==
  \/ Prune(i)
  \/ Select(i)
  \/ Insert(i)
  \/ InsertFails(i)
  \/ ReadSeed(i)
  \/ StartFails(i)

Next ==
  \/ \E i \in Id :
       \/ Start(i)
       \/ StartupStep(i)
       \/ Begin(i)
       \/ Heartbeat(i)
       \/ HeartbeatFails(i)
       \/ Stop(i)
       \/ Delete(i)
       \/ Crash(i)
  \/ Tick

Spec == Init /\ [][Next]_vars

-----------------------------------------------------------------------------
(* Properties.                                                             *)

(* While an agent is registered its row is in the table, under its index,  *)
(* and is recent enough that no other agent's pruneInstances deletes it.   *)
RegisteredHasRow ==
  \A i \in Id : pc[i] \in Registered =>
    \E r \in table :
      /\ r.id = i
      /\ r.idx = index[i]
      /\ r.activeAt > clock - InstanceExpiredInterval

(* No entity is simulated by two agents: insertInstance never hands out an *)
(* index whose owner is still running.                                     *)
NoSharedEntities ==
  \A i, j \in Id :
    i # j /\ pc[i] \in Registered /\ pc[j] \in Registered =>
      Entities(i) \intersect Entities(j) = {}

(* Until index 0 is given up, all registered agents have the same seed,    *)
(* as the comment in NewInstance promises.                                 *)
SeedsCoordinated ==
  ~ zeroGone =>
    \A i, j \in Id :
      pc[i] \in Registered /\ pc[j] \in Registered => seed[i] = seed[j]

(* No user of the server is played by two agents, in the order of the      *)
(* users or, until index 0 is given up, in a shuffled one.                 *)
NoSharedUsers ==
  (RandomizeEntitySelection => ~ zeroGone) =>
    \A i, j \in Id :
      i # j /\ pc[i] = "running" /\ pc[j] = "running" =>
        \A d \in Entities(i), e \in Entities(j) : UserNum(i, d) # UserNum(j, e)

(* What the registry promises: agents lease disjoint sets of entities.     *)
Held == [i \in Id |-> IF pc[i] \in Registered THEN Entities(i) ELSE {}]

Leases == INSTANCE EntityLeases WITH Agent <- Id, held <- Held

(* The registry with its heartbeats, expiry and retries implements the     *)
(* leases: an entity changes hands only by being given up in between.      *)
ImplementsLeases == Leases!Spec

=============================================================================
