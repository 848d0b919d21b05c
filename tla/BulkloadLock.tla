---------------------------- MODULE BulkloadLock ----------------------------
(***************************************************************************)
(* The bulkload lock (loadtest/setup_server.go): agents that start at the  *)
(* same time take turns to import the bulkload file.  The nickname of the  *)
(* admin user, one account for all agents, serves as the lock: blank when  *)
(* it is free, the id of the agent that took it otherwise.  There is no    *)
(* atomic test-and-set, so an agent writes its id, waits, and looks        *)
(* whether the id is still there.                                          *)
(*                                                                         *)
(* timer[a] is the time left of what agent a is doing: of its update, when *)
(* one is under way, or of its sleep.                                      *)
(***************************************************************************)
EXTENDS Naturals

CONSTANTS
  Agent,      \* the agents, each with the id it draws in getBulkloadLock
  Blank,      \* the empty nickname
  LockSleep,  \* the sleep between write and look, and between polls: 2 s
  MaxUpdate   \* longest time from reading a blank nickname to writing it

ASSUME LockAssumption ==
  /\ Blank \notin Agent
  /\ LockSleep \in Nat
  /\ MaxUpdate \in Nat
  /\ MaxUpdate < LockSleep

VARIABLES
  nickname,  \* the nickname of the admin user, on the server
  pc,        \* where each agent is
  timer,     \* the time left to each agent
  cleared,   \* history: has the lock ever been released?
  failed     \* history: has a request failed, or an agent died?

vars == <<nickname, pc, timer, cleared, failed>>

(* An agent that holds, or believes to hold, the lock.                     *)
Importing == {"import", "release", "clear"}

Location ==
  {"start", "set", "sleep", "wait", "ready", "crashed"} \union Importing

TypeOK ==
  /\ nickname \in Agent \union {Blank}
  /\ pc \in [Agent -> Location]
  /\ timer \in [Agent -> 0 .. LockSleep]
  /\ cleared \in BOOLEAN
  /\ failed \in BOOLEAN

Init ==
  /\ nickname = Blank
  /\ pc = [a \in Agent |-> "start"]
  /\ timer = [a \in Agent |-> 0]
  /\ cleared = FALSE
  /\ failed = FALSE

Goto(a, l, t) ==
  /\ pc' = [pc EXCEPT ![a] = l]
  /\ timer' = [timer EXCEPT ![a] = t]

-----------------------------------------------------------------------------
(* getBulkloadLock.                                                        *)

(* GetMe: a blank nickname is there for the taking.                        *)
LookFirst(a) ==
  /\ pc[a] = "start"
  /\ IF nickname = Blank THEN Goto(a, "set", MaxUpdate) ELSE Goto(a, "wait", LockSleep)
  /\ UNCHANGED <<nickname, cleared, failed>>

(* UpdateUser writes the agent's id, whatever the nickname is by now.      *)
SetLock(a) ==
  /\ pc[a] = "set"
  /\ nickname' = a
  /\ Goto(a, "sleep", LockSleep)
  /\ UNCHANGED <<cleared, failed>>

(* Mutant: no sleep between writing the id and looking whether it stays.   *)
LookAgainAtOnce(a) ==
  /\ pc[a] = "sleep"
  /\ IF nickname = a THEN Goto(a, "import", 0) ELSE Goto(a, "wait", LockSleep)
  /\ UNCHANGED <<nickname, cleared, failed>>

(* GetMe, after the sleep: is the id still there?                          *)
LookAgain(a) ==
  /\ pc[a] = "sleep"
  /\ timer[a] = 0
  /\ IF nickname = a THEN Goto(a, "import", 0) ELSE Goto(a, "wait", LockSleep)
  /\ UNCHANGED <<nickname, cleared, failed>>

(* Mutant: the poll waits for the agent's own id.                          *)
PollOwnId(a) ==
  /\ pc[a] = "wait"
  /\ timer[a] = 0
  /\ IF nickname = a THEN Goto(a, "import", 0) ELSE Goto(a, "wait", LockSleep)
  /\ UNCHANGED <<nickname, cleared, failed>>

(* GetMe, at every poll: a waiting agent goes ahead once the nickname is   *)
(* blank, without writing it.                                              *)
Poll(a) ==
  /\ pc[a] = "wait"
  /\ timer[a] = 0
  /\ IF nickname = Blank THEN Goto(a, "import", 0) ELSE Goto(a, "wait", LockSleep)
  /\ UNCHANGED <<nickname, cleared, failed>>

(* A request fails: getBulkloadLock returns false, and SetupServer goes on *)
(* without the import.  An update may have reached the server all the same.*)
LockFails(a) ==
  /\ \/ pc[a] = "start"
     \/ pc[a] \in {"sleep", "wait"} /\ timer[a] = 0
     \/ pc[a] = "set"
  /\ \/ pc[a] = "set" /\ nickname' = a
     \/ UNCHANGED nickname
  /\ Goto(a, "ready", 0)
  /\ failed' = TRUE
  /\ UNCHANGED cleared

-----------------------------------------------------------------------------
(* The import, and releaseBulkloadLock, deferred, whatever comes of it.    *)

Import(a) ==
  /\ pc[a] = "import"
  /\ Goto(a, "release", 0)
  /\ UNCHANGED <<nickname, cleared, failed>>

(* GetMe: a blank nickname means somebody else released the lock.          *)
LookRelease(a) ==
  /\ pc[a] = "release"
  /\ IF nickname = Blank THEN Goto(a, "ready", 0) ELSE Goto(a, "clear", 0)
  /\ UNCHANGED <<nickname, cleared, failed>>

(* UpdateUser blanks the nickname, whosever id it is.                      *)
ClearLock(a) ==
  /\ pc[a] = "clear"
  /\ nickname' = Blank
  /\ cleared' = TRUE
  /\ Goto(a, "ready", 0)
  /\ UNCHANGED failed

(* A request to release fails, which is logged.                            *)
ReleaseFails(a) ==
  /\ pc[a] \in {"release", "clear"}
  /\ \/ pc[a] = "clear" /\ nickname' = Blank /\ cleared' = TRUE
     \/ UNCHANGED <<nickname, cleared>>
  /\ Goto(a, "ready", 0)
  /\ failed' = TRUE

-----------------------------------------------------------------------------

(* The agent dies; nobody else knows.                                      *)
Crash(a) ==
  /\ pc[a] \notin {"ready", "crashed"}
  /\ Goto(a, "crashed", 0)
  /\ failed' = TRUE
  /\ UNCHANGED <<nickname, cleared>>

(* Time passes for everybody.  Assumed: an update is through in MaxUpdate. *)
Tick ==
  /\ \E a \in Agent : timer[a] > 0
  /\ \A a \in Agent : pc[a] = "set" => timer[a] > 0
  /\ timer' = [a \in Agent |-> IF timer[a] > 0 THEN timer[a] - 1 ELSE 0]
  /\ UNCHANGED <<nickname, pc, cleared, failed>>

AgentStep(a) ==
  \/ LookFirst(a)
  \/ SetLock(a)
  \/ LookAgain(a)
  \/ Poll(a)
  \/ Import(a)
  \/ LookRelease(a)
  \/ ClearLock(a)

Next ==
  \/ \E a \in Agent : AgentStep(a) \/ LockFails(a) \/ ReleaseFails(a) \/ Crash(a)
  \/ Tick

Spec == Init /\ [][Next]_vars

(* A program that runs takes its next step, and time passes.               *)
Fairness == WF_vars(Tick) /\ \A a \in Agent : WF_vars(AgentStep(a))

FairSpec == Spec /\ Fairness

-----------------------------------------------------------------------------
(* Properties.                                                             *)

(* An importing agent is alone, as line 118 has it: "Acquiring bulkload    *)
(* lock".                                                                  *)
ImportExclusive ==
  \A a, b \in Agent : pc[a] = "import" /\ pc[b] = "import" => a = b

(* Until the first release it is alone, however many agents start at once: *)
(* the write, the sleep and the second look elect one of them.             *)
ExclusiveUntilCleared ==
  ~ cleared => ImportExclusive

(* While nothing fails, an agent whose id is the nickname will blank it:   *)
(* nobody waits for an agent that is gone.                                 *)
LockHasOwner ==
  ~ failed /\ nickname # Blank => pc[nickname] \in {"sleep"} \union Importing

(* While nothing fails, every agent gets past the import.                  *)
EveryoneProceeds ==
  <>failed \/ \A a \in Agent : <>(pc[a] = "ready")

=============================================================================
