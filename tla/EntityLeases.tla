---------------------------- MODULE EntityLeases ----------------------------
(***************************************************************************)
(* What the registry of agents is for, without clocks, rows or retries:    *)
(* each agent that runs holds a set of entities, and an entity is held by  *)
(* one agent at a time.                                                    *)
(***************************************************************************)
EXTENDS Naturals

CONSTANT Agent

VARIABLE held  \* held[a]: the entities agent a simulates

Init == held = [a \in Agent |-> {}]

(* An agent obtains entities nobody else holds.                            *)
Lease(a) ==
  /\ held[a] = {}
  /\ held' \in [Agent -> SUBSET Nat]
  /\ \A b \in Agent \ {a} : held'[b] = held[b] /\ held'[a] \intersect held[b] = {}

(* An agent gives up all its entities at once.                             *)
GiveUp(a) == held' = [held EXCEPT ![a] = {}]

Next == \E a \in Agent : Lease(a) \/ GiveUp(a)

Spec == Init /\ [][Next]_held

=============================================================================
