-------------------------- MODULE InstancesProofs --------------------------
(***************************************************************************)
(* Any number of agents, any timing the assumptions of Instances allow:    *)
(* proofs that agents never share entities or users.                       *)
(***************************************************************************)
EXTENDS Instances, TLAPS

(* The table's two keys are unique.                                        *)
KeysUnique ==
  \A r, s \in table : (r.id = s.id \/ r.idx = s.idx) => r = s

(* No deadline assumed has passed.                                         *)
DeadlinesMet ==
  \A i \in Id :
    /\ now[i] <= clock
    /\ pc[i] \in Starting => clock <= now[i] + MaxStartup
    /\ pc[i] \in Registered => clock <= due[i] + MaxDelay

(* An agent's row stays in the table from its insertion until Close: it is *)
(* refreshed by the next heartbeat, at the latest, before it expires.      *)
OwnRow ==
  \A i \in Id :
    /\ pc[i] = "seed" =>
         \E r \in table : r.id = i /\ r.idx = index[i] /\ r.activeAt = now[i]
    /\ pc[i] \in Registered =>
         \E r \in table :
           /\ r.id = i
           /\ r.idx = index[i]
           /\ due[i] + MaxDelay < r.activeAt + InstanceExpiredInterval

(* Until index 0 is given up its row holds the seed everybody read.        *)
ZeroRow ==
  ~ zeroGone =>
    \A i \in Id : pc[i] \in Registered =>
      \E r \in table : r.idx = 0 /\ r.createAt = seed[i]

(* RunTest lets an agent run only on entities that have a user.            *)
EnoughUsers ==
  \A i \in Id : pc[i] = "running" =>
    EntityStartNum(index[i]) + NumActiveEntities <= NumUsers

IInv ==
  /\ KeysUnique
  /\ DeadlinesMet
  /\ OwnRow
  /\ ZeroRow
  /\ EnoughUsers

-----------------------------------------------------------------------------

(* The variables of every agent keep their types, and the table its        *)
(* columns', whatever agents start, fail, stop or crash.                   *)
THEOREM TypeCorrect == Spec => []TypeOK
<1> USE TimingAssumption, ConfigAssumption
<1>1. Init => TypeOK
  <2> SUFFICES ASSUME Init PROVE TypeOK
    OBVIOUS
  <2>1. 0 \in Time /\ 1 \in 1 .. InsertAttempts /\ "off" \in Location
    BY DEF Time, Location
  <2>2. zeroGone \in BOOLEAN
    BY DEF Init
  <2> QED
    BY <2>1, <2>2 DEF Init, TypeOK
<1>2. TypeOK /\ [Next]_vars => TypeOK'
  <2> SUFFICES ASSUME TypeOK, [Next]_vars
               PROVE  TypeOK'
    OBVIOUS
  <2> USE DEF TypeOK, Goto, Exit, SetTable, Time, Location, Starting, Registered
  <2>1. ASSUME NEW i \in Id, Start(i) PROVE TypeOK'
    BY <2>1 DEF Start
  <2>2. ASSUME NEW i \in Id, Prune(i) PROVE TypeOK'
    <3>1. Unexpired(now[i]) \subseteq table
      BY DEF Unexpired
    <3>2. table' \in SUBSET Row
      BY <2>2, <3>1 DEF Prune
    <3>3. zeroGone' \in BOOLEAN
      BY <2>2, ZenonT(20) DEF Prune
    <3> QED
      BY <2>2, <3>2, <3>3 DEF Prune
  <2>3. ASSUME NEW i \in Id, Select(i) PROVE TypeOK'
    <3>1. AvailableIndexes \subseteq Nat
      BY DEF AvailableIndexes, Row
    <3> QED
      BY <2>3, <3>1 DEF Select
  <2>4. ASSUME NEW i \in Id, Insert(i) PROVE TypeOK'
    <3>1. [id |-> i, idx |-> index[i], createAt |-> now[i], activeAt |-> now[i]] \in Row
      BY DEF Row
    <3>2. zeroGone' \in BOOLEAN
      BY <2>4, ZenonT(20) DEF Insert
    <3> QED
      BY <2>4, <3>1, <3>2 DEF Insert
  <2>5. ASSUME NEW i \in Id, InsertFails(i) PROVE TypeOK'
    BY <2>5 DEF InsertFails
  <2>6. ASSUME NEW i \in Id, ReadSeed(i) PROVE TypeOK'
    <3>1. CoordinatedRandomSeed \subseteq Time
      BY DEF CoordinatedRandomSeed, Row
    <3> QED
      BY <2>6, <3>1 DEF ReadSeed, InstanceExpiredInterval
  <2>7. ASSUME NEW i \in Id, StartFails(i) PROVE TypeOK'
    BY <2>7 DEF StartFails
  <2>8. ASSUME NEW i \in Id, Begin(i) PROVE TypeOK'
    BY <2>8 DEF Begin
  <2>9. ASSUME NEW i \in Id, Heartbeat(i) PROVE TypeOK'
    <3>1. due[i] \in Time
      BY <2>9 DEF Heartbeat
    <3>2. \A r \in table : [r EXCEPT !.activeAt = due[i]] \in Row
      BY <3>1 DEF Row
    <3> QED
      BY <2>9, <3>2 DEF Heartbeat
  <2>10. ASSUME NEW i \in Id, HeartbeatFails(i) PROVE TypeOK'
    BY <2>10 DEF HeartbeatFails
  <2>11. ASSUME NEW i \in Id, Stop(i) PROVE TypeOK'
    BY <2>11 DEF Stop
  <2>12. ASSUME NEW i \in Id, Delete(i) PROVE TypeOK'
    <3>1. zeroGone' \in BOOLEAN
      BY <2>12, ZenonT(20) DEF Delete
    <3> QED
      BY <2>12, <3>1 DEF Delete
  <2>13. ASSUME NEW i \in Id, Crash(i) PROVE TypeOK'
    BY <2>13 DEF Crash
  <2>14. CASE Tick
    BY <2>14 DEF Tick
  <2>15. CASE UNCHANGED vars
    BY <2>15 DEF vars
  <2> QED
    BY <2>1, <2>2, <2>3, <2>4, <2>5, <2>6, <2>7, <2>8, <2>9, <2>10, <2>11,
       <2>12, <2>13, <2>14, <2>15 DEF Next, StartupStep
<1>3. QED
  BY <1>1, <1>2, PTL DEF Spec

-----------------------------------------------------------------------------
(* The rows of an agent that is past its insertion are not disturbed by    *)
(* what the others do to the table.                                        *)

(* An agent prunes with the time it read when it started, so it never      *)
(* deletes the row of an agent that beats, or started, in time.            *)
LEMMA PruneSparesOwners ==
  ASSUME TypeOK, DeadlinesMet, OwnRow, NEW i \in Id,
         NEW j \in Id, pc[j] \in {"seed"} \union Registered
  PROVE  \E r \in Unexpired(now[i]) :
           /\ r.id = j
           /\ r.idx = index[j]
           /\ pc[j] = "seed" => r.activeAt = now[j]
           /\ pc[j] \in Registered =>
                due[j] + MaxDelay < r.activeAt + InstanceExpiredInterval
<1> USE TimingAssumption, ConfigAssumption
<1>1. PICK r \in table :
        /\ r.id = j
        /\ r.idx = index[j]
        /\ pc[j] = "seed" => r.activeAt = now[j]
        /\ pc[j] \in Registered =>
             due[j] + MaxDelay < r.activeAt + InstanceExpiredInterval
  BY DEF OwnRow, Registered
<1>2. r.activeAt \in Nat /\ clock \in Nat /\ now[i] \in Nat /\ now[j] \in Nat
      /\ due[j] \in Nat
  BY DEF TypeOK, Row, Time
<1>3. clock < r.activeAt + InstanceExpiredInterval
  <2>1. CASE pc[j] = "seed"
    BY <1>1, <1>2, <2>1 DEF DeadlinesMet, Starting, InstanceExpiredInterval
  <2>2. CASE pc[j] \in Registered
    BY <1>1, <1>2, <2>2 DEF DeadlinesMet, InstanceExpiredInterval
  <2> QED
    BY <2>1, <2>2
<1>4. r \in Unexpired(now[i])
  BY <1>2, <1>3 DEF Unexpired, DeadlinesMet, InstanceExpiredInterval
<1> QED
  BY <1>1, <1>4

(* A heartbeat rewrites one column of the agent's own row.                 *)
LEMMA HeartbeatRows ==
  ASSUME TypeOK, NEW i \in Id, Heartbeat(i)
  PROVE  /\ \A r \in table : \E s \in table' :
              /\ s.id = r.id /\ s.idx = r.idx /\ s.createAt = r.createAt
              /\ s.activeAt = IF r.id = i THEN due[i] ELSE r.activeAt
         /\ \A s \in table' : \E r \in table :
              s = IF r.id = i THEN [r EXCEPT !.activeAt = due[i]] ELSE r
<1>1. \A r \in table : LET s == IF r.id = i THEN [r EXCEPT !.activeAt = due[i]] ELSE r
                       IN  /\ s.id = r.id /\ s.idx = r.idx /\ s.createAt = r.createAt
                           /\ s.activeAt = IF r.id = i THEN due[i] ELSE r.activeAt
  BY DEF TypeOK, Row
<1>2. table' = {IF r.id = i THEN [r EXCEPT !.activeAt = due[i]] ELSE r : r \in table}
  BY DEF Heartbeat
<1> QED
  BY <1>1, <1>2

-----------------------------------------------------------------------------

(* Every step of every agent, and time passing, keep the invariant.        *)
LEMMA IInvInductive ==
  ASSUME TypeOK, TypeOK', IInv, [Next]_vars
  PROVE  IInv'
<1> USE TimingAssumption, ConfigAssumption
<1> USE DEF Starting, Registered
<1>1. ASSUME NEW i \in Id, Start(i) PROVE IInv'
  <2>1. pc'[i] = "prune" /\ now'[i] = clock
    BY <1>1 DEF Start, Goto, TypeOK
  <2>2. DeadlinesMet'
    BY <1>1, <2>1 DEF Start, Goto, DeadlinesMet, IInv, TypeOK, Time
  <2> QED
    BY <1>1, <2>1, <2>2 DEF Start, Goto, IInv, KeysUnique, OwnRow, ZeroRow,
       EnoughUsers, EntityStartNum, TypeOK
<1>2. ASSUME NEW i \in Id, Prune(i) PROVE IInv'
  <2>0. pc' = [pc EXCEPT ![i] = "select"] /\ UNCHANGED <<clock, now, index, seed, due>>
    BY <1>2 DEF Prune, Goto
  <2>1. DeadlinesMet'
    BY <1>2, <2>0 DEF Prune, DeadlinesMet, IInv, TypeOK
  <2>2. EnoughUsers'
    BY <2>0 DEF IInv, EnoughUsers, EntityStartNum, TypeOK
  <2>3. CASE SetTable(Unexpired(now[i]))
    <3>1. table' = Unexpired(now[i]) /\ table' \subseteq table
      BY <2>3 DEF SetTable, Unexpired
    <3>2. KeysUnique'
      BY <3>1 DEF IInv, KeysUnique
    <3>3. OwnRow'
      BY <2>0, <3>1, PruneSparesOwners DEF IInv, OwnRow, TypeOK
    <3>4. ~ zeroGone' => ~ zeroGone /\ (HasIdx(table, 0) => HasIdx(table', 0))
      BY <2>3, Zenon DEF SetTable
    <3>5. ZeroRow'
      BY <2>0, <3>1, <3>4 DEF IInv, ZeroRow, KeysUnique, HasIdx, TypeOK
    <3> QED
      BY <2>1, <2>2, <3>2, <3>3, <3>5 DEF IInv
  <2>4. CASE UNCHANGED <<table, zeroGone>>
    BY <2>0, <2>1, <2>2, <2>4 DEF IInv, KeysUnique, OwnRow, ZeroRow, TypeOK
  <2> QED
    BY <1>2, <2>3, <2>4 DEF Prune
<1>3. ASSUME NEW i \in Id, Select(i) PROVE IInv'
  <2>1. /\ pc' = [pc EXCEPT ![i] = "insert"]
        /\ \A j \in Id \ {i} : index'[j] = index[j]
        /\ UNCHANGED <<clock, table, now, seed, due, zeroGone>>
    BY <1>3 DEF Select, Goto, TypeOK
  <2>2. pc[i] = "select"
    BY <1>3 DEF Select
  <2>3. DeadlinesMet'
    BY <2>1, <2>2 DEF DeadlinesMet, IInv, TypeOK
  <2>4. OwnRow'
    BY <2>1, <2>2 DEF OwnRow, IInv, TypeOK
  <2> QED
    BY <2>1, <2>2, <2>3, <2>4 DEF IInv, KeysUnique, ZeroRow, EnoughUsers,
       EntityStartNum, TypeOK
<1>4. ASSUME NEW i \in Id, Insert(i) PROVE IInv'
  <2> DEFINE new == [id |-> i, idx |-> index[i], createAt |-> now[i], activeAt |-> now[i]]
  <2>1. /\ pc[i] = "insert"
        /\ pc' = [pc EXCEPT ![i] = "seed"]
        /\ table' = table \union {new}
        /\ UNCHANGED <<clock, now, index, seed, due>>
    BY <1>4 DEF Insert, Goto, SetTable
  <2>2. KeysUnique'
    BY <1>4, <2>1 DEF Insert, Conflicts, IInv, KeysUnique
  <2>3. DeadlinesMet'
    BY <2>1 DEF DeadlinesMet, IInv, TypeOK
  <2>4. OwnRow'
    <3>1. new.id = i /\ new.idx = index[i] /\ new.activeAt = now[i]
      OBVIOUS
    <3> HIDE DEF new
    <3> QED
      BY <2>1, <3>1 DEF OwnRow, IInv, TypeOK
  <2>5. ~ zeroGone' => ~ zeroGone
    BY <1>4, Zenon DEF Insert, SetTable
  <2>6. ZeroRow'
    BY <2>1, <2>5 DEF ZeroRow, IInv, TypeOK
  <2>7. EnoughUsers'
    BY <2>1 DEF EnoughUsers, EntityStartNum, IInv, TypeOK
  <2> QED
    BY <2>2, <2>3, <2>4, <2>6, <2>7 DEF IInv
<1>5. ASSUME NEW i \in Id, ReadSeed(i) PROVE IInv'
  <2>1. /\ pc[i] = "seed"
        /\ pc' = [pc EXCEPT ![i] = "registered"]
        /\ now' = [now EXCEPT ![i] = 0]
        /\ due' = [due EXCEPT ![i] = clock + InstanceHeartbeatInterval]
        /\ UNCHANGED <<clock, table, index, zeroGone>>
    BY <1>5 DEF ReadSeed, Goto
  <2>2. PICK z \in table : z.idx = 0 /\ seed' = [seed EXCEPT ![i] = z.createAt]
    BY <1>5 DEF ReadSeed, CoordinatedRandomSeed
  <2>3. DeadlinesMet'
    BY <2>1 DEF DeadlinesMet, IInv, TypeOK, Time
  <2>4. OwnRow'
    <3>1. PICK r \in table : r.id = i /\ r.idx = index[i] /\ r.activeAt = now[i]
      BY <2>1 DEF IInv, OwnRow
    <3>2. due'[i] + MaxDelay < r.activeAt + InstanceExpiredInterval
      BY <2>1, <3>1 DEF IInv, DeadlinesMet, InstanceExpiredInterval, TypeOK, Time
    <3>3. ASSUME NEW j \in Id \ {i}
          PROVE  pc'[j] = pc[j] /\ due'[j] = due[j] /\ now'[j] = now[j]
      BY <2>1 DEF TypeOK
    <3> QED
      BY <2>1, <3>1, <3>2, <3>3 DEF IInv, OwnRow, TypeOK
  <2>5. ZeroRow'
    BY <2>1, <2>2 DEF ZeroRow, IInv, TypeOK
  <2> QED
    BY <2>1, <2>3, <2>4, <2>5 DEF IInv, KeysUnique, EnoughUsers, EntityStartNum, TypeOK
<1>6. ASSUME NEW i \in Id, Begin(i) PROVE IInv'
  <2>1. /\ pc[i] = "registered"
        /\ pc'[i] \in {"running", "closing"}
        /\ \A j \in Id \ {i} : pc'[j] = pc[j]
        /\ UNCHANGED <<clock, table, now, index, seed, due, zeroGone>>
    BY <1>6 DEF Begin, Goto, TypeOK
  <2>2. pc'[i] = "running" => EntityStartNum(index[i]) + NumActiveEntities <= NumUsers
    <3>1. CASE EntityStartNum(index[i]) + NumActiveEntities > NumUsers
      BY <1>6, <3>1 DEF Begin, Goto, TypeOK
    <3>2. CASE ~ (EntityStartNum(index[i]) + NumActiveEntities > NumUsers)
      <4>1. EntityStartNum(index[i]) \in Nat
        BY DEF EntityStartNum, TypeOK
      <4> QED
        BY <3>2, <4>1
    <3> QED
      BY <3>1, <3>2
  <2>3. EnoughUsers'
    BY <2>1, <2>2 DEF EnoughUsers, EntityStartNum, IInv
  <2> QED
    BY <2>1, <2>3 DEF IInv, KeysUnique, DeadlinesMet, OwnRow, ZeroRow
<1>7. ASSUME NEW i \in Id, Heartbeat(i) PROVE IInv'
  <2>1. /\ pc[i] \in Registered
        /\ due' = [due EXCEPT ![i] = due[i] + InstanceHeartbeatInterval]
        /\ UNCHANGED <<clock, pc, now, index, seed, zeroGone>>
    BY <1>7 DEF Heartbeat
  <2>2. KeysUnique'
    BY <1>7, HeartbeatRows DEF KeysUnique, IInv, TypeOK, Row
  <2>3. DeadlinesMet'
    BY <2>1 DEF DeadlinesMet, IInv, TypeOK, Time
  <2>4. ASSUME NEW j \in Id, pc[j] = "seed"
        PROVE  \E r \in table' : r.id = j /\ r.idx = index[j] /\ r.activeAt = now[j]
    BY <1>7, <2>1, <2>4, HeartbeatRows DEF OwnRow, IInv
  <2>5. ASSUME NEW j \in Id, pc[j] \in Registered
        PROVE  \E r \in table' :
                 /\ r.id = j
                 /\ r.idx = index[j]
                 /\ due'[j] + MaxDelay < r.activeAt + InstanceExpiredInterval
    <3>1. PICK r \in table :
            /\ r.id = j
            /\ r.idx = index[j]
            /\ due[j] + MaxDelay < r.activeAt + InstanceExpiredInterval
      BY <2>5 DEF OwnRow, IInv
    <3>2. PICK s \in table' :
            /\ s.id = j /\ s.idx = index[j]
            /\ s.activeAt = IF j = i THEN due[i] ELSE r.activeAt
      BY <1>7, <3>1, HeartbeatRows
    <3>3. CASE j = i
      BY <2>1, <3>2, <3>3 DEF InstanceExpiredInterval, TypeOK
    <3>4. CASE j # i
      BY <2>1, <3>1, <3>2, <3>4 DEF TypeOK
    <3> QED
      BY <3>3, <3>4
  <2>6. OwnRow'
    BY <2>1, <2>4, <2>5 DEF OwnRow
  <2>7. ZeroRow'
    <3>1. \A r \in table : \E s \in table' : s.idx = r.idx /\ s.createAt = r.createAt
      BY <1>7, HeartbeatRows
    <3> QED
      BY <2>1, <3>1 DEF ZeroRow, IInv
  <2> QED
    BY <2>1, <2>2, <2>3, <2>6, <2>7 DEF IInv, EnoughUsers, EntityStartNum
<1>8. ASSUME NEW i \in Id, HeartbeatFails(i) PROVE IInv'
  <2>1. /\ pc[i] \in Registered
        /\ due' = [due EXCEPT ![i] = due[i] + InstanceHeartbeatInterval]
        /\ UNCHANGED <<clock, table, pc, now, index, seed, zeroGone>>
        /\ \A r \in table : r.id = i =>
             due[i] + InstanceHeartbeatInterval + MaxDelay
               < r.activeAt + InstanceExpiredInterval
    BY <1>8 DEF HeartbeatFails
  <2>2. DeadlinesMet'
    BY <2>1 DEF DeadlinesMet, IInv, TypeOK, Time
  <2>3. due'[i] = due[i] + InstanceHeartbeatInterval
        /\ \A j \in Id \ {i} : due'[j] = due[j]
    BY <2>1 DEF TypeOK
  <2>4. OwnRow'
    BY <2>1, <2>3 DEF OwnRow, IInv, TypeOK
  <2> QED
    BY <2>1, <2>2, <2>4 DEF IInv, KeysUnique, ZeroRow, EnoughUsers, EntityStartNum
<1>9. ASSUME NEW i \in Id, Stop(i) PROVE IInv'
  BY <1>9 DEF Stop, Goto, IInv, KeysUnique, DeadlinesMet, OwnRow, ZeroRow,
     EnoughUsers, EntityStartNum, TypeOK
<1>10. ASSUME NEW i \in Id, Exit(i), UNCHANGED clock,
              table' \subseteq table, \A r \in table : r.id # i => r \in table',
              ~ zeroGone' => ~ zeroGone /\ (HasIdx(table, 0) => HasIdx(table', 0))
       PROVE  IInv'
  <2>1. /\ pc'[i] = "ended" /\ now'[i] = 0
        /\ \A j \in Id \ {i} :
             /\ pc'[j] = pc[j] /\ now'[j] = now[j] /\ index'[j] = index[j]
             /\ seed'[j] = seed[j] /\ due'[j] = due[j]
    BY <1>10 DEF Exit, Goto, TypeOK
  <2>2. KeysUnique'
    BY <1>10 DEF IInv, KeysUnique
  <2>3. DeadlinesMet'
    BY <1>10, <2>1 DEF DeadlinesMet, IInv, TypeOK, Time
  <2>4. OwnRow'
    BY <1>10, <2>1 DEF OwnRow, IInv
  <2>5. ZeroRow'
    BY <1>10, <2>1 DEF ZeroRow, KeysUnique, HasIdx, IInv
  <2>6. EnoughUsers'
    BY <2>1 DEF EnoughUsers, EntityStartNum, IInv
  <2> QED
    BY <2>2, <2>3, <2>4, <2>5, <2>6 DEF IInv
<1>11. ASSUME NEW i \in Id, InsertFails(i) PROVE IInv'
  <2>1. CASE attempts[i] < InsertAttempts
    <3>1. /\ pc[i] = "insert"
          /\ pc' = [pc EXCEPT ![i] = "select"]
          /\ UNCHANGED <<clock, table, now, index, seed, due, zeroGone>>
      BY <1>11, <2>1 DEF InsertFails, Goto, TypeOK
    <3> QED
      BY <3>1 DEF IInv, KeysUnique, DeadlinesMet, OwnRow, ZeroRow,
         EnoughUsers, EntityStartNum, TypeOK
  <2>2. CASE attempts[i] = InsertAttempts
    <3>1. Exit(i) /\ UNCHANGED <<clock, table, zeroGone>>
      BY <1>11, <2>2 DEF InsertFails, TypeOK
    <3> QED
      BY <1>10, <3>1 DEF HasIdx
  <2> QED
    BY <1>11, <2>1, <2>2 DEF InsertFails
<1>12. ASSUME NEW i \in Id, StartFails(i) PROVE IInv'
  BY <1>10, <1>12 DEF StartFails, HasIdx
<1>13. ASSUME NEW i \in Id, Delete(i) PROVE IInv'
  <2>1. CASE SetTable({r \in table : r.id # i})
    <3>1. table' = {r \in table : r.id # i}
      BY <2>1 DEF SetTable
    <3>2. ~ zeroGone' => ~ zeroGone /\ (HasIdx(table, 0) => HasIdx(table', 0))
      BY <2>1, Zenon DEF SetTable
    <3> QED
      BY <1>10, <1>13, <3>1, <3>2 DEF Delete
  <2>2. CASE UNCHANGED <<table, zeroGone>>
    BY <1>10, <1>13, <2>2 DEF Delete, HasIdx
  <2> QED
    BY <1>13, <2>1, <2>2 DEF Delete
<1>14. ASSUME NEW i \in Id, Crash(i) PROVE IInv'
  BY <1>10, <1>14 DEF Crash, HasIdx
<1>15. CASE Tick
  <2>1. DeadlinesMet'
    BY <1>15 DEF Tick, DeadlinesMet, IInv, TypeOK, Time
  <2> QED
    BY <1>15, <2>1 DEF Tick, IInv, KeysUnique, OwnRow, ZeroRow, EnoughUsers, EntityStartNum
<1>16. CASE UNCHANGED vars
  BY <1>16 DEF vars, IInv, KeysUnique, DeadlinesMet, OwnRow, ZeroRow, EnoughUsers,
     EntityStartNum
<1> QED
  BY <1>1, <1>2, <1>3, <1>4, <1>5, <1>6, <1>7, <1>8, <1>9, <1>11, <1>12, <1>13,
     <1>14, <1>15, <1>16 DEF Next, StartupStep

-----------------------------------------------------------------------------

LEMMA Invariance == Spec => []IInv
<1>1. Init => IInv
  BY DEF Init, IInv, KeysUnique, DeadlinesMet, OwnRow, ZeroRow, EnoughUsers,
     Starting, Registered
<1>2. TypeOK /\ TypeOK' /\ IInv /\ [Next]_vars => IInv'
  BY IInvInductive
<1> QED
  BY <1>1, <1>2, TypeCorrect, PTL DEF Spec

(* An agent that beats on time keeps its row, and keeps it recent.         *)
THEOREM RowsKept == Spec => []RegisteredHasRow
<1>1. TypeOK /\ IInv => RegisteredHasRow
  <2> SUFFICES ASSUME TypeOK, IInv, NEW i \in Id, pc[i] \in Registered
               PROVE  \E r \in table :
                        /\ r.id = i
                        /\ r.idx = index[i]
                        /\ r.activeAt > clock - InstanceExpiredInterval
    BY DEF RegisteredHasRow
  <2>1. PICK r \in table :
          /\ r.id = i
          /\ r.idx = index[i]
          /\ due[i] + MaxDelay < r.activeAt + InstanceExpiredInterval
    BY DEF IInv, OwnRow
  <2>2. clock <= due[i] + MaxDelay
    BY DEF IInv, DeadlinesMet
  <2>3. r.activeAt > clock - InstanceExpiredInterval
    BY <2>1, <2>2, TimingAssumption DEF TypeOK, Row, Time, InstanceExpiredInterval
  <2> QED
    BY <2>1, <2>3
<1> QED
  BY <1>1, TypeCorrect, Invariance, PTL

(* Agents registered at the same time have different indexes.              *)
LEMMA DistinctIndexes ==
  ASSUME IInv, NEW i \in Id, NEW j \in Id, i # j,
         pc[i] \in Registered, pc[j] \in Registered
  PROVE  index[i] # index[j]
BY DEF IInv, OwnRow, KeysUnique

(* The blocks of entities of different indexes are disjoint.               *)
LEMMA DisjointBlocks ==
  ASSUME NEW k \in Nat, NEW l \in Nat, k # l,
         NEW d \in EntityStartNum(k) .. EntityStartNum(k) + NumActiveEntities - 1,
         NEW e \in EntityStartNum(l) .. EntityStartNum(l) + NumActiveEntities - 1
  PROVE  d # e
<1> USE ConfigAssumption
<1>1. ASSUME NEW a \in Nat, NEW b \in Nat, a < b
      PROVE  EntityStartNum(a) + NumActiveEntities <= EntityStartNum(b)
  <2>1. PICK c \in Nat : b = a + 1 + c
    <3>1. b - a - 1 \in Nat /\ b = a + 1 + (b - a - 1)
      BY <1>1
    <3> QED
      BY <3>1
  <2>2. b * NumActiveEntities
          = a * NumActiveEntities + NumActiveEntities + c * NumActiveEntities
    BY <2>1
  <2>3. c * NumActiveEntities \in Nat /\ a * NumActiveEntities \in Nat
    OBVIOUS
  <2> QED
    BY <2>2, <2>3 DEF EntityStartNum
<1>2. EntityStartNum(k) \in Nat /\ EntityStartNum(l) \in Nat
  BY DEF EntityStartNum
<1>3. CASE k < l
  BY <1>1, <1>2, <1>3
<1>4. CASE l < k
  BY <1>1, <1>2, <1>4
<1> QED
  BY <1>3, <1>4

(* No entity is simulated by two agents at a time.                         *)
THEOREM EntitiesNotShared == Spec => []NoSharedEntities
<1>1. TypeOK /\ IInv => NoSharedEntities
  BY DistinctIndexes, DisjointBlocks DEF NoSharedEntities, Entities, TypeOK
<1> QED
  BY <1>1, TypeCorrect, Invariance, PTL

(* Until index 0 is given up, all registered agents share one seed.        *)
THEOREM SeedsAreCoordinated == Spec => []SeedsCoordinated
<1>1. IInv => SeedsCoordinated
  BY DEF IInv, ZeroRow, KeysUnique, SeedsCoordinated
<1> QED
  BY <1>1, Invariance, PTL

(* No user is played by two agents at a time, shuffled or not.             *)
THEOREM UsersNotShared == Spec => []NoSharedUsers
<1>1. TypeOK /\ IInv => NoSharedUsers
  <2> SUFFICES ASSUME TypeOK, IInv, RandomizeEntitySelection => ~ zeroGone,
                      NEW i \in Id, NEW j \in Id, i # j,
                      pc[i] = "running", pc[j] = "running",
                      NEW d \in Entities(i), NEW e \in Entities(j)
               PROVE  UserNum(i, d) # UserNum(j, e)
    BY DEF NoSharedUsers
  <2>1. d # e
    BY DistinctIndexes, DisjointBlocks DEF Entities, TypeOK, Registered
  <2>2. d \in 0 .. NumUsers - 1 /\ e \in 0 .. NumUsers - 1
    <3>1. /\ EntityStartNum(index[i]) \in Nat
          /\ EntityStartNum(index[j]) \in Nat
      BY ConfigAssumption DEF EntityStartNum, TypeOK
    <3>2. /\ EntityStartNum(index[i]) + NumActiveEntities <= NumUsers
          /\ EntityStartNum(index[j]) + NumActiveEntities <= NumUsers
      BY DEF IInv, EnoughUsers
    <3> QED
      BY <3>1, <3>2, ConfigAssumption DEF Entities
  <2>3. CASE RandomizeEntitySelection
    <3>1. seed[i] = seed[j] /\ seed[i] \in 0 .. MaxTime
      BY <2>3 DEF IInv, ZeroRow, KeysUnique, Registered, TypeOK, Time
    <3>2. Order[seed[i]][d] # Order[seed[i]][e]
      BY <2>1, <2>2, <3>1, OrderAssumption
    <3> QED
      BY <2>3, <3>1, <3>2 DEF UserNum
  <2>4. CASE ~ RandomizeEntitySelection
    BY <2>1, <2>4 DEF UserNum
  <2> QED
    BY <2>3, <2>4
<1> QED
  BY <1>1, TypeCorrect, Invariance, PTL

-----------------------------------------------------------------------------
(* Refinement.                                                             *)

(* A step in which no agent but i enters or leaves the registered ones.    *)
LEMMA OthersHold ==
  ASSUME TypeOK, NEW i \in Id,
         \A j \in Id \ {i} : pc'[j] = pc[j] /\ index'[j] = index[j]
  PROVE  \A j \in Id \ {i} : Held'[j] = Held[j]
BY DEF Held, Entities

(* A step that takes agent i out of the registered ones, if it was there.  *)
LEMMA LeavingGivesUp ==
  ASSUME TypeOK, NEW i \in Id, pc'[i] \notin Registered,
         \A j \in Id \ {i} : pc'[j] = pc[j] /\ index'[j] = index[j]
  PROVE  Leases!GiveUp(i)
<1>1. Held'[i] = {} /\ Held \in [Id -> {Held[j] : j \in Id}]
      /\ Held' = [j \in Id |-> Held'[j]]
  BY DEF Held
<1>2. \A j \in Id \ {i} : Held'[j] = Held[j]
  BY OthersHold
<1> QED
  BY <1>1, <1>2 DEF Leases!GiveUp

(* A step that leaves everybody where they are, as far as leases go.       *)
LEMMA StayingHolds ==
  ASSUME \A j \in Id :
           /\ pc'[j] \in Registered <=> pc[j] \in Registered
           /\ pc[j] \in Registered => index'[j] = index[j]
  PROVE  UNCHANGED Held
BY DEF Held, Entities

(* The registry implements the leases.                                     *)
THEOREM RefinesLeases == Spec => ImplementsLeases
<1> USE DEF Registered, Starting
<1>1. Init => Leases!Init
  BY DEF Init, Leases!Init, Held
<1>2. TypeOK /\ TypeOK' /\ NoSharedEntities' /\ [Next]_vars => [Leases!Next]_Held
  <2> SUFFICES ASSUME TypeOK, TypeOK', NoSharedEntities', [Next]_vars
               PROVE  Leases!Next \/ UNCHANGED Held
    OBVIOUS
  <2>1. ASSUME NEW i \in Id, ReadSeed(i) PROVE Leases!Lease(i)
    <3>1. /\ pc[i] = "seed" /\ pc'[i] = "registered"
          /\ \A j \in Id \ {i} : pc'[j] = pc[j] /\ index'[j] = index[j]
      BY <2>1 DEF ReadSeed, Goto, TypeOK
    <3>2. Held[i] = {}
      BY <3>1 DEF Held
    <3>3. Held' \in [Id -> SUBSET Nat]
      <4>1. \A j \in Id : Entities(j)' \subseteq Nat
        BY ConfigAssumption DEF Entities, EntityStartNum, TypeOK
      <4> QED
        BY <4>1 DEF Held
    <3>4. \A j \in Id \ {i} : Held'[j] = Held[j]
      BY <3>1, OthersHold
    <3>5. \A j \in Id \ {i} : Held'[i] \intersect Held'[j] = {}
      BY DEF NoSharedEntities, Held
    <3> QED
      BY <3>2, <3>3, <3>4, <3>5 DEF Leases!Lease
  <2>2. ASSUME NEW i \in Id, Exit(i) PROVE Leases!GiveUp(i)
    BY <2>2, LeavingGivesUp DEF Exit, Goto, TypeOK
  <2>3. ASSUME NEW i \in Id, Begin(i) PROVE Leases!GiveUp(i) \/ UNCHANGED Held
    <3>1. CASE pc'[i] = "closing"
      BY <2>3, <3>1, LeavingGivesUp DEF Begin, Goto, TypeOK
    <3>2. CASE pc'[i] = "running"
      BY <2>3, <3>2, StayingHolds DEF Begin, Goto, TypeOK
    <3> QED
      BY <2>3, <3>1, <3>2 DEF Begin, Goto, TypeOK
  <2>4. ASSUME NEW i \in Id, Stop(i) PROVE Leases!GiveUp(i)
    BY <2>4, LeavingGivesUp DEF Stop, Goto, TypeOK
  <2>5. ASSUME NEW i \in Id,
               Start(i) \/ Prune(i) \/ Select(i) \/ Insert(i)
        PROVE  UNCHANGED Held
    BY <2>5, StayingHolds DEF Start, Prune, Select, Insert, Goto, TypeOK
  <2>6. ASSUME NEW i \in Id, InsertFails(i) PROVE Leases!GiveUp(i) \/ UNCHANGED Held
    <3>1. CASE Exit(i)
      BY <2>2, <3>1
    <3>2. CASE Goto(i, "select") /\ UNCHANGED index
      BY <2>6, <3>2, StayingHolds DEF InsertFails, Goto, TypeOK
    <3> QED
      BY <2>6, <3>1, <3>2 DEF InsertFails
  <2>7. ASSUME NEW i \in Id, Heartbeat(i) \/ HeartbeatFails(i) PROVE UNCHANGED Held
    BY <2>7, StayingHolds DEF Heartbeat, HeartbeatFails
  <2>8. ASSUME NEW i \in Id, StartFails(i) \/ Delete(i) \/ Crash(i) PROVE Exit(i)
    BY <2>8 DEF StartFails, Delete, Crash
  <2>9. CASE Tick \/ UNCHANGED vars
    BY <2>9, StayingHolds DEF Tick, vars
  <2> QED
    BY <2>1, <2>2, <2>3, <2>4, <2>5, <2>6, <2>7, <2>8, <2>9
    DEF Next, StartupStep, Leases!Next
<1> QED
  BY <1>1, <1>2, TypeCorrect, EntitiesNotShared, PTL DEF Spec, ImplementsLeases, Leases!Spec

=============================================================================
