-------------------------- MODULE ServerSetupProofs --------------------------
(***************************************************************************)
(* Proofs about the bulkload lock and the setup of the server.  For any    *)
(* number of agents, and whatever fails: the lock elects one agent as long *)
(* as it was never released, and is not forgotten unless a request fails   *)
(* or an agent dies.  ServerSetup uses the lock as BulkloadLock has it, so *)
(* that this holds of it; the configuration and the plugin end up as they  *)
(* should, for all that the agents undo each other's work; and the file is *)
(* imported, for every length.                                             *)
(***************************************************************************)
EXTENDS ServerSetup, TLAPS

(* The election, before the first release.  An agent about to write has    *)
(* less time left than any agent whose id stands has still to sleep, so    *)
(* that nobody is about to write when an agent finds its id still there.   *)
Election ==
  /\ \A a \in Agent : pc[a] = "set" => timer[a] <= MaxUpdate
  /\ ~ cleared =>
       /\ nickname = Blank =>
            \A a \in Agent : pc[a] \in {"start", "set", "ready", "crashed"}
       /\ \A a \in Agent : pc[a] \in Importing =>
            nickname = a /\ \A b \in Agent : pc[b] # "set"
       /\ \A a, b \in Agent :
            pc[a] = "set" /\ pc[b] = "sleep" /\ nickname = b => timer[a] < timer[b]

(* The variables keep their types, whatever fails.                         *)
THEOREM TypeCorrect == Spec => []TypeOK
<1> USE LockAssumption DEF TypeOK, Location, Importing
<1>1. Init => TypeOK
  <2>1. 0 \in 0 .. LockSleep
    OBVIOUS
  <2> QED
    BY <2>1 DEF Init
<1>2. TypeOK /\ [Next]_vars => TypeOK'
  <2> SUFFICES ASSUME TypeOK, [Next]_vars
               PROVE  TypeOK'
    OBVIOUS
  <2>1. ASSUME NEW a \in Agent, AgentStep(a) PROVE TypeOK'
    <3>1. CASE LookFirst(a)
      BY <3>1 DEF LookFirst, Goto
    <3>2. CASE SetLock(a)
      BY <3>2 DEF SetLock, Goto
    <3>3. CASE LookAgain(a)
      BY <3>3 DEF LookAgain, Goto
    <3>4. CASE Poll(a)
      BY <3>4 DEF Poll, Goto
    <3>5. CASE Import(a)
      BY <3>5 DEF Import, Goto
    <3>6. CASE LookRelease(a)
      BY <3>6 DEF LookRelease, Goto
    <3>7. CASE ClearLock(a)
      BY <3>7 DEF ClearLock, Goto
    <3> QED
      BY <2>1, <3>1, <3>2, <3>3, <3>4, <3>5, <3>6, <3>7 DEF AgentStep
  <2>2. ASSUME NEW a \in Agent, LockFails(a) PROVE TypeOK'
    BY <2>2 DEF LockFails, Goto
  <2>3. ASSUME NEW a \in Agent, ReleaseFails(a) PROVE TypeOK'
    <3>1. 0 \in 0 .. LockSleep
      OBVIOUS
    <3> QED
      BY <2>3, <3>1 DEF ReleaseFails, Goto
  <2>4. ASSUME NEW a \in Agent, Crash(a) PROVE TypeOK'
    <3>1. 0 \in 0 .. LockSleep
      OBVIOUS
    <3> QED
      BY <2>4, <3>1 DEF Crash, Goto
  <2>5. CASE Tick
    BY <2>5 DEF Tick
  <2>6. CASE UNCHANGED vars
    BY <2>6 DEF vars
  <2> QED
    BY <2>1, <2>2, <2>3, <2>4, <2>5, <2>6 DEF Next
<1>3. QED
  BY <1>1, <1>2, PTL DEF Spec

(* Every step keeps the election.                                          *)
LEMMA ElectionInductive ==
  ASSUME TypeOK, Election, [Next]_vars
  PROVE  Election'
<1> USE LockAssumption DEF TypeOK, Importing, Election
<1>1. ASSUME NEW a \in Agent, LookFirst(a) PROVE Election'
  BY <1>1 DEF LookFirst, Goto
<1>2. ASSUME NEW a \in Agent, SetLock(a) PROVE Election'
  BY <1>2 DEF SetLock, Goto
<1>3. ASSUME NEW a \in Agent, LookAgain(a) PROVE Election'
  <2>1. CASE nickname = a
    <3>1. ~ cleared => \A b \in Agent : pc[b] # "set"
      BY <1>3, <2>1 DEF LookAgain
    <3> QED
      BY <1>3, <2>1, <3>1 DEF LookAgain, Goto
  <2>2. CASE nickname # a
    BY <1>3, <2>2 DEF LookAgain, Goto
  <2> QED
    BY <2>1, <2>2
<1>4. ASSUME NEW a \in Agent, Poll(a) PROVE Election'
  BY <1>4 DEF Poll, Goto
<1>5. ASSUME NEW a \in Agent, Import(a) PROVE Election'
  BY <1>5 DEF Import, Goto
<1>6. ASSUME NEW a \in Agent, LookRelease(a) PROVE Election'
  BY <1>6 DEF LookRelease, Goto
<1>7. ASSUME NEW a \in Agent, ClearLock(a) PROVE Election'
  BY <1>7 DEF ClearLock, Goto
<1>8. ASSUME NEW a \in Agent, LockFails(a) PROVE Election'
  BY <1>8 DEF LockFails, Goto
<1>9. ASSUME NEW a \in Agent, ReleaseFails(a) PROVE Election'
  BY <1>9 DEF ReleaseFails, Goto
<1>10. ASSUME NEW a \in Agent, Crash(a) PROVE Election'
  BY <1>10 DEF Crash, Goto
<1>11. CASE Tick
  BY <1>11 DEF Tick
<1>12. CASE UNCHANGED vars
  BY <1>12 DEF vars
<1> QED
  BY <1>1, <1>2, <1>3, <1>4, <1>5, <1>6, <1>7, <1>8, <1>9, <1>10, <1>11, <1>12
  DEF Next, AgentStep

(* Until the first release, at most one agent imports.                     *)
THEOREM FirstImporterAlone == Spec => []ExclusiveUntilCleared
<1>1. Init => Election
  BY DEF Init, Election, Importing
<1>2. TypeOK /\ Election /\ [Next]_vars => Election'
  BY ElectionInductive
<1>3. Election => ExclusiveUntilCleared
  BY DEF Election, ExclusiveUntilCleared, ImportExclusive, Importing
<1> QED
  BY <1>1, <1>2, <1>3, TypeCorrect, PTL DEF Spec

(* While nothing fails, the agent whose id stands will blank it.           *)
THEOREM LockIsOwned == Spec => []LockHasOwner
<1> USE LockAssumption DEF TypeOK, Importing, LockHasOwner
<1>1. Init => LockHasOwner
  BY DEF Init
<1>2. TypeOK /\ LockHasOwner /\ [Next]_vars => LockHasOwner'
  <2> SUFFICES ASSUME TypeOK, LockHasOwner, [Next]_vars
               PROVE  LockHasOwner'
    OBVIOUS
  <2>1. ASSUME NEW a \in Agent, AgentStep(a) PROVE LockHasOwner'
    <3>1. CASE LookFirst(a)
      BY <3>1 DEF LookFirst, Goto
    <3>2. CASE SetLock(a)
      BY <3>2 DEF SetLock, Goto
    <3>3. CASE LookAgain(a)
      BY <3>3 DEF LookAgain, Goto
    <3>4. CASE Poll(a)
      BY <3>4 DEF Poll, Goto
    <3>5. CASE Import(a)
      BY <3>5 DEF Import, Goto
    <3>6. CASE LookRelease(a)
      BY <3>6 DEF LookRelease, Goto
    <3>7. CASE ClearLock(a)
      BY <3>7 DEF ClearLock, Goto
    <3> QED
      BY <2>1, <3>1, <3>2, <3>3, <3>4, <3>5, <3>6, <3>7 DEF AgentStep
  <2>2. ASSUME NEW a \in Agent, LockFails(a) \/ ReleaseFails(a) \/ Crash(a)
        PROVE  LockHasOwner'
    BY <2>2 DEF LockFails, ReleaseFails, Crash
  <2>3. CASE Tick \/ UNCHANGED vars
    BY <2>3 DEF Tick, vars
  <2> QED
    BY <2>1, <2>2, <2>3 DEF Next
<1> QED
  BY <1>1, <1>2, TypeCorrect, PTL DEF Spec

-----------------------------------------------------------------------------

(* Every step of SetupServer is one of the lock, or leaves it alone.       *)
THEOREM UsesTheLock == SetupSpec => UsesLock
<1>1. SetupInit => Init
  BY DEF SetupInit
<1>2. ASSUME [SetupNext]_allVars
      PROVE  [Next]_vars
  <2>1. ASSUME NEW a \in Agent, SetupStep(a)
        PROVE  [Next]_vars
    <3>1. CASE \/ GetConfig(a) \/ UpdateConfig(a) \/ ConfigChecked(a) \/ GetPlugins(a)
               \/ RemovePlugin(a) \/ UploadPlugin(a) \/ EnablePlugin(a)
               \/ SendLoadtestFile(a) \/ ImportBulk(a)
      BY <3>1 DEF GetConfig, UpdateConfig, ConfigChecked, GetPlugins, RemovePlugin,
                  UploadPlugin, EnablePlugin, SendLoadtestFile, ImportBulk
    <3>2. CASE PluginRefused(a)
      BY <3>2 DEF PluginRefused, Next
    <3>3. CASE TryLock(a)
      BY <3>3 DEF TryLock, AgentStep, Next
    <3>4. CASE GetTeams(a)
      BY <3>4 DEF GetTeams, LeaveImport, AgentStep, Next
    <3>5. CASE Release(a)
      BY <3>5 DEF Release, AgentStep, Next
    <3> QED
      BY <2>1, <3>1, <3>2, <3>3, <3>4, <3>5 DEF SetupStep
  <2>2. ASSUME NEW a \in Agent,
               LockLost(a) \/ ReleaseLost(a) \/ SetupFails(a) \/ AgentDies(a)
        PROVE  [Next]_vars
    BY <2>2 DEF LockLost, ReleaseLost, SetupFails, AgentDies, LeaveImport, AgentStep, Next
  <2>3. CASE TimePasses
    BY <2>3 DEF TimePasses, Next
  <2>4. CASE UNCHANGED allVars
    BY <2>4 DEF allVars
  <2> QED
    BY <1>2, <2>1, <2>2, <2>3, <2>4 DEF SetupNext
<1> QED
  BY <1>1, <1>2, PTL DEF SetupSpec, Spec, UsesLock

(* Until the lock is first released, agents that set up a server import    *)
(* one at a time.                                                          *)
THEOREM SetupImporterAlone == SetupSpec => []ExclusiveUntilCleared
  BY UsesTheLock, FirstImporterAlone, PTL DEF UsesLock

(* While nothing fails, the lock of agents that set up a server is owned.  *)
THEOREM SetupLockIsOwned == SetupSpec => []LockHasOwner
  BY UsesTheLock, LockIsOwned, PTL DEF UsesLock

-----------------------------------------------------------------------------

(* The types of what SetupServer adds to the lock.                         *)
SetupTyped ==
  /\ situation \in Situations
  /\ stage \in [Agent -> Stage]
  /\ config \in SUBSET Setting
  /\ read \in [Agent -> SUBSET Setting]
  /\ plugin \in {"none", "absent", "inactive", "active"}
  /\ line \in [Agent -> Nat]
  /\ remote \in SUBSET Lines
  /\ imported \in SUBSET Lines
  /\ lost \in BOOLEAN
  /\ overlapped \in BOOLEAN

(* The next chunk begins at a line, and holds lines of the file.           *)
LEMMA ChunkOfLines ==
  ASSUME SetupTyped, NEW a \in Agent
  PROVE  NextFlush(a) \in Nat /\ Chunk(a) \subseteq Lines
<1>1. ChunkLines \in Nat \ {0} /\ situation.lines \in Nat \ {0}
  BY SetupAssumption DEF SetupTyped
<1>2. line[a] \in Nat
  BY DEF SetupTyped
<1>3. NextFlush(a) \in Nat
  <2> DEFINE q == line[a] \div ChunkLines + 1
  <2>1. q \in Nat
    BY <1>1, <1>2
  <2> HIDE DEF q
  <2>2. q * ChunkLines \in Nat
    BY <1>1, <2>1
  <2> QED
    BY <2>2 DEF q, NextFlush
<1>4. 1 \in Lines
  BY <1>1 DEF Lines
<1> QED
  BY <1>3, <1>4 DEF Chunk

(* Entering a stage changes nothing but where the agent is.                *)
LEMMA EnterStage ==
  ASSUME SetupTyped, NEW a \in Agent, NEW s \in Stage, Enter(a, s)
  PROVE  /\ stage' \in [Agent -> Stage]
         /\ stage'[a] = s
         /\ \A b \in Agent \ {a} : stage'[b] = stage[b]
  BY DEF SetupTyped, Enter

(* Every step keeps the types.                                             *)
LEMMA TypedStep ==
  ASSUME SetupTyped, [SetupNext]_allVars
  PROVE  SetupTyped'
<1> USE DEF SetupTyped
<1>s. /\ {"config", "plugins", "remove", "upload", "enable", "lock", "send",
           "import", "maps", "ready", "failed"} \subseteq Stage
      /\ AfterConfig \in Stage
  BY DEF Stage, AfterConfig
<1>k. ASSUME UNCHANGED <<situation, config, read, plugin, line, remote, imported>>,
             stage' \in [Agent -> Stage], lost' \in BOOLEAN, overlapped' \in BOOLEAN
      PROVE  SetupTyped'
  BY <1>k DEF Lines
<1>1. CASE UNCHANGED allVars
  BY <1>1 DEF allVars, setup, Lines
<1>2. ASSUME NEW a \in Agent, SetupStep(a) \/ LockLost(a) \/ ReleaseLost(a)
                              \/ SetupFails(a) \/ AgentDies(a), Observed
      PROVE  SetupTyped'
  <2>o. overlapped' \in BOOLEAN
    BY <1>2 DEF Observed, ImportExclusive
  <2>1. CASE GetConfig(a)
    BY <2>1, <2>o, <1>s, EnterStage DEF GetConfig, Lines
  <2>2. CASE UpdateConfig(a)
    <3>1. PICK i \in Missing(a) : read' = [read EXCEPT ![a] = @ \union {Settings[i]}]
      BY <2>2 DEF UpdateConfig
    <3>2. Settings[i] \in Setting
      BY DEF Missing, Setting
    <3>3. read' \in [Agent -> SUBSET Setting]
      BY <3>1, <3>2
    <3> QED
      BY <2>2, <2>o, <3>3 DEF UpdateConfig, Lines
  <2>3. CASE RemovePlugin(a) \/ UploadPlugin(a) \/ EnablePlugin(a)
    BY <2>3, <2>o, <1>s, EnterStage DEF RemovePlugin, UploadPlugin, EnablePlugin, Lines
  <2>4. CASE SendLoadtestFile(a)
    <3>1. remote' \in SUBSET Lines
      BY <2>4, ChunkOfLines DEF SendLoadtestFile
    <3> QED
      BY <2>4, <2>o, <1>s, <3>1, EnterStage DEF SendLoadtestFile, Lines
  <2>5. CASE ImportBulk(a)
    <3>1. line' \in [Agent -> Nat]
      BY <2>5, ChunkOfLines DEF ImportBulk
    <3>2. /\ imported' \in SUBSET Lines
          /\ UNCHANGED <<situation, config, read, plugin, remote, lost>>
      BY <2>5 DEF ImportBulk
    <3>3. stage' \in [Agent -> Stage]
      BY <2>5, <1>s, EnterStage DEF ImportBulk
    <3> QED
      BY <2>o, <3>1, <3>2, <3>3 DEF Lines
  <2>6. CASE ConfigChecked(a) \/ GetPlugins(a) \/ PluginRefused(a) \/ TryLock(a)
             \/ GetTeams(a)
    <3>1. stage' \in [Agent -> Stage]
      BY <2>6, <1>s, EnterStage
      DEF ConfigChecked, GetPlugins, PluginRefused, TryLock, GetTeams
    <3> QED
      BY <2>6, <2>o, <3>1, <1>k
      DEF ConfigChecked, GetPlugins, PluginRefused, TryLock, GetTeams
  <2>7. CASE Release(a) \/ ReleaseLost(a)
    BY <2>7, <2>o, <1>k DEF Release, ReleaseLost, setup
  <2>8. CASE LockLost(a) \/ SetupFails(a) \/ AgentDies(a)
    <3>1. stage' \in [Agent -> Stage]
      BY <2>8, <1>s, EnterStage DEF LockLost, SetupFails, AgentDies
    <3> QED
      BY <2>8, <2>o, <3>1, <1>k DEF LockLost, SetupFails, AgentDies
  <2> QED
    BY <1>2, <2>1, <2>2, <2>3, <2>4, <2>5, <2>6, <2>7, <2>8 DEF SetupStep
<1>3. ASSUME TimePasses, Observed
      PROVE  SetupTyped'
  BY <1>3, <1>k DEF TimePasses, setup, Observed, ImportExclusive
<1> QED
  BY <1>1, <1>2, <1>3 DEF SetupNext

(* The state keeps its types, whatever fails.                              *)
LEMMA StaysSetUp == SetupSpec => []SetupTyped
<1>1. SetupInit => SetupTyped
  <2> SUFFICES ASSUME SetupInit
               PROVE  SetupTyped
    OBVIOUS
  <2>1. /\ situation.config \in SUBSET Setting
        /\ situation.plugin \in {"none", "absent", "inactive", "active"}
    BY SetupAssumption DEF SetupInit, Setting
  <2> QED
    BY <2>1 DEF SetupInit, SetupTyped, Stage, Setting
<1> QED
  BY <1>1, TypedStep, PTL DEF SetupSpec

(* The state of the lock and of the agents that use it keeps its types.    *)
THEOREM SetupTypeCorrect == SetupSpec => []SetupTypeOK
<1>1. SetupTyped /\ TypeOK => SetupTypeOK
  BY DEF SetupTyped, SetupTypeOK
<1> QED
  BY <1>1, StaysSetUp, UsesTheLock, TypeCorrect, PTL DEF UsesLock

-----------------------------------------------------------------------------

(* While the server lacks a setting, either some agent is still to send    *)
(* its configuration once more, or none has looked at it.  Whoever sent    *)
(* the configuration last without the setting has yet to set it.           *)
SomebodyCorrects ==
  ~lost => \/ config = Setting
           \/ \E a \in Agent : stage[a] = "config" /\ read[a] # Setting
           \/ \A a \in Agent : stage[a] = "begin"

(* An agent has nothing to correct if it has every setting.                *)
LEMMA NothingMissing ==
  ASSUME SetupTyped, NEW a \in Agent
  PROVE  Missing(a) = {} <=> read[a] = Setting
<1>1. read[a] \subseteq Setting
  BY DEF SetupTyped
<1> QED
  BY <1>1 DEF Missing, Setting

LEMMA CorrectedStep ==
  ASSUME SetupTyped, SomebodyCorrects, [SetupNext]_allVars
  PROVE  SomebodyCorrects'
<1> SUFFICES ASSUME ~lost'
             PROVE  \/ config' = Setting
                    \/ \E a \in Agent : stage'[a] = "config" /\ read'[a] # Setting
                    \/ \A a \in Agent : stage'[a] = "begin"
  BY DEF SomebodyCorrects, Setting
<1> USE DEF SetupTyped
<1>1. CASE UNCHANGED allVars
  BY <1>1 DEF allVars, setup, SomebodyCorrects
<1>2. ASSUME NEW a \in Agent, SetupStep(a) \/ LockLost(a) \/ ReleaseLost(a)
                              \/ SetupFails(a) \/ AgentDies(a)
      PROVE  \/ config' = Setting
             \/ \E b \in Agent : stage'[b] = "config" /\ read'[b] # Setting
             \/ \A b \in Agent : stage'[b] = "begin"
  <2>0. CASE LockLost(a) \/ ReleaseLost(a) \/ SetupFails(a) \/ AgentDies(a)
    BY <2>0 DEF LockLost, ReleaseLost, SetupFails, AgentDies
  <2>1. CASE GetConfig(a)
    <3>1. /\ ~lost /\ config' = config
          /\ stage[a] = "begin" /\ stage' = [stage EXCEPT ![a] = "config"]
          /\ read' = [read EXCEPT ![a] = config]
      BY <2>1 DEF GetConfig, Enter
    <3> QED
      BY <3>1 DEF SomebodyCorrects
  <2>2. CASE UpdateConfig(a)
    <3>1. /\ stage[a] = "config" /\ stage' = stage
          /\ config' = read'[a]
      BY <2>2 DEF UpdateConfig
    <3> QED
      BY <3>1
  <2>3. CASE ConfigChecked(a)
    <3>1. /\ ~lost /\ config' = config /\ read' = read
          /\ stage[a] = "config" /\ read[a] = Setting
          /\ \A b \in Agent \ {a} : stage'[b] = stage[b]
      BY <2>3, NothingMissing DEF ConfigChecked, Enter
    <3> QED
      BY <3>1 DEF SomebodyCorrects
  <2>4. CASE \/ GetPlugins(a) \/ RemovePlugin(a) \/ UploadPlugin(a) \/ EnablePlugin(a)
             \/ PluginRefused(a) \/ TryLock(a) \/ SendLoadtestFile(a)
             \/ ImportBulk(a) \/ GetTeams(a)
    <3>1. /\ ~lost /\ config' = config /\ read' = read
          /\ stage[a] \notin {"begin", "config"}
          /\ \A b \in Agent \ {a} : stage'[b] = stage[b]
      BY <2>4 DEF GetPlugins, RemovePlugin, UploadPlugin, EnablePlugin, PluginRefused,
                  TryLock, SendLoadtestFile, ImportBulk, GetTeams, Enter
    <3> QED
      BY <3>1 DEF SomebodyCorrects
  <2>5. CASE Release(a)
    BY <2>5 DEF Release, setup, SomebodyCorrects
  <2> QED
    BY <1>2, <2>0, <2>1, <2>2, <2>3, <2>4, <2>5 DEF SetupStep
<1>3. CASE TimePasses
  BY <1>3 DEF TimePasses, setup, SomebodyCorrects
<1> QED
  BY <1>1, <1>2, <1>3 DEF SetupNext

(* Once some agent is past the configuration, and none is at it, the       *)
(* server has every setting, however the agents overwrote each other's.    *)
THEOREM ConfigIsSettled == SetupSpec => []ConfigSettled
<1>1. SetupInit => SomebodyCorrects
  BY DEF SetupInit, SomebodyCorrects
<1>2. SomebodyCorrects => ConfigSettled
  BY DEF SomebodyCorrects, ConfigSettled
<1> QED
  BY <1>1, <1>2, CorrectedStep, StaysSetUp, PTL DEF SetupSpec

-----------------------------------------------------------------------------

PastPlugin == {"lock", "send", "import", "maps", "ready"}

(* Whoever took the plugin away, or put it there, has yet to go on with    *)
(* it, or nobody is past it.                                               *)
SomebodyInstalls ==
  ~lost /\ situation.plugin # "none" =>
    \/ plugin = "active"
    \/ plugin = "absent" /\ \E a \in Agent : stage[a] = "upload"
    \/ plugin = "inactive" /\ \E a \in Agent : stage[a] = "enable"
    \/ \A a \in Agent : stage[a] \notin PastPlugin

LEMMA InstalledStep ==
  ASSUME SetupTyped, SomebodyInstalls, [SetupNext]_allVars
  PROVE  SomebodyInstalls'
<1> USE DEF SetupTyped, PastPlugin
<1>1. CASE UNCHANGED allVars
  BY <1>1 DEF allVars, setup, SomebodyInstalls
<1>2. ASSUME NEW a \in Agent, SetupStep(a) \/ LockLost(a) \/ ReleaseLost(a)
                              \/ SetupFails(a) \/ AgentDies(a)
      PROVE  SomebodyInstalls'
  <2>0. CASE LockLost(a) \/ ReleaseLost(a) \/ SetupFails(a) \/ AgentDies(a)
    BY <2>0 DEF LockLost, ReleaseLost, SetupFails, AgentDies, SomebodyInstalls
  <2>1. CASE GetConfig(a) \/ UpdateConfig(a) \/ ConfigChecked(a) \/ GetPlugins(a)
    <3>1. /\ UNCHANGED <<lost, situation, plugin>>
          /\ situation.plugin # "none" => stage'[a] \notin PastPlugin
          /\ stage[a] \notin {"upload", "enable"}
          /\ \A b \in Agent \ {a} : stage'[b] = stage[b]
      BY <2>1 DEF GetConfig, UpdateConfig, ConfigChecked, GetPlugins, Enter, AfterConfig
    <3> QED
      BY <3>1 DEF SomebodyInstalls
  <2>2. CASE RemovePlugin(a)
    BY <2>2 DEF RemovePlugin, Enter, SomebodyInstalls
  <2>3. CASE UploadPlugin(a)
    BY <2>3 DEF UploadPlugin, Enter, SomebodyInstalls
  <2>4. CASE EnablePlugin(a)
    BY <2>4 DEF EnablePlugin, SomebodyInstalls
  <2>5. CASE PluginRefused(a)
    <3>1. /\ UNCHANGED <<lost, situation, plugin>>
          /\ stage'[a] = "failed"
          /\ \/ stage[a] = "upload" /\ plugin # "absent"
             \/ stage[a] = "enable" /\ plugin = "absent"
          /\ \A b \in Agent \ {a} : stage'[b] = stage[b]
      BY <2>5 DEF PluginRefused, Enter
    <3> QED
      BY <3>1 DEF SomebodyInstalls
  <2>6. CASE TryLock(a) \/ SendLoadtestFile(a) \/ ImportBulk(a) \/ GetTeams(a)
    <3>1. /\ UNCHANGED <<lost, situation, plugin>>
          /\ stage[a] \in PastPlugin
          /\ \A b \in Agent \ {a} : stage'[b] = stage[b]
      BY <2>6 DEF TryLock, SendLoadtestFile, ImportBulk, GetTeams, Enter
    <3> QED
      BY <3>1 DEF SomebodyInstalls
  <2>7. CASE Release(a)
    BY <2>7 DEF Release, setup, SomebodyInstalls
  <2> QED
    BY <1>2, <2>0, <2>1, <2>2, <2>3, <2>4, <2>5, <2>6, <2>7 DEF SetupStep
<1>3. CASE TimePasses
  BY <1>3 DEF TimePasses, setup, SomebodyInstalls
<1> QED
  BY <1>1, <1>2, <1>3 DEF SetupNext

(* Once some agent is past the plugin, and none is at it, it is active.    *)
THEOREM PluginIsActive == SetupSpec => []PluginActive
<1>1. SetupInit => SomebodyInstalls
  BY DEF SetupInit, SomebodyInstalls, PastPlugin
<1>2. SomebodyInstalls => PluginActive
  BY DEF SomebodyInstalls, PluginActive, PastPlugin
<1> QED
  BY <1>1, <1>2, InstalledStep, StaysSetUp, PTL DEF SetupSpec

-----------------------------------------------------------------------------

AllWell == ~failed /\ ~lost /\ ~overlapped

(* While all is well, an agent at the import is alone there; it has        *)
(* imported the lines before the next, and the file on the app server is   *)
(* its own.                                                                *)
ImportsInOrder ==
  AllWell =>
    /\ ImportExclusive
    /\ \A a \in Agent :
         /\ stage[a] \in {"begin", "config", "plugins", "remove", "upload", "enable", "lock"}
              => line[a] = 1
         /\ stage[a] \in {"send", "import"} =>
              pc[a] = "import" /\ \A n \in Lines : n < line[a] => n \in imported
         /\ stage[a] = "import" => remote = Chunk(a)
         /\ stage[a] \in {"maps", "ready"} => imported = Lines

(* Nothing makes amends for a failure.                                     *)
LEMMA WellBefore ==
  ASSUME SetupTyped, TypeOK, [SetupNext]_allVars, AllWell'
  PROVE  AllWell
<1>1. CASE UNCHANGED allVars
  BY <1>1 DEF allVars, vars, AllWell
<1>2. CASE SetupNext
  <2>1. ~overlapped
    BY <1>2 DEF SetupNext, Observed, AllWell
  <2>2. ASSUME NEW a \in Agent, SetupStep(a)
        PROVE  ~failed /\ ~lost
    BY <2>2 DEF SetupStep, GetConfig, UpdateConfig, ConfigChecked, GetPlugins, RemovePlugin,
                UploadPlugin, EnablePlugin, PluginRefused, Crash, TryLock, LookFirst, SetLock,
                LookAgain, Poll, SendLoadtestFile, ImportBulk, GetTeams, LeaveImport, Import,
                Release, LookRelease, ClearLock, vars, setup, AllWell
  <2>3. ASSUME NEW a \in Agent,
               LockLost(a) \/ ReleaseLost(a) \/ SetupFails(a) \/ AgentDies(a)
        PROVE  FALSE
    BY <2>3 DEF LockLost, ReleaseLost, SetupFails, AgentDies, AllWell
  <2>4. CASE TimePasses
    BY <2>1, <2>4 DEF TimePasses, Tick, AllWell
  <2> QED
    BY <1>2, <2>1, <2>2, <2>3, <2>4 DEF SetupNext, AllWell
<1> QED
  BY <1>1, <1>2

LEMMA InOrderStep ==
  ASSUME SetupTyped, SetupTyped', TypeOK, ImportsInOrder, [SetupNext]_allVars
  PROVE  ImportsInOrder'
<1> SUFFICES ASSUME AllWell'
             PROVE  ImportsInOrder'
  BY DEF ImportsInOrder
<1>w. AllWell
  BY WellBefore
<1> DEFINE Place(a) ==
      /\ stage[a] \in {"begin", "config", "plugins", "remove", "upload", "enable", "lock"}
           => line[a] = 1
      /\ stage[a] \in {"send", "import"} =>
           pc[a] = "import" /\ \A n \in Lines : n < line[a] => n \in imported
      /\ stage[a] = "import" => remote = Chunk(a)
      /\ stage[a] \in {"maps", "ready"} => imported = Lines
<1>p. ImportExclusive /\ \A a \in Agent : Place(a)
  BY <1>w DEF ImportsInOrder
<1>q. (ImportExclusive /\ \A a \in Agent : Place(a))' => ImportsInOrder'
  BY DEF ImportsInOrder
<1>u. CASE UNCHANGED allVars
  BY <1>u, <1>p, <1>q DEF allVars, vars, setup, ImportExclusive, Chunk, NextFlush, Lines
<1>1. CASE SetupNext
  <2>e. ImportExclusive'
    BY <1>1 DEF SetupNext, Observed, AllWell
  <2> SUFFICES ASSUME NEW b \in Agent
               PROVE  Place(b)'
    BY <2>e, <1>q
  <2>k. ASSUME UNCHANGED <<situation, line, remote, imported>>, stage'[b] = stage[b],
               stage[b] \in {"send", "import"} => pc'[b] = pc[b]
        PROVE  Place(b)'
    BY <2>k, <1>p DEF Lines, Chunk, NextFlush
  <2>1. ASSUME NEW a \in Agent, SetupStep(a)
        PROVE  Place(b)'
    <3> USE DEF SetupTyped, TypeOK
    <3>1. CASE \/ GetConfig(a) \/ UpdateConfig(a) \/ ConfigChecked(a) \/ GetPlugins(a)
               \/ RemovePlugin(a) \/ UploadPlugin(a) \/ EnablePlugin(a)
      <4>1. /\ UNCHANGED <<situation, line, remote, imported, pc>>
            /\ b # a => stage'[b] = stage[b]
            /\ stage[a] \in {"begin", "config", "plugins", "remove", "upload", "enable"}
            /\ stage'[a] \in {"config", "plugins", "remove", "upload", "enable", "lock"}
        BY <3>1 DEF GetConfig, UpdateConfig, ConfigChecked, GetPlugins, RemovePlugin,
                    UploadPlugin, EnablePlugin, Enter, AfterConfig, vars
      <4> QED
        BY <4>1, <2>k, <1>p
    <3>2. CASE PluginRefused(a)
      BY <3>2 DEF PluginRefused, Crash, AllWell
    <3>3. CASE TryLock(a)
      <4>1. /\ UNCHANGED <<situation, line, remote, imported>>
            /\ b # a => stage'[b] = stage[b] /\ pc'[b] = pc[b]
            /\ stage[a] = "lock"
            /\ stage'[a] = IF pc'[a] = "import" THEN "send" ELSE "lock"
        BY <3>3 DEF TryLock, Enter, LookFirst, SetLock, LookAgain, Poll, Goto
      <4>2. line'[a] = 1 /\ \A n \in Lines' : ~(n < 1)
        BY <4>1, <1>p DEF Lines
      <4>3. CASE b = a
        <5>1. CASE stage'[b] = "lock"
          BY <4>2, <4>3, <5>1
        <5>2. CASE stage'[b] = "send" /\ pc'[b] = "import"
          BY <4>2, <4>3, <5>2
        <5> QED
          BY <4>1, <4>3, <5>1, <5>2
      <4> QED
        BY <4>1, <4>3, <2>k
    <3>4. CASE SendLoadtestFile(a)
      <4>1. /\ UNCHANGED <<situation, line, imported, pc>>
            /\ b # a => stage'[b] = stage[b]
            /\ stage[a] = "send" /\ stage'[a] = "import"
            /\ remote' = Chunk(a)
        BY <3>4 DEF SendLoadtestFile, Enter, vars
      <4>2. CASE b = a
        BY <4>1, <4>2, <1>p DEF Lines, Chunk, NextFlush
      <4>3. CASE b # a
        <5>1. stage[b] # "import"
          BY <4>1, <4>3, <1>p DEF ImportExclusive
        <5> QED
          BY <4>1, <4>3, <5>1, <1>p DEF Lines
      <4> QED
        BY <4>2, <4>3
    <3>5. CASE ImportBulk(a)
      <4>1. /\ UNCHANGED <<situation, remote, pc>>
            /\ b # a => stage'[b] = stage[b] /\ line'[b] = line[b]
            /\ stage[a] = "import"
            /\ stage'[a] = IF LastChunk(a) THEN "maps" ELSE "send"
            /\ imported' = imported \union remote
            /\ line'[a] = NextFlush(a)
        BY <3>5, ChunkOfLines DEF ImportBulk, Enter, vars
      <4>2. /\ pc[a] = "import" /\ remote = Chunk(a)
            /\ \A n \in Lines : n < line[a] => n \in imported
        BY <4>1, <1>p
      <4>3. NextFlush(a) \in Nat /\ line[a] \in Nat /\ situation.lines \in Nat
        BY ChunkOfLines, SetupAssumption
      <4>4. \A n \in Lines : n < NextFlush(a) => n \in imported'
        BY <4>1, <4>2, <4>3 DEF Chunk, Lines
      <4>5. LastChunk(a) => imported' = Lines
        <5>1. LastChunk(a) => \A n \in Lines : n < NextFlush(a)
          BY <4>3 DEF LastChunk, Lines
        <5>2. imported' \subseteq Lines
          BY <4>1, <4>2, ChunkOfLines
        <5> QED
          BY <4>4, <5>1, <5>2
      <4>6. Lines' = Lines
        BY <4>1 DEF Lines
      <4>7. CASE b = a
        BY <4>1, <4>2, <4>4, <4>5, <4>6, <4>7
      <4>8. CASE b # a
        <5>1. stage[b] \notin {"send", "import"}
          BY <4>1, <4>2, <4>8, <1>p DEF ImportExclusive
        <5>2. imported = Lines => imported' = Lines
          BY <4>1, <4>2, ChunkOfLines
        <5> QED
          BY <4>1, <4>6, <4>8, <5>1, <5>2, <1>p
      <4> QED
        BY <4>7, <4>8
    <3>6. CASE GetTeams(a)
      <4>1. /\ UNCHANGED <<situation, line, remote, imported>>
            /\ b # a => stage'[b] = stage[b] /\ pc'[b] = pc[b]
            /\ stage[a] = "maps" /\ stage'[a] = "ready"
        BY <3>6 DEF GetTeams, Enter, LeaveImport, Import, Goto, vars
      <4>2. CASE b = a
        BY <4>1, <4>2, <1>p DEF Lines
      <4> QED
        BY <4>1, <4>2, <2>k
    <3>7. CASE Release(a)
      <4>1. /\ UNCHANGED <<situation, stage, line, remote, imported>>
            /\ pc[a] # "import"
            /\ b # a => pc'[b] = pc[b]
        BY <3>7 DEF Release, LookRelease, ClearLock, Goto, setup
      <4> QED
        BY <4>1, <2>k, <1>p
    <3> QED
      BY <2>1, <3>1, <3>2, <3>3, <3>4, <3>5, <3>6, <3>7 DEF SetupStep
  <2>2. ASSUME NEW a \in Agent,
               LockLost(a) \/ ReleaseLost(a) \/ SetupFails(a) \/ AgentDies(a)
        PROVE  FALSE
    BY <2>2 DEF LockLost, ReleaseLost, SetupFails, AgentDies, AllWell
  <2>3. CASE TimePasses
    BY <2>3, <2>k DEF TimePasses, Tick, setup
  <2> QED
    BY <1>1, <2>1, <2>2, <2>3 DEF SetupNext
<1> QED
  BY <1>u, <1>1

(* While nothing fails and no two agents import at once, an agent that is  *)
(* ready has had the whole file imported, in whatever chunks.              *)
THEOREM SetupIsComplete == SetupSpec => []SetupComplete
<1>1. SetupInit => ImportsInOrder
  BY DEF SetupInit, Init, ImportsInOrder, ImportExclusive
<1>2. ImportsInOrder => SetupComplete
  BY DEF ImportsInOrder, AllWell, SetupComplete
<1> QED
  BY <1>1, <1>2, InOrderStep, StaysSetUp, UsesTheLock, TypeCorrect, PTL
  DEF SetupSpec, UsesLock

=============================================================================
