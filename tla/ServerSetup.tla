----------------------------- MODULE ServerSetup -----------------------------
(***************************************************************************)
(* SetupServer (loadtest/setup_server.go): what every agent does to the    *)
(* server it is about to test, all of them at about the same time.  It     *)
(* checks the configuration, installs a plugin, imports the bulkload file  *)
(* in turn with the others, and reads back what there is.  Only the import *)
(* is under the bulkload lock, every step of which is a step of            *)
(* BulkloadLock.                                                           *)
(*                                                                         *)
(* What is external: the server replaces its whole configuration when it   *)
(* is updated, and refuses a plugin it has, or to enable one it has not.   *)
(* All agents use the same app server, and generated the same file, for    *)
(* the seed of GenerateBulkloadFile is a constant.                         *)
(***************************************************************************)
EXTENDS BulkloadLock, Integers, Sequences

CONSTANTS
  Settings,   \* the settings checked, in that order
  ChunkLines, \* 1000
  Situations  \* how the agents find the server, and what they were told

ASSUME SetupAssumption ==
  /\ ChunkLines \in Nat \ {0}
  /\ \A s \in Situations :
       s \in [config : SUBSET {Settings[i] : i \in DOMAIN Settings},
              plugin : {"none", "absent", "inactive", "active"},
              lines : Nat \ {0}]

VARIABLES
  situation,  \* one of Situations; its plugin is "none" if NumPlugins is 0
  stage,      \* where each agent is in SetupServer
  config,     \* the settings the server has right
  read,       \* the configuration each agent read, as it changed it
  plugin,     \* the plugin on the server
  line,       \* the next line of the file each agent is to send
  remote,     \* the lines in loadtestusers.json on the app server
  imported,   \* the lines that were imported
  lost,       \* history: has a request failed, or an agent died?
  overlapped  \* history: have two agents imported at once?

setup == <<situation, stage, config, read, plugin, line, remote, imported>>
allVars == <<vars, setup, lost, overlapped>>

Setting == {Settings[i] : i \in DOMAIN Settings}
Lines == 1 .. situation.lines

Stage == {"begin", "config", "plugins", "remove", "upload", "enable", "lock",
          "send", "import", "maps", "ready", "failed"}

SetupTypeOK ==
  /\ TypeOK
  /\ situation \in Situations
  /\ stage \in [Agent -> Stage]
  /\ config \in SUBSET Setting
  /\ read \in [Agent -> SUBSET Setting]
  /\ plugin \in {"none", "absent", "inactive", "active"}
  /\ line \in [Agent -> Nat]
  /\ remote \in SUBSET Lines
  /\ imported \in SUBSET Lines
  /\ lost \in BOOLEAN
  /\ overlapped \in BOOLEAN

SetupInit ==
  /\ Init
  /\ situation \in Situations
  /\ stage = [a \in Agent |-> "begin"]
  /\ config = situation.config
  /\ read = [a \in Agent |-> {}]
  /\ plugin = situation.plugin
  /\ line = [a \in Agent |-> 1]
  /\ remote = {}
  /\ imported = {}
  /\ lost = FALSE
  /\ overlapped = FALSE

Enter(a, s) == stage' = [stage EXCEPT ![a] = s]

(* Where an agent goes after the configuration: plugins are optional.      *)
AfterConfig == IF situation.plugin = "none" THEN "lock" ELSE "plugins"

-----------------------------------------------------------------------------
(* checkConfigForLoadtests: the configuration is read once.                *)

GetConfig(a) ==
  /\ stage[a] = "begin"
  /\ Enter(a, "config")
  /\ read' = [read EXCEPT ![a] = config]
  /\ UNCHANGED <<vars, situation, config, plugin, line, remote, imported, lost>>

Missing(a) == {i \in DOMAIN Settings : Settings[i] \notin read[a]}

(* Mutant: the setting is set in the copy after the copy was sent.         *)
UpdateConfigSwapped(a) ==
  /\ stage[a] = "config"
  /\ \E i \in Missing(a) :
       /\ \A j \in Missing(a) : i <= j
       /\ read' = [read EXCEPT ![a] = @ \union {Settings[i]}]
  /\ config' = read[a]
  /\ UNCHANGED <<vars, situation, stage, plugin, line, remote, imported, lost>>

(* Each setting that is not right is set in it, and all of it is sent.     *)
UpdateConfig(a) ==
  /\ stage[a] = "config"
  /\ \E i \in Missing(a) :
       /\ \A j \in Missing(a) : i <= j
       /\ read' = [read EXCEPT ![a] = @ \union {Settings[i]}]
  /\ config' = read'[a]
  /\ UNCHANGED <<vars, situation, stage, plugin, line, remote, imported, lost>>

ConfigChecked(a) ==
  /\ stage[a] = "config"
  /\ Missing(a) = {}
  /\ Enter(a, AfterConfig)
  /\ UNCHANGED <<vars, situation, config, read, plugin, line, remote, imported, lost>>

-----------------------------------------------------------------------------
(* The plugin.  It is removed only if some plugin was active.              *)

GetPlugins(a) ==
  /\ stage[a] = "plugins"
  /\ Enter(a, IF plugin = "active" THEN "remove" ELSE "upload")
  /\ UNCHANGED <<vars, situation, config, read, plugin, line, remote, imported, lost>>

(* Mutant: a plugin that was removed is taken for replaced.                *)
RemovePluginOnly(a) ==
  /\ stage[a] = "remove"
  /\ plugin' = "absent"
  /\ Enter(a, "lock")
  /\ UNCHANGED <<vars, situation, config, read, line, remote, imported, lost>>

(* If somebody else removed it by now, that is only logged.                *)
RemovePlugin(a) ==
  /\ stage[a] = "remove"
  /\ plugin' = "absent"
  /\ Enter(a, "upload")
  /\ UNCHANGED <<vars, situation, config, read, line, remote, imported, lost>>

UploadPlugin(a) ==
  /\ stage[a] = "upload"
  /\ plugin = "absent"
  /\ plugin' = "inactive"
  /\ Enter(a, "enable")
  /\ UNCHANGED <<vars, situation, config, read, line, remote, imported, lost>>

EnablePlugin(a) ==
  /\ stage[a] = "enable"
  /\ plugin # "absent"
  /\ plugin' = "active"
  /\ Enter(a, "lock")
  /\ UNCHANGED <<vars, situation, config, read, line, remote, imported, lost>>

(* The server refuses: SetupServer fails, without having asked for the     *)
(* lock.                                                                   *)
PluginRefused(a) ==
  /\ \/ stage[a] = "upload" /\ plugin # "absent"
     \/ stage[a] = "enable" /\ plugin = "absent"
  /\ Crash(a)
  /\ Enter(a, "failed")
  /\ UNCHANGED <<situation, config, read, plugin, line, remote, imported, lost>>

-----------------------------------------------------------------------------
(* The import, under the lock.                                             *)

(* getBulkloadLock, until it returns true.                                 *)
TryLock(a) ==
  /\ stage[a] = "lock"
  /\ LookFirst(a) \/ SetLock(a) \/ LookAgain(a) \/ Poll(a)
  /\ Enter(a, IF pc'[a] = "import" THEN "send" ELSE "lock")
  /\ UNCHANGED <<situation, config, read, plugin, line, remote, imported, lost>>

(* It returns false.                                                       *)
LockLost(a) ==
  /\ stage[a] = "lock"
  /\ LockFails(a)
  /\ Enter(a, "maps")
  /\ lost' = TRUE
  /\ UNCHANGED <<situation, config, read, plugin, line, remote, imported>>

(* A chunk is sent when the number of the next line is a multiple of       *)
(* ChunkLines; the last one, when there are no more lines.                 *)
NextFlush(a) == (line[a] \div ChunkLines + 1) * ChunkLines
LastChunk(a) == NextFlush(a) > situation.lines + 1
Chunk(a) == {n \in Lines : line[a] <= n /\ n < NextFlush(a)} \union {1}

(* Every chunk has the first line, with the version.                       *)
SendLoadtestFile(a) ==
  /\ stage[a] = "send"
  /\ remote' = Chunk(a)
  /\ Enter(a, "import")
  /\ UNCHANGED <<vars, situation, config, read, plugin, line, imported, lost>>

(* Mutant: the line that fills a chunk is dropped with it.                 *)
ImportBulkOffByOne(a) ==
  /\ stage[a] = "import"
  /\ imported' = imported \union remote
  /\ line' = [line EXCEPT ![a] = NextFlush(a) + 1]
  /\ Enter(a, IF LastChunk(a) THEN "maps" ELSE "send")
  /\ UNCHANGED <<vars, situation, config, read, plugin, remote, lost>>

(* What is imported is what is in the file by now.                         *)
ImportBulk(a) ==
  /\ stage[a] = "import"
  /\ imported' = imported \union remote
  /\ line' = [line EXCEPT ![a] = NextFlush(a)]
  /\ Enter(a, IF LastChunk(a) THEN "maps" ELSE "send")
  /\ UNCHANGED <<vars, situation, config, read, plugin, remote, lost>>

(* Mutant: the release is not deferred.                                    *)
LeaveImportLocked(a) ==
  IF pc[a] = "import" THEN Goto(a, "ready", 0) /\ UNCHANGED <<nickname, cleared, failed>>
                      ELSE UNCHANGED vars

(* The lock, if the agent has it, is released when SetupServer returns.    *)
LeaveImport(a) == IF pc[a] = "import" THEN Import(a) ELSE UNCHANGED vars

(* The ids of teams and channels are read, page by page.                   *)
GetTeams(a) ==
  /\ stage[a] = "maps"
  /\ LeaveImport(a)
  /\ Enter(a, "ready")
  /\ UNCHANGED <<situation, config, read, plugin, line, remote, imported, lost>>

Release(a) ==
  /\ LookRelease(a) \/ ClearLock(a)
  /\ UNCHANGED <<setup, lost>>

ReleaseLost(a) ==
  /\ ReleaseFails(a)
  /\ lost' = TRUE
  /\ UNCHANGED setup

-----------------------------------------------------------------------------
(* A request of an agent fails, or a chunk fails to be imported, and       *)
(* SetupServer returns an error.                                           *)
SetupFails(a) ==
  /\ stage[a] \notin {"lock", "ready", "failed"}
  /\ IF pc[a] = "start" THEN Crash(a) ELSE LeaveImport(a)
  /\ Enter(a, "failed")
  /\ lost' = TRUE
  /\ UNCHANGED <<situation, config, read, plugin, line, remote, imported>>

AgentDies(a) ==
  /\ Crash(a)
  /\ Enter(a, "failed")
  /\ lost' = TRUE
  /\ UNCHANGED <<situation, config, read, plugin, line, remote, imported>>

TimePasses ==
  /\ Tick
  /\ UNCHANGED <<setup, lost>>

SetupStep(a) ==
  \/ GetConfig(a) \/ UpdateConfig(a) \/ ConfigChecked(a)
  \/ GetPlugins(a) \/ RemovePlugin(a) \/ UploadPlugin(a) \/ EnablePlugin(a)
  \/ PluginRefused(a)
  \/ TryLock(a) \/ SendLoadtestFile(a) \/ ImportBulk(a) \/ GetTeams(a) \/ Release(a)

(* Of every step.                                                          *)
Observed == overlapped' = (overlapped \/ ~ImportExclusive')

SetupNext ==
  /\ \/ \E a \in Agent : \/ SetupStep(a) \/ LockLost(a) \/ ReleaseLost(a)
                         \/ SetupFails(a) \/ AgentDies(a)
     \/ TimePasses
  /\ Observed

SetupSpec == SetupInit /\ [][SetupNext]_allVars

(* A program that runs takes its next step, and time passes.               *)
SetupFairness ==
  /\ WF_allVars(TimePasses /\ Observed)
  /\ \A a \in Agent : WF_allVars(SetupStep(a) /\ Observed)

FairSetupSpec == SetupSpec /\ SetupFairness

-----------------------------------------------------------------------------
(* Once some agent is past checkConfigForLoadtests, and none is in it, the *)
(* server has every setting, though each agent sends all of the            *)
(* configuration it read before the others changed it.  (While one is in   *)
(* it, it may take settings away from those that are already importing.)   *)
ConfigSettled ==
  /\ ~lost
  /\ \E a \in Agent : stage[a] \notin {"begin", "config"}
  /\ \A a \in Agent : stage[a] # "config"
  => config = Setting

(* Once some agent is past the plugin, and none is at it, the plugin is    *)
(* active, whoever was refused what: one agent's removal and another's     *)
(* upload never leave it out.                                              *)
PluginActive ==
  /\ ~lost
  /\ situation.plugin # "none"
  /\ \E a \in Agent : stage[a] \in {"lock", "send", "import", "maps", "ready"}
  /\ \A a \in Agent : stage[a] \notin {"plugins", "remove", "upload", "enable"}
  => plugin = "active"

(* While nothing fails, and no two agents imported at once, an agent that  *)
(* is ready for its test had all lines of the file imported, whatever the  *)
(* length of the file and of the chunks (lines 143 to 173).                *)
SetupComplete ==
  ~failed /\ ~lost /\ ~overlapped =>
    \A a \in Agent : stage[a] = "ready" => imported = Lines

(* The lock is used as BulkloadLock has it.                                *)
UsesLock == Spec
=============================================================================
