------------------------------ MODULE LoadPosts ------------------------------
(***************************************************************************)
(* LoadPosts (loadtest/bulkload.go): for one team after another, threads   *)
(* make up posts for its channels and send them over an unbuffered channel *)
(* to importers, which write them to files and load those into the         *)
(* database.                                                               *)
(*                                                                         *)
(* The database is external.  Statements run on sessions that database/sql *)
(* pools: the first idle session, or a new one, and at most MaxIdle of     *)
(* them are kept.  A session whose autocommit is off commits when it is    *)
(* turned on again, and rolls back when it ends.                           *)
(***************************************************************************)
EXTENDS ThreadSplit, Sequences, FiniteSets

CONSTANTS
  NumTeams,            \* teams found whose name starts with loadtestteam
  NumChannelsPerTeam,  \* public channels configured
  DefaultChannels,     \* public channels every team has besides
  NumPosts,            \* posts configured
  Block,               \* posts are made in blocks of 100
  BatchSize,           \* lines of a file: 1000
  NumThreads,          \* threads that make posts: 4
  NumImporters,        \* importers: 4
  MaxIdle              \* idle sessions kept: 2, the default of database/sql

ASSUME LoadPostsAssumption ==
  /\ NumTeams \in Nat \ {0}
  /\ NumChannelsPerTeam \in Nat \ {0}
  /\ DefaultChannels \in Nat
  /\ NumPosts \in Nat
  /\ Block \in Nat \ {0}
  /\ BatchSize \in Nat \ {0}
  /\ NumThreads \in Nat \ {0}
  /\ NumImporters \in Nat \ {0}
  /\ MaxIdle \in Nat \ {0}

VARIABLES
  main,        \* where LoadPosts is
  team,        \* the team being loaded
  deferred,    \* deferred calls that turn autocommit on again
  failed,      \* history: has a request, a statement or a file failed?
  made,        \* the posts each thread has sent for this team
  closed,      \* csvLines is closed
  importer,    \* where each importer is
  batch,       \* the lines in its file
  finished,    \* its done
  uses,        \* the session its statement runs on
  idle,        \* the idle sessions
  autocommit,  \* of each session
  pending,     \* posts each session has loaded and not committed
  table,       \* posts committed
  rolledBack   \* posts loaded and rolled back

loop     == <<team, deferred, failed>>
loading  == <<made, closed>>
imports  == <<importer, batch, finished, uses>>
database == <<idle, autocommit, pending, table, rolledBack>>
vars     == <<main, loop, loading, imports, database>>

Thread   == 0 .. NumThreads - 1
Importer == 1 .. NumImporters
Session  == 1 .. NumImporters  \* as many as can be open at a time
NoSession == 0

NumChannels == NumChannelsPerTeam + DefaultChannels

(* The posts of a channel: its part of those configured, in whole blocks.  *)
NumPostsPerChannel == NumPosts \div (NumTeams * NumChannelsPerTeam)
PostsOfChannel     == ((NumPostsPerChannel + Block - 1) \div Block) * Block

Post == (1 .. NumTeams) \X (0 .. NumChannels - 1) \X (0 .. PostsOfChannel - 1)

(* The posts of a thread are numbered through its channels.                *)
PostsOfThread(t) ==
  (End(NumChannels, NumThreads, t) - Start(NumChannels, NumThreads, t)) * PostsOfChannel

PostOf(t, n) ==
  << team, Start(NumChannels, NumThreads, t) + n \div PostsOfChannel, n % PostsOfChannel >>

TypeOK ==
  /\ main \in {"team", "set", "load", "wait", "restore", "returned", "panic"}
  /\ team \in 1 .. NumTeams + 1
  /\ deferred \in 0 .. NumTeams
  /\ failed \in BOOLEAN
  /\ made \in [Thread -> Nat] /\ \A t \in Thread : made[t] <= PostsOfThread(t)
  /\ closed \in BOOLEAN
  /\ importer \in [Importer -> {"open", "receive", "load", "loading", "gone"}]
  /\ batch \in [Importer -> SUBSET Post]
  /\ finished \in [Importer -> BOOLEAN]
  /\ uses \in [Importer -> Session \union {NoSession}]
  /\ idle \in Seq(Session) /\ Len(idle) <= MaxIdle
  /\ autocommit \in [Session -> BOOLEAN]
  /\ pending \in [Session -> SUBSET Post]
  /\ table \in SUBSET Post
  /\ rolledBack \in SUBSET Post

(* The database and the list of teams were there, or LoadPosts is over.    *)
Init ==
  /\ main = "team"
  /\ team = 1
  /\ deferred = 0
  /\ failed = FALSE
  /\ made = [t \in Thread |-> 0]
  /\ closed = FALSE
  /\ importer = [c \in Importer |-> "gone"]
  /\ batch = [c \in Importer |-> {}]
  /\ finished = [c \in Importer |-> FALSE]
  /\ uses = [c \in Importer |-> NoSession]
  /\ idle = <<1>>  \* ConnectToDB pings the database
  /\ autocommit = [s \in Session |-> TRUE]
  /\ pending = [s \in Session |-> {}]
  /\ table = {}
  /\ rolledBack = {}

Running == main \notin {"returned", "panic"}

-----------------------------------------------------------------------------
(* Sessions.                                                               *)

Open == {idle[i] : i \in 1 .. Len(idle)} \union {uses[c] : c \in Importer}

Ended(s) ==
  /\ autocommit' = [autocommit EXCEPT ![s] = TRUE]
  /\ pending' = [pending EXCEPT ![s] = {}]

(* The end of the program ends all sessions.                               *)
Exit ==
  /\ rolledBack' = rolledBack \union UNION {pending[s] : s \in Session}
  /\ pending' = [s \in Session |-> {}]
  /\ UNCHANGED <<idle, autocommit, table>>

-----------------------------------------------------------------------------
(* LoadPosts.                                                              *)

(* The channels and the users of the team are read, page by page.          *)
Fetch ==
  /\ main = "team"
  /\ team <= NumTeams
  /\ main' = "set"
  /\ UNCHANGED <<loop, loading, imports, database>>

(* A request for them fails, and LoadPosts returns.                        *)
FetchFails ==
  /\ main = "team"
  /\ team <= NumTeams
  /\ main' = "restore"
  /\ failed' = TRUE
  /\ UNCHANGED <<team, deferred, loading, imports, database>>

(* Autocommit is turned off, on the first idle session.  That may fail,    *)
(* which is logged.  Then the importers and the threads start.             *)
TurnOff ==
  /\ main = "set"
  /\ \/ autocommit' = [autocommit EXCEPT ![Head(idle)] = FALSE] /\ UNCHANGED failed
     \/ failed' = TRUE /\ UNCHANGED autocommit
  /\ idle' = Append(Tail(idle), Head(idle))
  /\ deferred' = deferred + 1
  /\ made' = [t \in Thread |-> 0]
  /\ closed' = FALSE
  /\ importer' = [c \in Importer |-> "open"]
  /\ finished' = [c \in Importer |-> FALSE]
  /\ main' = "load"
  /\ UNCHANGED <<team, batch, uses, pending, table, rolledBack>>

(* Mutant: the channel is not closed.                                      *)
CloseLinesNot ==
  /\ main = "load"
  /\ \A t \in Thread : made[t] = PostsOfThread(t)
  /\ main' = "wait"
  /\ UNCHANGED <<loop, loading, imports, database>>

(* ThreadSplit returns, and the channel is closed.                         *)
CloseLines ==
  /\ main = "load"
  /\ \A t \in Thread : made[t] = PostsOfThread(t)
  /\ closed' = TRUE
  /\ main' = "wait"
  /\ UNCHANGED <<loop, made, imports, database>>

(* Mutant: LoadPosts does not wait for the importers.                      *)
NextTeamAtOnce ==
  /\ main = "wait"
  /\ team' = team + 1
  /\ main' = "team"
  /\ UNCHANGED <<deferred, failed, loading, imports, database>>

NextTeam ==
  /\ main = "wait"
  /\ \A c \in Importer : importer[c] = "gone"
  /\ team' = team + 1
  /\ main' = "team"
  /\ UNCHANGED <<deferred, failed, loading, imports, database>>

AllTeams ==
  /\ main = "team"
  /\ team > NumTeams
  /\ main' = "restore"
  /\ UNCHANGED <<loop, loading, imports, database>>

(* A deferred call turns autocommit on again, on the first idle session,   *)
(* which commits what it has pending.  (If it fails, that is logged.)      *)
TurnOn ==
  /\ main = "restore"
  /\ deferred > 0
  /\ deferred' = deferred - 1
  /\ idle' = Append(Tail(idle), Head(idle))
  /\ \/ /\ Ended(Head(idle))
        /\ table' = table \union pending[Head(idle)]
        /\ UNCHANGED failed
     \/ failed' = TRUE /\ UNCHANGED <<autocommit, pending, table>>
  /\ UNCHANGED <<main, team, loading, imports, rolledBack>>

(* The program ends with its command.                                      *)
Return ==
  /\ main = "restore"
  /\ deferred = 0
  /\ main' = "returned"
  /\ Exit
  /\ UNCHANGED <<loop, loading, imports>>

-----------------------------------------------------------------------------
(* importCSVToSQL.                                                         *)

OpenFile(c) ==
  /\ Running
  /\ importer[c] = "open"
  /\ importer' = [importer EXCEPT ![c] = "receive"]
  /\ UNCHANGED <<main, loop, loading, batch, finished, uses, database>>

(* There is no temporary file to be had: the importer returns.             *)
OpenFails(c) ==
  /\ Running
  /\ importer[c] = "open"
  /\ importer' = [importer EXCEPT ![c] = "gone"]
  /\ failed' = TRUE
  /\ UNCHANGED <<main, team, deferred, loading, batch, finished, uses, database>>

(* Mutant: a thread sends one post too many.                               *)
SendOneMore(t, c) ==
  /\ Running
  /\ made[t] <= PostsOfThread(t)
  /\ importer[c] = "receive"
  /\ ~ closed
  /\ made' = [made EXCEPT ![t] = @ + 1]
  /\ batch' = [batch EXCEPT ![c] = @ \union {PostOf(t, made[t])}]
  /\ importer' = [importer EXCEPT ![c] =
                   IF Cardinality(batch'[c]) >= BatchSize THEN "load" ELSE "receive"]
  /\ UNCHANGED <<main, loop, closed, finished, uses, database>>

(* A thread sends its next post to an importer, which writes it.           *)
Send(t, c) ==
  /\ Running
  /\ made[t] < PostsOfThread(t)
  /\ importer[c] = "receive"
  /\ ~ closed
  /\ made' = [made EXCEPT ![t] = @ + 1]
  /\ batch' = [batch EXCEPT ![c] = @ \union {PostOf(t, made[t])}]
  /\ importer' = [importer EXCEPT ![c] =
                   IF Cardinality(batch'[c]) >= BatchSize THEN "load" ELSE "receive"]
  /\ UNCHANGED <<main, loop, closed, finished, uses, database>>

SeeClosed(c) ==
  /\ Running
  /\ importer[c] = "receive"
  /\ closed
  /\ finished' = [finished EXCEPT ![c] = TRUE]
  /\ importer' = [importer EXCEPT ![c] = "load"]
  /\ UNCHANGED <<main, loop, loading, batch, uses, database>>

(* LOAD DATA runs on the first idle session, or on a new one.              *)
BeginLoad(c) ==
  /\ Running
  /\ importer[c] = "load"
  /\ importer' = [importer EXCEPT ![c] = "loading"]
  /\ IF idle # <<>>
       THEN uses' = [uses EXCEPT ![c] = Head(idle)] /\ idle' = Tail(idle)
       ELSE /\ \E s \in Session \ Open : uses' = [uses EXCEPT ![c] = s]
            /\ UNCHANGED idle
  /\ UNCHANGED <<main, loop, loading, batch, finished, autocommit,
                 pending, table, rolledBack>>

(* Mutant: the next lines are appended to the file just loaded.            *)
EndLoadSameFile(c) ==
  /\ Running
  /\ importer[c] = "loading"
  /\ UNCHANGED batch
  /\ uses' = [uses EXCEPT ![c] = NoSession]
  /\ importer' = [importer EXCEPT ![c] = IF finished[c] THEN "gone" ELSE "open"]
  /\ LET s == uses[c]
         loaded == pending[s] \union batch[c]
     IN  /\ table' = IF autocommit[s] THEN table \union batch[c] ELSE table
         /\ IF Len(idle) < MaxIdle
              THEN /\ idle' = Append(idle, s)
                   /\ pending' = [pending EXCEPT ![s] = IF autocommit[s] THEN {} ELSE loaded]
                   /\ UNCHANGED <<autocommit, rolledBack>>
              ELSE /\ Ended(s)
                   /\ rolledBack' = IF autocommit[s] THEN rolledBack ELSE rolledBack \union loaded
                   /\ UNCHANGED idle
  /\ UNCHANGED <<main, loop, loading, finished>>

(* The file is loaded, and its session is put back, or closed if there are *)
(* enough idle ones.                                                       *)
EndLoad(c) ==
  /\ Running
  /\ importer[c] = "loading"
  /\ batch' = [batch EXCEPT ![c] = {}]
  /\ uses' = [uses EXCEPT ![c] = NoSession]
  /\ importer' = [importer EXCEPT ![c] = IF finished[c] THEN "gone" ELSE "open"]
  /\ LET s == uses[c]
         loaded == pending[s] \union batch[c]
     IN  /\ table' = IF autocommit[s] THEN table \union batch[c] ELSE table
         /\ IF Len(idle) < MaxIdle
              THEN /\ idle' = Append(idle, s)
                   /\ pending' = [pending EXCEPT ![s] = IF autocommit[s] THEN {} ELSE loaded]
                   /\ UNCHANGED <<autocommit, rolledBack>>
              ELSE /\ Ended(s)
                   /\ rolledBack' = IF autocommit[s] THEN rolledBack ELSE rolledBack \union loaded
                   /\ UNCHANGED idle
  /\ UNCHANGED <<main, loop, loading, finished>>

(* A thread panics: the team has no users to post as.                      *)
ThreadPanics(t) ==
  /\ main = "load"
  /\ made[t] < PostsOfThread(t)
  /\ main' = "panic"
  /\ Exit
  /\ UNCHANGED <<loop, loading, imports>>

(* LOAD DATA fails: there is no result to ask for its rows, and asking for *)
(* them panics.                                                            *)
LoadFails(c) ==
  /\ Running
  /\ importer[c] = "loading"
  /\ main' = "panic"
  /\ Exit
  /\ UNCHANGED <<loop, loading, imports>>

-----------------------------------------------------------------------------

Step ==
  \/ Fetch
  \/ TurnOff
  \/ CloseLines
  \/ NextTeam
  \/ AllTeams
  \/ TurnOn
  \/ Return
  \/ \E c \in Importer :
       \/ OpenFile(c)
       \/ SeeClosed(c)
       \/ BeginLoad(c)
       \/ EndLoad(c)
       \/ \E t \in Thread : Send(t, c)

Next ==
  \/ Step
  \/ FetchFails
  \/ \E t \in Thread : ThreadPanics(t)
  \/ \E c \in Importer : OpenFails(c) \/ LoadFails(c)

Spec == Init /\ [][Next]_vars

(* All steps end the program sooner or later, so that it is enough that    *)
(* some goroutine runs; requests and statements are answered.              *)
FairSpec == Spec /\ WF_vars(Step)

-----------------------------------------------------------------------------
(* Properties.                                                             *)

(* Wherever the posts are, in a file, loaded and not committed, committed  *)
(* or rolled back, none is there twice: no two threads, and no two         *)
(* importers, have it.                                                     *)
NoPostTwice ==
  /\ \A c \in Importer : batch[c] \intersect (table \union rolledBack) = {}
  /\ \A s \in Session : pending[s] \intersect (table \union rolledBack) = {}
  /\ table \intersect rolledBack = {}
  /\ \A c, d \in Importer : c # d => batch[c] \intersect batch[d] = {}
  /\ \A s, u \in Session : s # u => pending[s] \intersect pending[u] = {}
  /\ \A c \in Importer, s \in Session : batch[c] \intersect pending[s] = {}

(* When a team is through, all its posts were loaded, even if importers    *)
(* gave up on the way.                                                     *)
TeamsLoaded ==
  \A p \in Post :
    p[1] < team => p \in table \union rolledBack \union UNION {pending[s] : s \in Session}

(* LoadPosts ends, unless all importers of a team gave up: then its        *)
(* threads send for ever.                                                  *)
Finishes ==
  <>(~ Running) \/ <>[](main = "load" /\ \A c \in Importer : importer[c] = "gone")

(* Nothing having failed, the posts of the teams that are through are in   *)
(* the table at the end: "Load posts onto server" (cmd/loadtest/           *)
(* loadtest.go, line 106).                                                 *)
PostsLoaded ==
  main = "returned" /\ ~ failed => \A p \in Post : p[1] < team => p \in table

=============================================================================
