--------------------------- MODULE EntityActions ---------------------------
(***************************************************************************)
(* What the entities of a test ask of the server (loadtest/tests.go), once *)
(* they are logged in (module Login).  Every entity runs an actor, which   *)
(* performs the actions of its type one after another, and a poller        *)
(* (doStatusPolling), which performs actionGetStatuses; the two share the  *)
(* map Info of the entity, and all of them share the map of the channels.  *)
(*                                                                         *)
(* An action is the sequence of its requests; those that only read and     *)
(* come one after another, whatever their outcome, are one request.  The   *)
(* server is external: it refuses a request without a valid session, and   *)
(* those that need a membership the user does not have.  There is one      *)
(* team, to which all users belong.  The searches, whose requests run in   *)
(* goroutines of their own, and the websocket are in TestRun.              *)
(***************************************************************************)
EXTENDS Login

CONSTANTS
  Channel,    \* channels of the team in the users' data
  Private,    \* those not fetched by SetupServer
  ChannelsOf, \* the channels in the data of each user
  DoStatusPolling,
  Tests,      \* tests to choose from
  MaxActions  \* bound of the model: actions begun in all

(* The tests to choose from (cmd/loadtest/loadtest.go), but for the two    *)
(* with searches of their own.                                             *)
TestName ==
  {"TestAll", "TestBasicPosting", "TestPostReactions", "TestGetChannel", "TestSearch",
   "TestChannelCreateDelete", "TestUpdateUserProfile", "TestTownSquareSpam",
   "TestLeaveJoinChannel", "TestLeaveJoinTeam", "TestDeactivation", "TestMoreChannelsBrowser"}

(* Everybody has a channel.  (An action that finds none to work on returns.) *)
ASSUME EntityAssumption ==
  /\ Private \subseteq Channel
  /\ ChannelsOf \in [User -> (SUBSET Channel) \ {{}}]
  /\ Tests \subseteq TestName
  /\ DoStatusPolling \in BOOLEAN
  /\ MaxActions \in Nat

VARIABLES
  test,        \* the test that runs
  type,        \* the type of each entity
  todo,        \* what is left of the action each process is in
  channel,     \* the channel it works on
  saved,       \* the profile it got last
  channelMap,  \* channels whose id is known
  lock,        \* who holds channelMapLock
  info,        \* processes whose key is in the Info of their entity
  begun,       \* actions begun
  server,      \* what the server knows of the users
  troubled,    \* history: entities one of whose requests has failed
  refused,     \* history: processes one of whose requests was refused
  raced        \* history: maps read or written while they were written

shared     == <<channelMap, lock, info>>
history    == <<troubled, refused, raced>>
actionVars == <<test, type, todo, channel, saved, begun, shared, server, history>>
vars       == <<loginVars, actionVars>>

Entity  == 1 .. NumActiveEntities
Process == Entity \X {"actor", "poller"}
Nobody  == <<0, "actor">>
NoType  == "none"
NoChannel == "none"

-----------------------------------------------------------------------------
(* The actions of tests.go, as sequences of requests.  After a request     *)
(* that fails the action returns, or it goes on.                           *)

Must(request) == [request |-> request, returns |-> TRUE]
May(request)  == [request |-> request, returns |-> FALSE]

GetStatuses(e) ==
  { IF <<e, "poller">> \in info
      THEN <<May("read")>>
      ELSE <<Must("lookup"), Must("view"), Must("keep"), May("read")>> }

LeaveJoinChannel == {<<Must("lookup"), Must("me"), Must("get"), May("tryLeave")>>}

(* Mutant: a channel joined is not left again.                             *)
AfterTryLeaveJoined(removed) == <<Must("join")>>

(* The second half of actionLeaveJoinChannel: who could leave joins again, *)
(* who could not joins and leaves.                                         *)
AfterTryLeave(removed) ==
  IF removed THEN <<Must("join")>> ELSE <<Must("join"), Must("leave")>>

LeaveJoinTeam == {<<Must("me"), Must("read"), Must("leaveTeam"), Must("joinTeam")>>}

PostToTownSquare == {<<Must("townSquare")>>}

(* If the post fails, the action returns, or panics at the reaction to it. *)
Post ==
  { <<Must("lookup")>> \o images \o <<Must("view")>> \o reactions :
      images \in {<<>>, <<Must("view")>>}, reactions \in {<<>>, <<May("read")>>} }

(* A channel of one's own is deleted, a direct or group channel is not.    *)
CreateDeleteChannel ==
  {<<Must("me"), Must("create"), Must("delete")>>, <<Must("me"), Must("read"), Must("read")>>}

(* There may be no channel, or no post, to react to.                       *)
PostReactions ==
  { <<Must("me"), Must("read")>>,
    <<Must("me"), Must("read"), Must("read")>>,
    <<Must("me"), Must("read"), Must("read"), May("read")>> }

GetChannel ==
  {<<Must("lookup"), May("view"), Must("lookup"), May("view"), May("read")>>}

PerformSearch       == {<<Must("read")>>}
GetPostsBeforeAfter == {<<Must("read")>>, <<Must("read"), Must("read"), Must("read")>>}

PostWebhook(e) ==
  { IF <<e, "actor">> \in info
      THEN <<May("post by hook")>>
      ELSE <<Must("lookup"), Must("create hook"), Must("keep"), May("post by hook")>> }

GetTeamUnreads    == {<<May("read")>>}
GetChannelUnreads == {<<Must("me"), Must("lookup"), Must("view")>>}

UpdateUserProfile ==
  { <<Must("me")>> \o image \o patch :
      image \in {<<>>, <<Must("read")>>},
      patch \in {<<>>, <<Must("patch"), Must("read"), Must("update")>>} }

(* Mutant: the user logs in before it is active.                           *)
DeactivateLoginActivate ==
  {<<Must("me"), May("deactivate"), May("login"), May("activate")>>}

DeactivateReactivate ==
  {<<Must("me"), May("deactivate"), May("activate"), May("login")>>}

MoreChannels == {<<>>, <<Must("read")>>, <<Must("read"), Must("read")>>}

StandardActions ==
  UNION {Post, PerformSearch, GetChannel, GetTeamUnreads, GetChannelUnreads,
         MoreChannels, UpdateUserProfile, GetPostsBeforeAfter}

(* What the entities of each type do.                                      *)
ActionsOf(e, t) ==
  CASE t = "standard"        -> StandardActions
    [] t = "poster"          -> Post
    [] t = "reactionsPoster" -> PostReactions
    [] t = "getChannel"      -> GetChannel
    [] t = "search"          -> PerformSearch
    [] t = "channelCreateDelete" -> CreateDeleteChannel
    [] t = "updateUserProfile"   -> UpdateUserProfile
    [] t = "webhook"             -> PostWebhook(e)
    [] t = "townSquareSpammer"   -> PostToTownSquare
    [] t = "channelLeaverJoiner" -> LeaveJoinChannel
    [] t = "teamLeaverJoiner"    -> LeaveJoinTeam
    [] t = "deactivatingUser"    -> DeactivateReactivate
    [] t = "moreChannels"        -> MoreChannels

(* The types of entities in a test.                                        *)
UserEntities(name) ==
  CASE name = "TestAll"           -> {"standard", "webhook"}
    [] name = "TestBasicPosting"  -> {"poster"}
    [] name = "TestPostReactions" -> {"reactionsPoster"}
    [] name = "TestGetChannel"    -> {"getChannel"}
    [] name = "TestSearch"        -> {"search"}
    [] name = "TestChannelCreateDelete" -> {"channelCreateDelete"}
    [] name = "TestUpdateUserProfile"   -> {"updateUserProfile"}
    [] name = "TestTownSquareSpam"      -> {"standard", "townSquareSpammer"}
    [] name = "TestLeaveJoinChannel"    -> {"standard", "channelLeaverJoiner"}
    [] name = "TestLeaveJoinTeam"       -> {"standard", "teamLeaverJoiner"}
    [] name = "TestDeactivation"        -> {"standard", "deactivatingUser"}
    [] name = "TestMoreChannelsBrowser" -> {"standard", "moreChannels"}

-----------------------------------------------------------------------------

(* Steps of an action that are no requests.                                *)
Local == {"lookup", "lock", "storing", "keep", "keeping"}

(* Requests made by the administrator, or without a session.               *)
Others == {"find", "create hook", "post by hook", "deactivate", "activate", "login"}

Request ==
  Others \union
  {"me", "get", "view", "read", "townSquare", "tryLeave", "leave", "join", "leaveTeam",
   "joinTeam", "create", "delete", "patch", "update"}

ActionStep == [request : Local \union Request, returns : BOOLEAN]

TypeOK ==
  /\ LoginTypeOK
  /\ test \in Tests
  /\ type \in [Entity -> UserEntities(test) \union {NoType}]
  /\ todo \in [Process -> Seq(ActionStep)]
  /\ channel \in [Process -> Channel \union {NoChannel}]
  /\ saved \in [Process -> Nat]
  /\ begun \in 0 .. MaxActions
  /\ channelMap \in SUBSET Channel
  /\ lock \in Process \union {Nobody}
  /\ info \in SUBSET Process
  /\ server \in [members : SUBSET (User \X Channel), inTeam : SUBSET User,
                 session : SUBSET User, profile : [User -> Nat], created : SUBSET User]
  /\ troubled \in SUBSET Entity
  /\ refused \in SUBSET Process
  /\ raced \in SUBSET {"ChannelMap", "Info"}

(* The server as the bulk load left it.                                    *)
Loaded ==
  [ members |-> {m \in User \X Channel : m[2] \in ChannelsOf[m[1]]},
    inTeam  |-> User,
    session |-> {},
    profile |-> [u \in User |-> 0],
    created |-> {} ]

Init ==
  /\ LoginInit
  /\ test \in Tests
  /\ type = [e \in Entity |-> NoType]
  /\ todo = [p \in Process |-> <<>>]
  /\ channel = [p \in Process |-> NoChannel]
  /\ saved = [p \in Process |-> 0]
  /\ begun = 0
  /\ channelMap = Channel \ Private
  /\ lock = Nobody
  /\ info = {}
  /\ server = Loaded
  /\ troubled = {}
  /\ refused = {}
  /\ raced = {}

(* RunTest draws the type of each entity.                                  *)
StartTest ==
  /\ StartEntities
  /\ type' \in {f \in [Entity -> UserEntities(test) \union {NoType}] :
                 \A e \in Entity : f[e] = NoType <=> e \notin DOMAIN entities'}
  /\ server' = [server EXCEPT !.session = {entities'[e].user : e \in DOMAIN entities'}]
  /\ UNCHANGED <<test, todo, channel, saved, begun, shared, history>>

-----------------------------------------------------------------------------
(* Processes.                                                              *)

Started == DOMAIN entities
UserOf(p) == entities[p[1]].user
DataOf(p) == entities[p[1]].data

Idle(p) == todo[p] = <<>>
At(p, s) == ~ Idle(p) /\ Head(todo[p]).request = s

Proceed(p) == todo' = [todo EXCEPT ![p] = Tail(@)]

InfoIsWritten(p) == \E q \in Process : q[1] = p[1] /\ At(q, "keeping")

(* An action begins.  Reading Info while it is written is a race.          *)
Begin(p) ==
  /\ Idle(p)
  /\ p[2] = "poller" => DoStatusPolling
  /\ begun < MaxActions
  /\ begun' = begun + 1
  /\ \E action \in IF p[2] = "actor" THEN ActionsOf(p[1], type[p[1]])
                                       ELSE GetStatuses(p[1]) :
       todo' = [todo EXCEPT ![p] = action]
  /\ IF (p[2] = "poller" \/ type[p[1]] = "webhook") /\ InfoIsWritten(p)
       THEN raced' = raced \union {"Info"}
       ELSE UNCHANGED raced
  /\ UNCHANGED <<loginVars, test, type, channel, saved, shared, server, troubled, refused>>

(* GetTeamChannelId reads the map without the lock.                        *)
Lookup(p) ==
  /\ At(p, "lookup")
  /\ \E c \in ChannelsOf[DataOf(p)] :
       /\ channel' = [channel EXCEPT ![p] = c]
       /\ todo' = [todo EXCEPT ![p] =
            IF c \in channelMap THEN Tail(@) ELSE <<Must("find"), Must("lock")>> \o Tail(@)]
  /\ raced' = IF \E q \in Process : At(q, "storing") THEN raced \union {"ChannelMap"} ELSE raced
  /\ UNCHANGED <<loginVars, test, type, saved, begun, shared, server, troubled, refused>>

(* The channel it has looked up is written to the map under the lock.      *)
Lock(p) ==
  /\ At(p, "lock")
  /\ lock = Nobody
  /\ lock' = p
  /\ todo' = [todo EXCEPT ![p] = <<Must("storing")>> \o Tail(@)]
  /\ UNCHANGED <<loginVars, test, type, channel, saved, begun, channelMap, info, server, history>>

Store(p) ==
  /\ At(p, "storing")
  /\ channelMap' = channelMap \union {channel[p]}
  /\ lock' = Nobody
  /\ Proceed(p)
  /\ UNCHANGED <<loginVars, test, type, channel, saved, begun, info, server, history>>

(* Its key is written to the Info of its entity, without a lock.           *)
Keep(p) ==
  /\ At(p, "keep")
  /\ raced' = IF InfoIsWritten(p) THEN raced \union {"Info"} ELSE raced
  /\ todo' = [todo EXCEPT ![p] = <<Must("keeping")>> \o Tail(@)]
  /\ UNCHANGED <<loginVars, test, type, channel, saved, begun, shared, server, troubled, refused>>

Kept(p) ==
  /\ At(p, "keeping")
  /\ info' = info \union {p}
  /\ Proceed(p)
  /\ UNCHANGED <<loginVars, test, type, channel, saved, begun, channelMap, lock, server, history>>

-----------------------------------------------------------------------------
(* Requests.                                                               *)

Member(p) == <<UserOf(p), channel[p]>> \in server.members

Refuses(p) ==
  \/ Head(todo[p]).request \notin Others /\ UserOf(p) \notin server.session
  \/ At(p, "login") /\ UserOf(p) \notin active
  \/ At(p, "view") /\ ~ Member(p)
  \/ At(p, "get") /\ ~ Member(p) /\ channel[p] \in Private
  \/ (At(p, "tryLeave") \/ At(p, "leave")) /\ ~ Member(p)
  \/ /\ At(p, "join") \/ At(p, "townSquare") \/ At(p, "leaveTeam")
     /\ UserOf(p) \notin server.inTeam

Asking(p) == ~ Idle(p) /\ Head(todo[p]).request \in Request

(* What is left of an action after a request that did not work out.        *)
AfterError(p) ==
  IF At(p, "tryLeave") THEN AfterTryLeave(FALSE)
  ELSE IF Head(todo[p]).returns THEN <<>> ELSE Tail(todo[p])

Refuse(p) ==
  /\ Asking(p)
  /\ Refuses(p)
  /\ todo' = [todo EXCEPT ![p] = AfterError(p)]
  /\ refused' = IF At(p, "tryLeave") THEN refused ELSE refused \union {p}
  /\ UNCHANGED <<loginVars, test, type, channel, saved, begun, shared, server, troubled, raced>>

(* A request fails on its way, or on the server.                           *)
Fail(p) ==
  /\ Asking(p)
  /\ todo' = [todo EXCEPT ![p] = AfterError(p)]
  /\ troubled' = troubled \union {p[1]}
  /\ UNCHANGED <<loginVars, test, type, channel, saved, begun, shared, server, refused, raced>>

Answer(p, s) ==
  /\ At(p, s)
  /\ ~ Refuses(p)
  /\ UNCHANGED <<order, threads, tokens, entities, loginFailed,
                 test, type, channel, begun, shared, history>>

Read(p) ==
  /\ \E s \in {"get", "view", "read", "townSquare", "find", "create hook", "post by hook"} :
       Answer(p, s)
  /\ Proceed(p)
  /\ UNCHANGED <<active, saved, server>>

GetMe(p) ==
  /\ Answer(p, "me")
  /\ saved' = [saved EXCEPT ![p] = server.profile[UserOf(p)]]
  /\ Proceed(p)
  /\ UNCHANGED <<active, server>>

TryLeave(p) ==
  /\ Answer(p, "tryLeave")
  /\ server' = [server EXCEPT !.members = @ \ {<<UserOf(p), channel[p]>>}]
  /\ todo' = [todo EXCEPT ![p] = AfterTryLeave(TRUE)]
  /\ UNCHANGED <<active, saved>>

(* What the other requests do to the server.                               *)
Change(p) ==
  LET u == UserOf(p) IN
  /\ \/ Answer(p, "leave") /\ server' = [server EXCEPT !.members = @ \ {<<u, channel[p]>>}]
     \/ Answer(p, "join") /\ server' = [server EXCEPT !.members = @ \union {<<u, channel[p]>>}]
     \/ Answer(p, "leaveTeam")
          /\ server' = [server EXCEPT !.inTeam = @ \ {u}, !.members = {m \in @ : m[1] # u}]
     \/ Answer(p, "joinTeam") /\ server' = [server EXCEPT !.inTeam = @ \union {u}]
     \/ Answer(p, "create") /\ server' = [server EXCEPT !.created = @ \union {u}]
     \/ Answer(p, "delete") /\ server' = [server EXCEPT !.created = @ \ {u}]
     \/ Answer(p, "patch") /\ server' = [server EXCEPT !.profile[u] = @ + 1]
     \/ Answer(p, "update") /\ server' = [server EXCEPT !.profile[u] = saved[p]]
     \/ Answer(p, "login") /\ server' = [server EXCEPT !.session = @ \union {u}]
  /\ Proceed(p)
  /\ UNCHANGED <<active, saved>>

(* Deactivating a user ends its session.                                   *)
Deactivate(p) ==
  /\ Answer(p, "deactivate")
  /\ active' = active \ {UserOf(p)}
  /\ server' = [server EXCEPT !.session = @ \ {UserOf(p)}]
  /\ Proceed(p)
  /\ UNCHANGED saved

Activate(p) ==
  /\ Answer(p, "activate")
  /\ active' = active \union {UserOf(p)}
  /\ Proceed(p)
  /\ UNCHANGED <<saved, server>>

ProcessStep(p) ==
  \/ Begin(p)
  \/ Lookup(p)
  \/ Lock(p)
  \/ Store(p)
  \/ Keep(p)
  \/ Kept(p)
  \/ Refuse(p)
  \/ Fail(p)
  \/ Read(p)
  \/ GetMe(p)
  \/ TryLeave(p)
  \/ Change(p)
  \/ Deactivate(p)
  \/ Activate(p)

LogUsersIn ==
  /\ entities = <<>>
  /\ \E t \in Thread : FindUser(t) \/ ActivateUser(t) \/ LogIn(t) \/ LoginFails(t)
  /\ UNCHANGED actionVars

(* After a race Go ends the program if it notices, and else goes on.       *)
Next ==
  \/ LogUsersIn
  \/ StartTest
  \/ \E p \in Started \X {"actor", "poller"} : ProcessStep(p)

Spec == Init /\ [][Next]_vars

-----------------------------------------------------------------------------
(* Properties.                                                             *)

(* Between two actions, an entity none of whose requests has failed leaves *)
(* its user as it was: in its channels, in the team, active, logged in,    *)
(* its profile unchanged, its channels deleted (tests.go).  Only who       *)
(* leaves a team loses its channels.                                       *)
Restored ==
  \A e \in Started :
    LET u == entities[e].user IN
    Idle(<<e, "actor">>) /\ e \notin troubled =>
      /\ \/ {m \in server.members : m[1] = u} = {m \in Loaded.members : m[1] = u}
         \/ type[e] = "teamLeaverJoiner"
      /\ u \in server.inTeam /\ u \in active /\ u \in server.session
      /\ server.profile[u] = 0
      /\ u \notin server.created

(* An entity that has the data of its own user, and none of whose requests *)
(* has failed, asks for nothing the user may not do; its poller may, while *)
(* the actor has left something or is deactivated.                         *)
NotRefused ==
  \A p \in refused :
    \/ UserOf(p) # DataOf(p)
    \/ p[1] \in troubled
    \/ /\ p[2] = "poller"
       /\ type[p[1]] \in {"channelLeaverJoiner", "teamLeaverJoiner", "deactivatingUser"}

(* "channelMapLock makes it safe to update the ChannelMap below when       *)
(* multiple entities are in play." (entity.go, line 187)                   *)
MapSafe == "ChannelMap" \notin raced

=============================================================================
