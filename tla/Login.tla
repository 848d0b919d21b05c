-------------------------------- MODULE Login --------------------------------
(***************************************************************************)
(* How an agent's entities get their users (loginAsUsers in loadtest/      *)
(* client.go, and RunTest in run.go): threads log in one user per entity,  *)
(* the tokens of the logins that worked are collected, and entity i works  *)
(* with the i-th token and with the data of user EntityStartNum + i.       *)
(***************************************************************************)
EXTENDS ThreadSplit, Sequences, FiniteSets

CONSTANTS
  NumActiveEntities,        \* entities to start
  EntityStartNum,           \* the first of the agent (loadtestInstance)
  NumUsers,                 \* users on the server
  NumThreads,               \* twice the processors
  RandomizeEntitySelection

ASSUME LoginAssumption ==
  /\ NumActiveEntities \in Nat \ {0}
  /\ EntityStartNum \in Nat
  /\ NumUsers \in Nat
  /\ EntityStartNum + NumActiveEntities <= NumUsers  \* RunTest checks it
  /\ NumThreads \in Nat \ {0}
  /\ RandomizeEntitySelection \in BOOLEAN

VARIABLES
  order,       \* the user who plays each entity
  threads,     \* where each thread is: an index, and a step of its login
  tokens,      \* the user of the token of each index
  active,      \* the users active on the server
  entities,    \* user and data of each entity started
  loginFailed  \* history: has a login failed?

loginVars == <<order, threads, tokens, active, entities, loginFailed>>

User    == 0 .. NumUsers - 1
NoToken == -1
Index   == 0 .. NumActiveEntities - 1
Thread  == 0 .. NumThreads - 1
LoginRequest == {"find", "activate", "login"}

Part(t)    == Share(NumActiveEntities, NumThreads, t)
Working(t) == threads[t].index \in Part(t)

UserNum(i) == order[EntityStartNum + i]

LoginTypeOK ==
  /\ order \in [User -> User]
  /\ threads \in [Thread -> [index : Nat, request : LoginRequest]]
  /\ \A t \in Thread : ~ Working(t) => threads[t].request = "find"
  /\ tokens \in [Index -> User \union {NoToken}]
  /\ active \in SUBSET User
  /\ entities \in Seq([user : User, data : User])
  /\ loginFailed \in BOOLEAN

Permutation == {p \in [User -> User] : \A u, v \in User : p[u] = p[v] => u = v}

(* The users are shuffled by the seed, or not.                             *)
LoginInit ==
  /\ order \in IF RandomizeEntitySelection THEN Permutation ELSE {[u \in User |-> u]}
  /\ threads = [t \in Thread |->
                 [index |-> Start(NumActiveEntities, NumThreads, t), request |-> "find"]]
  /\ tokens = [i \in Index |-> NoToken]
  /\ active = {}  \* users an earlier test may have deactivated
  /\ entities = <<>>
  /\ loginFailed = FALSE

NextIndex(t) == [index |-> threads[t].index + 1, request |-> "find"]

NextRequest(t, request) == [index |-> threads[t].index, request |-> request]

-----------------------------------------------------------------------------
(* loginAsUsers, with ThreadSplit.                                         *)

FindUser(t) ==
  /\ Working(t)
  /\ threads[t].request = "find"
  /\ threads' = [threads EXCEPT ![t] = NextRequest(t, "activate")]
  /\ UNCHANGED <<order, tokens, active, entities, loginFailed>>

ActivateUser(t) ==
  /\ Working(t)
  /\ threads[t].request = "activate"
  /\ active' = active \union {UserNum(threads[t].index)}
  /\ threads' = [threads EXCEPT ![t] = NextRequest(t, "login")]
  /\ UNCHANGED <<order, tokens, entities, loginFailed>>

(* Mutant: tokens are kept in the order in which the logins come back.     *)
LogInAppends(t) ==
  /\ Working(t)
  /\ threads[t].request = "login"
  /\ LET taken == Cardinality({i \in Index : tokens[i] # NoToken})
     IN  tokens' = [tokens EXCEPT ![taken] = UserNum(threads[t].index)]
  /\ threads' = [threads EXCEPT ![t] = NextIndex(t)]
  /\ UNCHANGED <<order, active, entities, loginFailed>>

(* The token is kept at the index of the entity.                           *)
LogIn(t) ==
  /\ Working(t)
  /\ threads[t].request = "login"
  /\ tokens' = [tokens EXCEPT ![threads[t].index] = UserNum(threads[t].index)]
  /\ threads' = [threads EXCEPT ![t] = NextIndex(t)]
  /\ UNCHANGED <<order, active, entities, loginFailed>>

(* Any of the requests fails, which is logged.                             *)
LoginFails(t) ==
  /\ Working(t)
  /\ threads' = [threads EXCEPT ![t] = NextIndex(t)]
  /\ loginFailed' = TRUE
  /\ UNCHANGED <<order, tokens, active, entities>>

(* The tokens in the order of their indexes, without those missing.        *)
ActiveTokens ==
  LET kept[n \in 0 .. NumActiveEntities] ==
        IF n = 0 THEN <<>>
        ELSE IF tokens[n - 1] = NoToken THEN kept[n - 1]
        ELSE Append(kept[n - 1], tokens[n - 1])
  IN  kept[NumActiveEntities]

LoggedIn == \A t \in Thread : ~ Working(t)

(* Mutant: entities are numbered from one.                                 *)
StartEntitiesFromOne ==
  /\ LoggedIn
  /\ entities = <<>>
  /\ ActiveTokens # <<>>
  /\ entities' = [i \in 1 .. Len(ActiveTokens) |->
                   [user |-> ActiveTokens[i], data |-> EntityStartNum + i]]
  /\ UNCHANGED <<order, threads, tokens, active, loginFailed>>

(* RunTest starts an entity for every token, all with the tokens and the   *)
(* numbers in the same order.  (It starts one after another.)              *)
StartEntities ==
  /\ LoggedIn
  /\ entities = <<>>
  /\ ActiveTokens # <<>>
  /\ entities' = [i \in 1 .. Len(ActiveTokens) |->
                   [user |-> ActiveTokens[i], data |-> EntityStartNum + i - 1]]
  /\ UNCHANGED <<order, threads, tokens, active, loginFailed>>

-----------------------------------------------------------------------------
(* Properties.                                                             *)

(* If all logins worked and the users stay in their order, there are all  *)
(* the entities, and each works with the data of the user it is logged in as.  *)
EntitiesAligned ==
  entities # <<>> /\ ~ loginFailed /\ (\A u \in User : order[u] = u) =>
    /\ Len(entities) = NumActiveEntities
    /\ \A i \in DOMAIN entities : entities[i].user = entities[i].data

=============================================================================
