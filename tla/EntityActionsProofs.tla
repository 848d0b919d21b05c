-------------------------- MODULE EntityActionsProofs --------------------------
(***************************************************************************)
(* Proofs about Login and EntityActions: the entities get users of their   *)
(* own, and whatever is left of the action an entity is in tells how the   *)
(* server has its user.  So a user is as it was when nothing is left, and  *)
(* no request is refused, as long as none fails.                           *)
(***************************************************************************)
EXTENDS EntityActions, SequenceTheorems, WellFoundedInduction, TLAPS

-----------------------------------------------------------------------------
(* Numbers, and the division of work among threads (see LoadPostsProofs).  *)

(* A set of numbers with zero, and with the successor of each of its       *)
(* numbers, has them all: the least number it lacks would have a           *)
(* predecessor.                                                            *)
LEMMA Induction ==
  ASSUME NEW S, 0 \in S, \A n \in Nat : n \in S => n + 1 \in S
  PROVE  Nat \subseteq S
<1> DEFINE T == {n \in Nat : n \notin S}
           R == OpToRel(<, Nat)
<1>1. SUFFICES ASSUME T # {}
               PROVE  FALSE
  OBVIOUS
<1>2. IsWellFoundedOn(R, Nat)
  BY NatLessThanWellFounded
<1>3. T \subseteq Nat
  OBVIOUS
<1>4. PICK x \in T : \A y \in T : <<y, x>> \notin R
  <2> HIDE DEF T, R
  <2> QED
    BY <1>1, <1>2, <1>3, WFMin
<1>5. x \in Nat /\ x # 0
  OBVIOUS
<1>6. x - 1 \in Nat /\ (x - 1 \in S => x \in S)
  BY <1>5
<1>7. <<x - 1, x>> \in R
  BY <1>5, <1>6 DEF OpToRel
<1>8. x \notin S /\ x - 1 \notin T
  <2> HIDE DEF R
  <2> QED
    BY <1>4, <1>7
<1> QED
  BY <1>6, <1>8

(* The parts of all threads but the last fit into the array.               *)
LEMMA PartsFit ==
  ASSUME NEW n \in Nat, NEW k \in Nat \ {0}
  PROVE  /\ n \div k \in Nat
         /\ (n \div k) * k <= n
         /\ \A t \in 0 .. k - 1 : (n \div k) * t + (n \div k) <= (n \div k) * k
<1> DEFINE q == n \div k
<1>1. q \in Nat
  OBVIOUS
<1>2. n % k \in 0 .. k - 1
  OBVIOUS
<1>3. q * k <= n
  <2>1. n = q * k + (n % k)
    OBVIOUS
  <2>2. q * k \in Int
    BY <1>1
  <2> HIDE DEF q
  <2> QED
    BY <1>2, <2>1, <2>2
<1>4. ASSUME NEW t \in 0 .. k - 1
      PROVE  q * t + q <= q * k
  <2> HIDE DEF q
  <2>1. q * k = q * (t + 1) + q * (k - (t + 1))
    BY <1>1
  <2>2. q * (k - (t + 1)) >= 0
    BY <1>1
  <2>3. q * (t + 1) = q * t + q
    BY <1>1
  <2> QED
    BY <1>1, <2>1, <2>2, <2>3
<1> QED
  BY <1>1, <1>3, <1>4

(* Every index is in the share of some thread (thread_split.go).           *)
LEMMA EveryShare ==
  ASSUME NEW n \in Nat, NEW k \in Nat \ {0}, NEW i \in 0 .. n - 1
  PROVE  \E t \in 0 .. k - 1 : i \in Share(n, k, t)
<1> DEFINE q == n \div k
<1>q. q \in Nat /\ q * k <= n
  BY PartsFit
<1> HIDE DEF q
<1>1. CASE i >= q * (k - 1)
  <2>1. i \in Share(n, k, k - 1)
    BY <1>1, <1>q DEF Share, Start, End, q
  <2> QED
    BY <2>1
<1>2. CASE i < q * (k - 1)
  <2>1. q > 0
    <3>1. q = 0 => q * (k - 1) = 0
      OBVIOUS
    <3> QED
      BY <1>2, <1>q, <3>1
  <2> DEFINE t == i \div q
  <2>2. t \in Nat /\ q * t <= i /\ i < q * t + q
    <3>1. i = q * (i \div q) + (i % q) /\ i % q \in 0 .. q - 1 /\ i \div q \in Int
      BY <1>q, <2>1
    <3>2. i \div q \in Nat
      BY <1>q, <2>1
    <3> QED
      BY <1>q, <3>1, <3>2
  <2> HIDE DEF t
  <2>3. t < k - 1
    <3>1. SUFFICES ASSUME t >= k - 1
                   PROVE  FALSE
      BY <2>2
    <3>2. q * t = q * (k - 1) + q * (t - (k - 1))
      BY <1>q, <2>2
    <3>3. q * (t - (k - 1)) >= 0
      BY <1>q, <2>2, <3>1
    <3> QED
      BY <1>2, <1>q, <2>2, <3>2, <3>3
  <2>4. q * (t + 1) = q * t + q
    BY <1>q, <2>2
  <2>5. i \in Share(n, k, t)
    BY <1>q, <2>2, <2>3, <2>4 DEF Share, Start, End, q
  <2> QED
    BY <2>2, <2>3, <2>5
<1> QED
  BY <1>1, <1>2, <1>q

(* The shares are made of indexes.                                         *)
LEMMA SharesBounded ==
  ASSUME NEW n \in Nat, NEW k \in Nat \ {0}, NEW t \in 0 .. k - 1
  PROVE  /\ 0 <= Start(n, k, t)
         /\ Start(n, k, t) <= End(n, k, t)
         /\ End(n, k, t) <= n
         /\ Start(n, k, t) \in Int
         /\ End(n, k, t) \in Int
<1> DEFINE q == n \div k
<1>q. q \in Nat /\ q * k <= n /\ q * t + q <= q * k
  BY PartsFit
<1> HIDE DEF q
<1>1. q * (t + 1) = q * t + q
  BY <1>q
<1>2. q * t >= 0 /\ q * t \in Int /\ q * k \in Int
  BY <1>q
<1>3. Start(n, k, t) = q * t /\ End(n, k, t) = IF t = k - 1 THEN n ELSE q * (t + 1)
  BY DEF Start, End, q
<1> QED
  BY <1>q, <1>1, <1>2, <1>3

-----------------------------------------------------------------------------
(* The tokens of the logins.                                               *)

USE LoginAssumption

(* The loop that collects them keeps f[n] of the first n.                  *)
Collects(f) ==
  /\ f[0] = <<>>
  /\ \A n \in 1 .. NumActiveEntities :
       f[n] = IF tokens[n - 1] = NoToken THEN f[n - 1] ELSE Append(f[n - 1], tokens[n - 1])

(* The definition of ActiveTokens has such a function.                     *)
LEMMA TokensCollected ==
  \E f : ActiveTokens = f[NumActiveEntities] /\ Collects(f)
<1> DEFINE Step(g, n) == IF n = 0 THEN <<>>
                         ELSE IF tokens[n - 1] = NoToken THEN g[n - 1]
                         ELSE Append(g[n - 1], tokens[n - 1])
           Defined == {n \in Nat : \E g : g = [m \in 0 .. n |-> Step(g, m)]}
<1>1. 0 \in Defined
  <2>1. [m \in 0 .. 0 |-> <<>>] = [m \in 0 .. 0 |-> Step([k \in 0 .. 0 |-> <<>>], m)]
    OBVIOUS
  <2> QED
    BY <2>1
<1>2. ASSUME NEW n \in Nat, n \in Defined
      PROVE  n + 1 \in Defined
  <2>1. PICK g : g = [m \in 0 .. n |-> Step(g, m)]
    BY <1>2
  <2> DEFINE h == [m \in 0 .. n + 1 |-> IF m = n + 1 THEN Step(g, m) ELSE g[m]]
  <2>2. \A m \in 0 .. n + 1 : h[m] = Step(h, m)
    <3>1. ASSUME NEW m \in 0 .. n + 1
          PROVE  h[m] = Step(h, m)
      <4>1. CASE m = 0
        BY <2>1, <4>1
      <4>2. CASE m = n + 1
        BY <2>1, <4>2
      <4>3. CASE m \in 1 .. n
        <5>1. h[m] = g[m] /\ h[m - 1] = g[m - 1]
          <6> HIDE DEF Step
          <6> QED
            BY <4>3
        <5>2. g[m] = Step(g, m)
          <6> HIDE DEF Step
          <6> QED
            BY <2>1, <4>3
        <5> HIDE DEF h
        <5> QED
          BY <4>3, <5>1, <5>2
      <4> QED
        BY <4>1, <4>2, <4>3
    <3> QED
      BY <3>1
  <2>3. h = [m \in 0 .. n + 1 |-> Step(h, m)]
    BY <2>2
  <2> HIDE DEF h
  <2> HIDE DEF Step
  <2>4. \E next : next = [m \in 0 .. n + 1 |-> Step(next, m)]
    BY <2>3, Zenon
  <2>5. n + 1 \in Nat
    OBVIOUS
  <2> QED
    BY <2>4, <2>5, Zenon
<1> HIDE DEF Step, Defined
<1>3. Nat \subseteq Defined
  BY <1>1, <1>2, Induction
<1>4. \E g : g = [m \in 0 .. NumActiveEntities |-> Step(g, m)]
  BY <1>3 DEF Defined
<1> DEFINE f == CHOOSE g : g = [m \in 0 .. NumActiveEntities |-> Step(g, m)]
<1>5. ActiveTokens = f[NumActiveEntities]
  BY Zenon DEF ActiveTokens, Step
<1>6. f = [m \in 0 .. NumActiveEntities |-> Step(f, m)]
  BY <1>4, Zenon
<1> HIDE DEF f
<1>7. \A m \in 0 .. NumActiveEntities : f[m] = Step(f, m)
  BY <1>6
<1>8. Collects(f)
  BY <1>7 DEF Collects, Step
<1> QED
  BY <1>5, <1>8

(* The tokens kept are of different indexes, in no more than there are.    *)
KeptOf(s, n) ==
  /\ s \in Seq(User)
  /\ Len(s) <= n
  /\ \A k \in 1 .. Len(s) : \E i \in 0 .. n - 1 : tokens[i] = s[k] /\ tokens[i] # NoToken
  /\ \A j, k \in 1 .. Len(s) : s[j] = s[k] => j = k
  /\ (\A i \in 0 .. n - 1 : tokens[i] # NoToken) =>
       Len(s) = n /\ \A k \in 1 .. n : s[k] = tokens[k - 1]

(* No two logins give a token of the same user.                            *)
TokensDiffer ==
  /\ tokens \in [Index -> User \union {NoToken}]
  /\ \A i, j \in Index : tokens[i] = tokens[j] /\ tokens[i] # NoToken => i = j

LEMMA TokensKept ==
  ASSUME TokensDiffer
  PROVE  KeptOf(ActiveTokens, NumActiveEntities)
<1>1. PICK f : ActiveTokens = f[NumActiveEntities] /\ Collects(f)
  BY TokensCollected
<1> DEFINE Right == {n \in Nat : n <= NumActiveEntities => KeptOf(f[n], n)}
<1>2. 0 \in Right
  <2>1. KeptOf(<<>>, 0)
    BY DEF KeptOf
  <2> QED
    BY <1>1, <2>1 DEF Collects
<1>3. ASSUME NEW n \in Nat, n \in Right
      PROVE  n + 1 \in Right
  <2>1. SUFFICES ASSUME n + 1 <= NumActiveEntities
                 PROVE  KeptOf(f[n + 1], n + 1)
    OBVIOUS
  <2> DEFINE s == f[n]
             r == f[n + 1]
  <2>2. KeptOf(s, n)
    BY <1>3, <2>1
  <2>3. r = IF tokens[n] = NoToken THEN s ELSE Append(s, tokens[n])
    <3>1. n + 1 \in 1 .. NumActiveEntities /\ (n + 1) - 1 = n
      BY <2>1
    <3> QED
      BY <1>1, <3>1 DEF Collects
  <2>4. n \in Index /\ tokens[n] \in User \union {NoToken}
    BY <2>1 DEF Index, TokensDiffer
  <2> HIDE DEF s, r
  <2> SUFFICES KeptOf(r, n + 1)
    BY DEF r
  <2>5. CASE tokens[n] = NoToken
    BY <2>2, <2>3, <2>5 DEF KeptOf
  <2>6. CASE tokens[n] # NoToken
    <3>1. s \in Seq(User) /\ Len(s) \in Nat /\ Len(s) <= n
      BY <2>2 DEF KeptOf
    <3>2. r = Append(s, tokens[n]) /\ tokens[n] \in User
      BY <2>3, <2>4, <2>6
    <3>3. /\ r \in Seq(User) /\ Len(r) = Len(s) + 1 /\ r[Len(s) + 1] = tokens[n]
          /\ \A k \in 1 .. Len(s) : r[k] = s[k]
      BY <3>1, <3>2
    <3>4. ASSUME NEW k \in 1 .. Len(r)
          PROVE  \E i \in 0 .. n : tokens[i] = r[k] /\ tokens[i] # NoToken
      BY <2>2, <2>6, <3>1, <3>3 DEF KeptOf
    <3>5. ASSUME NEW k \in 1 .. Len(s)
          PROVE  r[k] # tokens[n]
      <4>1. PICK i \in 0 .. n - 1 : tokens[i] = s[k] /\ tokens[i] # NoToken
        BY <2>2 DEF KeptOf
      <4>2. i \in Index /\ i # n
        BY <2>1 DEF Index
      <4> QED
        BY <2>4, <3>3, <4>1, <4>2 DEF TokensDiffer
    <3>6. ASSUME NEW j \in 1 .. Len(r), NEW k \in 1 .. Len(r), r[j] = r[k]
          PROVE  j = k
      BY <2>2, <3>1, <3>3, <3>5, <3>6 DEF KeptOf
    <3>7. ASSUME \A i \in 0 .. n : tokens[i] # NoToken
          PROVE  Len(r) = n + 1 /\ \A k \in 1 .. n + 1 : r[k] = tokens[k - 1]
      <4>1. Len(s) = n /\ \A k \in 1 .. n : s[k] = tokens[k - 1]
        BY <2>2, <3>7 DEF KeptOf
      <4> QED
        BY <3>3, <4>1
    <3>8. (n + 1) - 1 = n
      OBVIOUS
    <3> QED
      BY <3>1, <3>3, <3>4, <3>6, <3>7, <3>8 DEF KeptOf
  <2> QED
    BY <2>5, <2>6
<1> HIDE DEF Right
<1>4. NumActiveEntities \in Right
  <2>1. Nat \subseteq Right
    BY <1>2, <1>3, Induction
  <2> QED
    BY <2>1
<1> QED
  BY <1>1, <1>4 DEF Right

-----------------------------------------------------------------------------
(* Logging in.                                                             *)

(* A thread is past the start of its part, and if no login has failed, it  *)
(* has the tokens of what it is past.                                      *)
PartsInOrder ==
  /\ \A t \in Thread : threads[t].index >= Start(NumActiveEntities, NumThreads, t)
  /\ ~ loginFailed =>
       \A t \in Thread : \A i \in Part(t) : i < threads[t].index => tokens[i] # NoToken

(* Until the entities start, who has a token or is about to log in is      *)
(* active.                                                                 *)
LoggingInActive ==
  entities = <<>> =>
    /\ \A i \in Index : tokens[i] # NoToken => tokens[i] \in active
    /\ \A t \in Thread : threads[t].request = "login" => UserNum(threads[t].index) \in active

(* Once they are started, they have the tokens there are.                  *)
EntitiesHaveTokens ==
  entities # <<>> =>
    /\ LoggedIn
    /\ entities = [i \in 1 .. Len(ActiveTokens) |->
                    [user |-> ActiveTokens[i], data |-> EntityStartNum + i - 1]]

LoginInv ==
  /\ LoginTypeOK
  /\ order \in Permutation
  /\ \A i \in Index : tokens[i] \in {NoToken, UserNum(i)}
  /\ PartsInOrder
  /\ LoggingInActive
  /\ EntitiesHaveTokens

(* Users are numbered from zero, so that none is NoToken, and the user of  *)
(* one index is not that of another.                                       *)
LEMMA UserNumDiffers ==
  ASSUME order \in Permutation
  PROVE  /\ \A i \in Index : UserNum(i) \in User /\ UserNum(i) # NoToken
         /\ \A i, j \in Index : UserNum(i) = UserNum(j) => i = j
<1>1. \A i \in Index : EntityStartNum + i \in User
  BY DEF Index, User
<1>2. order \in [User -> User] /\ \A u, v \in User : order[u] = order[v] => u = v
  BY DEF Permutation
<1>3. \A i, j \in Index : EntityStartNum + i = EntityStartNum + j => i = j
  BY DEF Index
<1>4. NoToken \notin User
  BY DEF NoToken, User
<1> QED
  BY <1>1, <1>2, <1>3, <1>4 DEF UserNum

LEMMA OwnTokensDiffer ==
  ASSUME LoginInv
  PROVE  TokensDiffer
  BY UserNumDiffers DEF LoginInv, LoginTypeOK, TokensDiffer

(* A thread works on an index there is.                                    *)
LEMMA PartOfIndexes ==
  ASSUME NEW t \in Thread
  PROVE  Part(t) \subseteq Index /\ Start(NumActiveEntities, NumThreads, t) \in Nat
<1> DEFINE n == NumActiveEntities
           k == NumThreads
<1>1. t \in 0 .. k - 1 /\ n \in Nat /\ k \in Nat \ {0}
  BY DEF Thread
<1>2. 0 <= Start(n, k, t) /\ End(n, k, t) <= n /\ Start(n, k, t) \in Int /\ End(n, k, t) \in Int
  <2> HIDE DEF n, k
  <2> QED
    BY <1>1, SharesBounded
<1> QED
  BY <1>2 DEF Part, Share, Index

LEMMA LoginStarts == LoginInit => LoginInv
<1> SUFFICES ASSUME LoginInit
             PROVE  LoginInv
  OBVIOUS
<1> USE DEF LoginInit
<1>1. [u \in User |-> u] \in Permutation
  BY DEF Permutation
<1>2. order \in Permutation
  BY <1>1
<1>3. \A t \in Thread : threads[t] = [index |-> Start(NumActiveEntities, NumThreads, t),
                                       request |-> "find"]
  OBVIOUS
<1>4. LoginTypeOK
  <2>1. threads \in [Thread -> [index : Nat, request : LoginRequest]]
    BY PartOfIndexes DEF LoginRequest
  <2>2. order \in [User -> User]
    BY <1>2 DEF Permutation
  <2>3. tokens \in [Index -> User \union {NoToken}]
    OBVIOUS
  <2>4. active \in SUBSET User /\ loginFailed \in BOOLEAN
    OBVIOUS
  <2>5. entities \in Seq([user : User, data : User])
    OBVIOUS
  <2> QED
    BY <1>3, <2>1, <2>2, <2>3, <2>4, <2>5 DEF LoginTypeOK
<1>5. PartsInOrder
  <2>1. ASSUME NEW t \in Thread, NEW i \in Part(t), i < threads[t].index
        PROVE  FALSE
    <3>1. Start(NumActiveEntities, NumThreads, t) \in Nat /\ i \in Index
      BY PartOfIndexes
    <3>2. i >= Start(NumActiveEntities, NumThreads, t)
      BY <3>1, SharesBounded DEF Part, Share, Thread
    <3> QED
      BY <1>3, <2>1, <3>1, <3>2 DEF Index
  <2>2. \A t \in Thread : threads[t].index >= Start(NumActiveEntities, NumThreads, t)
    BY <1>3, PartOfIndexes
  <2> QED
    BY <2>1, <2>2 DEF PartsInOrder
<1>6. LoggingInActive /\ EntitiesHaveTokens
  BY <1>3 DEF LoggingInActive, EntitiesHaveTokens, NoToken
<1> QED
  BY <1>2, <1>4, <1>5, <1>6 DEF LoginInv

(* A step of a login.                                                      *)
LoginStep(t) == FindUser(t) \/ ActivateUser(t) \/ LogIn(t) \/ LoginFails(t)

LEMMA LoginGoesOn ==
  ASSUME LoginInv, entities = <<>>, NEW t \in Thread, LoginStep(t)
  PROVE  LoginInv'
<1> DEFINE i == threads[t].index
<1>1. /\ i \in Part(t) /\ i \in Index /\ i \in Nat
      /\ UserNum(i) \in User /\ UserNum(i) # NoToken
      /\ i >= Start(NumActiveEntities, NumThreads, t)
  <2>1. i \in Part(t)
    BY DEF LoginStep, FindUser, ActivateUser, LogIn, LoginFails, Working
  <2> QED
    BY <2>1, PartOfIndexes, UserNumDiffers DEF LoginInv, Index, PartsInOrder
<1>2. UNCHANGED <<order, entities>>
  BY DEF LoginStep, FindUser, ActivateUser, LogIn, LoginFails
<1>3. \A j \in Index : UserNum(j)' = UserNum(j)
  BY <1>2 DEF UserNum
<1>4. threads \in [Thread -> [index : Nat, request : LoginRequest]]
  BY DEF LoginInv, LoginTypeOK
<1> HIDE DEF i
<1>5. PICK r \in LoginRequest, j \in {i, i + 1} :
        /\ threads' = [threads EXCEPT ![t] = [index |-> j, request |-> r]]
        /\ j = i + 1 => r = "find"
        /\ j = i + 1 => tokens'[i] # NoToken \/ loginFailed'
        /\ r = "login" => UserNum(i) \in active'
  <2>1. CASE FindUser(t)
    <3>1. threads' = [threads EXCEPT ![t] = [index |-> i, request |-> "activate"]]
      BY <2>1 DEF FindUser, NextRequest, i
    <3> QED
      BY <1>1, <3>1 DEF LoginRequest
  <2>2. CASE ActivateUser(t)
    <3>1. threads' = [threads EXCEPT ![t] = [index |-> i, request |-> "login"]]
      BY <2>2 DEF ActivateUser, NextRequest, i
    <3>2. UserNum(i) \in active'
      BY <2>2 DEF ActivateUser, i
    <3> QED
      BY <1>1, <3>1, <3>2 DEF LoginRequest
  <2>3. CASE LogIn(t)
    <3>1. threads' = [threads EXCEPT ![t] = [index |-> i + 1, request |-> "find"]]
      BY <2>3 DEF LogIn, NextIndex, i
    <3>2. tokens' = [tokens EXCEPT ![i] = UserNum(i)] /\ tokens \in [Index -> User \union {NoToken}]
      BY <2>3 DEF LogIn, i, LoginInv, LoginTypeOK
    <3>3. tokens'[i] = UserNum(i)
      BY <1>1, <3>2
    <3> QED
      BY <1>1, <3>1, <3>3 DEF LoginRequest
  <2>4. CASE LoginFails(t)
    <3>1. threads' = [threads EXCEPT ![t] = [index |-> i + 1, request |-> "find"]]
      BY <2>4 DEF LoginFails, NextIndex, i
    <3> QED
      BY <1>1, <2>4, <3>1 DEF LoginRequest, LoginFails
  <2> QED
    BY <2>1, <2>2, <2>3, <2>4 DEF LoginStep
<1>6. /\ tokens' \in {tokens, [tokens EXCEPT ![i] = UserNum(i)]}
      /\ active' \in {active, active \union {UserNum(i)}}
      /\ tokens' # tokens => active' = active /\ UserNum(i) \in active
      /\ loginFailed' \in {loginFailed, TRUE}
  BY DEF LoginStep, FindUser, ActivateUser, LogIn, LoginFails, LoginInv, LoggingInActive, i
<1>7. /\ \A v \in Thread : threads[v]' = IF v = t THEN [index |-> j, request |-> r] ELSE threads[v]
      /\ threads' \in [Thread -> [index : Nat, request : LoginRequest]]
  BY <1>1, <1>4, <1>5
<1>8. /\ tokens' \in [Index -> User \union {NoToken}]
      /\ \A k \in Index : tokens[k]' = tokens[k] \/ (k = i /\ tokens[k]' = UserNum(i))
  BY <1>1, <1>6 DEF LoginInv, LoginTypeOK
<1>9. LoginTypeOK'
  <2>1. \A v \in Thread : ~ Working(v)' => threads[v].request' = "find"
    <3> TAKE v \in Thread
    <3>1. CASE v = t
      BY <1>1, <1>5, <1>7, <3>1 DEF Working
    <3>2. CASE v # t
      BY <1>7, <3>2 DEF Working, LoginInv, LoginTypeOK
    <3> QED
      BY <3>1, <3>2
  <2>2. active' \in SUBSET User /\ loginFailed' \in BOOLEAN
    BY <1>1, <1>6 DEF LoginInv, LoginTypeOK
  <2> QED
    BY <1>2, <1>7, <1>8, <2>1, <2>2 DEF LoginInv, LoginTypeOK
<1>10. order' \in Permutation /\ \A k \in Index : tokens[k]' \in {NoToken, UserNum(k)'}
  BY <1>2, <1>3, <1>8 DEF LoginInv
<1>11. PartsInOrder'
  <2>1. ASSUME NEW v \in Thread
        PROVE  threads[v].index' >= Start(NumActiveEntities, NumThreads, v)
    <3>1. Start(NumActiveEntities, NumThreads, v) \in Nat
      BY PartOfIndexes
    <3> QED
      BY <1>1, <1>5, <1>7, <3>1 DEF LoginInv, PartsInOrder
  <2>2. ASSUME ~ loginFailed', NEW v \in Thread, NEW k \in Part(v), k < threads[v].index'
        PROVE  tokens[k]' # NoToken
    <3>1. k \in Index /\ k \in Nat
      BY PartOfIndexes DEF Index
    <3>2. ~ loginFailed
      BY <1>6, <2>2 DEF LoginInv, LoginTypeOK
    <3>3. CASE k < threads[v].index
      BY <1>1, <1>8, <3>1, <3>2, <3>3 DEF LoginInv, PartsInOrder
    <3>4. CASE ~ (k < threads[v].index)
      <4>1. v = t /\ j = i + 1 /\ k = i
        BY <1>1, <1>5, <1>7, <2>2, <3>1, <3>4 DEF i
      <4> QED
        BY <1>5, <2>2, <4>1
    <3> QED
      BY <3>3, <3>4
  <2> QED
    BY <2>1, <2>2 DEF PartsInOrder
<1>12. LoggingInActive'
  <2>1. ASSUME NEW k \in Index, tokens[k]' # NoToken
        PROVE  tokens[k]' \in active'
    <3>1. CASE tokens[k]' = tokens[k]
      BY <1>6, <2>1, <3>1 DEF LoginInv, LoggingInActive
    <3>2. CASE tokens[k]' # tokens[k]
      BY <1>6, <1>8, <3>2
    <3> QED
      BY <3>1, <3>2
  <2>2. ASSUME NEW v \in Thread, threads[v].request' = "login"
        PROVE  UserNum(threads[v].index)' \in active'
    <3>1. CASE v = t
      BY <1>1, <1>2, <1>5, <1>7, <2>2, <3>1 DEF UserNum
    <3>2. CASE v # t
      BY <1>2, <1>6, <1>7, <2>2, <3>2 DEF UserNum, LoginInv, LoggingInActive
    <3> QED
      BY <3>1, <3>2
  <2> QED
    BY <2>1, <2>2 DEF LoggingInActive
<1> QED
  BY <1>2, <1>9, <1>10, <1>11, <1>12 DEF LoginInv, EntitiesHaveTokens

(* Once the entities are started, nobody logs in any more: who is active   *)
(* changes, but nothing else.                                              *)
LEMMA LoginIsOver ==
  ASSUME LoginInv, entities # <<>>, UNCHANGED <<order, threads, tokens, entities, loginFailed>>,
         active' \in SUBSET User
  PROVE  LoginInv'
<1>1. ActiveTokens' = ActiveTokens /\ LoggedIn' = LoggedIn
  BY DEF ActiveTokens, LoggedIn, Working
<1>2. EntitiesHaveTokens'
  BY <1>1 DEF EntitiesHaveTokens, LoginInv
<1>3. PartsInOrder' /\ LoggingInActive'
  BY DEF LoginInv, PartsInOrder, LoggingInActive
<1>4. LoginTypeOK'
  BY DEF LoginInv, LoginTypeOK, Working
<1>5. \A i \in Index : UserNum(i)' = UserNum(i)
  BY DEF UserNum
<1> QED
  BY <1>2, <1>3, <1>4, <1>5 DEF LoginInv

(* Before and after, the variables of the login stay as they are.          *)
LEMMA LoginRests ==
  ASSUME LoginInv, UNCHANGED loginVars
  PROVE  LoginInv'
<1> USE DEF loginVars
<1>1. ActiveTokens' = ActiveTokens /\ LoggedIn' = LoggedIn
  BY DEF ActiveTokens, LoggedIn, Working
<1>2. EntitiesHaveTokens'
  BY <1>1 DEF EntitiesHaveTokens, LoginInv
<1>3. PartsInOrder'
  BY DEF LoginInv, PartsInOrder
<1>4. LoginTypeOK'
  BY DEF LoginInv, LoginTypeOK, Working
<1>5. \A i : UserNum(i)' = UserNum(i)
  BY DEF UserNum
<1>6. LoggingInActive'
  BY <1>5 DEF LoginInv, LoggingInActive
<1> QED
  BY <1>2, <1>3, <1>4, <1>5, <1>6 DEF LoginInv

(* The entities that are started have users of their own, who are users of *)
(* the server, as are those of their data.                                 *)
EntityUsersOf(es) ==
  /\ DOMAIN es = 1 .. Len(es) /\ Len(es) \in Nat
  /\ Len(es) <= NumActiveEntities
  /\ \A e \in DOMAIN es :
       /\ es[e].user \in User
       /\ es[e].data \in User
       /\ es[e].data = EntityStartNum + e - 1
       /\ \E i \in Index : tokens[i] = es[e].user /\ tokens[i] # NoToken
  /\ \A d, e \in DOMAIN es : es[d].user = es[e].user => d = e

EntityUsers == EntityUsersOf(entities)

LEMMA EntitiesOfTokens ==
  ASSUME NEW s, KeptOf(s, NumActiveEntities), NEW es,
         es = [i \in 1 .. Len(s) |-> [user |-> s[i], data |-> EntityStartNum + i - 1]]
  PROVE  /\ EntityUsersOf(es) /\ es \in Seq([user : User, data : User])
         /\ Len(es) = Len(s)
<1> DEFINE n == Len(s)
<1>1. /\ s \in Seq(User) /\ n \in Nat /\ n <= NumActiveEntities
      /\ \A k \in 1 .. n : \E i \in Index : tokens[i] = s[k] /\ tokens[i] # NoToken
      /\ \A j, k \in 1 .. n : s[j] = s[k] => j = k
  BY DEF KeptOf, Index
<1>2. \A e \in 1 .. n : s[e] \in User /\ EntityStartNum + e - 1 \in User
  BY <1>1 DEF User
<1> HIDE DEF n
<1>3. es = [i \in 1 .. n |-> [user |-> s[i], data |-> EntityStartNum + i - 1]]
  BY DEF n
<1>4. es \in [1 .. n -> [user : User, data : User]]
  BY <1>2, <1>3
<1>5. ASSUME NEW e \in 1 .. n
      PROVE  es[e].user = s[e] /\ es[e].data = EntityStartNum + e - 1
  <2> DEFINE d == EntityStartNum + e - 1
  <2>1. es[e] = [user |-> s[e], data |-> d]
    BY <1>3
  <2> HIDE DEF d
  <2>2. es[e].user = s[e] /\ es[e].data = d
    BY <2>1
  <2> QED
    BY <2>2 DEF d
<1>6. es \in Seq([user : User, data : User]) /\ Len(es) = n /\ DOMAIN es = 1 .. n
  BY <1>1, <1>4, IsASeq, LenProperties
<1> QED
  BY <1>1, <1>2, <1>5, <1>6 DEF EntityUsersOf, n

LEMMA UsersOfEntities ==
  ASSUME LoginInv
  PROVE  EntityUsers
<1>1. CASE entities = <<>>
  BY <1>1 DEF EntityUsers, EntityUsersOf
<1>2. CASE entities # <<>>
  BY <1>2, OwnTokensDiffer, TokensKept, EntitiesOfTokens DEF LoginInv, EntitiesHaveTokens, EntityUsers
<1> QED
  BY <1>1, <1>2

LEMMA LoginEnds ==
  ASSUME LoginInv, StartEntities
  PROVE  LoginInv' /\ EntityUsers' /\ entities' # <<>>
<1>1. UNCHANGED <<order, threads, tokens, active, loginFailed>>
  BY DEF StartEntities
<1>2. ActiveTokens' = ActiveTokens /\ LoggedIn' = LoggedIn
  BY <1>1 DEF ActiveTokens, LoggedIn, Working
<1>3. /\ entities' = [i \in 1 .. Len(ActiveTokens) |->
                      [user |-> ActiveTokens[i], data |-> EntityStartNum + i - 1]]
      /\ ActiveTokens # <<>> /\ LoggedIn
  BY DEF StartEntities
<1>4. /\ EntityUsersOf(entities') /\ entities' \in Seq([user : User, data : User])
      /\ Len(entities') = Len(ActiveTokens)
  <2> DEFINE es == entities'
  <2>1. es = [i \in 1 .. Len(ActiveTokens) |->
               [user |-> ActiveTokens[i], data |-> EntityStartNum + i - 1]]
    BY <1>3
  <2> HIDE DEF es
  <2>2. EntityUsersOf(es) /\ es \in Seq([user : User, data : User]) /\ Len(es) = Len(ActiveTokens)
    BY <2>1, OwnTokensDiffer, TokensKept, EntitiesOfTokens
  <2> QED
    BY <2>2 DEF es
<1>5. EntityUsers'
  BY <1>1, <1>4 DEF EntityUsersOf, EntityUsers
<1>6. ActiveTokens \in Seq(User)
  BY OwnTokensDiffer, TokensKept DEF KeptOf
<1>7. entities' # <<>>
  BY <1>3, <1>4, <1>6
<1>8. EntitiesHaveTokens'
  BY <1>2, <1>3 DEF EntitiesHaveTokens
<1>9. LoginTypeOK' /\ PartsInOrder' /\ LoggingInActive'
  BY <1>1, <1>4, <1>7 DEF LoginInv, LoginTypeOK, PartsInOrder, LoggingInActive, Working
<1>10. \A i : UserNum(i)' = UserNum(i)
  BY <1>1 DEF UserNum
<1> QED
  BY <1>1, <1>5, <1>7, <1>8, <1>9, <1>10 DEF LoginInv

(* If no login has failed, all threads have the tokens of their parts, so  *)
(* that the k-th is that of the k-th user of the agent.                    *)
LEMMA AlignedWithTokens == LoginInv => EntitiesAligned
<1> SUFFICES ASSUME LoginInv, entities # <<>>, ~ loginFailed, \A u \in User : order[u] = u
             PROVE  /\ Len(entities) = NumActiveEntities
                    /\ \A i \in DOMAIN entities : entities[i].user = entities[i].data
  BY DEF EntitiesAligned
<1>1. ASSUME NEW i \in Index
      PROVE  tokens[i] = EntityStartNum + i /\ tokens[i] # NoToken
  <2>1. PICK t \in Thread : i \in Part(t)
    <3> DEFINE n == NumActiveEntities
               k == NumThreads
    <3>1. i \in 0 .. n - 1 /\ n \in Nat /\ k \in Nat \ {0}
      BY DEF Index
    <3>2. \E t \in 0 .. k - 1 : i \in Share(n, k, t)
      <4> HIDE DEF n, k
      <4> QED
        BY <3>1, EveryShare
    <3> QED
      BY <3>2 DEF Thread, Part
  <2>2. ~ Working(t) /\ threads[t].index \in Nat
        /\ threads[t].index >= Start(NumActiveEntities, NumThreads, t)
    BY DEF LoginInv, LoginTypeOK, EntitiesHaveTokens, LoggedIn, PartsInOrder
  <2>3. i < threads[t].index
    <3>1. /\ Start(NumActiveEntities, NumThreads, t) \in Int
          /\ End(NumActiveEntities, NumThreads, t) \in Int
      BY SharesBounded DEF Thread
    <3> QED
      BY <2>1, <2>2, <3>1 DEF Working, Part, Share
  <2>4. tokens[i] # NoToken
    BY <2>1, <2>3 DEF LoginInv, PartsInOrder
  <2>5. EntityStartNum + i \in User
    BY DEF Index, User
  <2> QED
    BY <2>4, <2>5 DEF LoginInv, UserNum
<1>2. /\ Len(ActiveTokens) = NumActiveEntities
      /\ \A k \in 1 .. NumActiveEntities : ActiveTokens[k] = tokens[k - 1]
  BY <1>1, OwnTokensDiffer, TokensKept DEF KeptOf, Index
<1>3. /\ Len(entities) = Len(ActiveTokens)
      /\ entities = [i \in 1 .. Len(ActiveTokens) |->
                      [user |-> ActiveTokens[i], data |-> EntityStartNum + i - 1]]
  BY OwnTokensDiffer, TokensKept, EntitiesOfTokens DEF LoginInv, EntitiesHaveTokens
<1>4. ASSUME NEW i \in DOMAIN entities
      PROVE  entities[i].user = entities[i].data
  <2>1. i \in 1 .. NumActiveEntities /\ entities[i].user = tokens[i - 1]
        /\ entities[i].data = EntityStartNum + i - 1
    BY <1>2, <1>3
  <2>2. i - 1 \in Index
    BY <2>1 DEF Index
  <2> QED
    BY <1>1, <2>1, <2>2
<1> QED
  BY <1>2, <1>3, <1>4

-----------------------------------------------------------------------------
(* What is left of an action.                                              *)

(* Steps that change nothing of a user that has to be changed back.        *)
Plain ==
  Local \union {"find", "create hook", "post by hook", "me", "get", "view", "read", "townSquare"}

(* The first of two steps is followed by the second, and the second, if it *)
(* is not the next, comes after the first.                                 *)
Follows(q, k, first, second) ==
  /\ q[k].request = first => k < Len(q) /\ q[k + 1].request = second
  /\ q[k].request = second => k = 1 \/ q[k - 1].request = first

(* Whatever is undone is undone at once, and at the end of the action.     *)
Fitting(q, k) ==
  /\ q[k].request \in {"tryLeave", "leave", "joinTeam", "delete", "update", "login"} => k = Len(q)
  /\ Follows(q, k, "leaveTeam", "joinTeam")
  /\ Follows(q, k, "create", "delete")
  /\ Follows(q, k, "deactivate", "activate")
  /\ Follows(q, k, "activate", "login")
  /\ q[k].request = "join" =>
       k = 1 /\ (Len(q) = 1 \/ (Len(q) = 2 /\ q[2].request = "leave"))
  /\ q[k].request = "leave" => k = 1 \/ q[k - 1].request = "join"
  /\ q[k].request = "patch" =>
       k + 1 < Len(q) /\ q[k + 1].request = "read" /\ q[k + 2].request = "update"
  /\ q[k].request = "update" =>
       /\ k = 1 \/ q[k - 1].request = "read"
       /\ k <= 2 \/ q[k - 2].request = "patch"

(* What the entities of a type do, and what only they do.  (A poller is    *)
(* taken for a type of its own.)                                           *)
OfType(t, r) ==
  /\ r \in {"tryLeave", "join", "leave"} => t = "channelLeaverJoiner"
  /\ r \in {"leaveTeam", "joinTeam"} => t = "teamLeaverJoiner"
  /\ r \in {"deactivate", "activate", "login"} => t = "deactivatingUser"
  /\ t = "teamLeaverJoiner" => r \in {"me", "read", "leaveTeam", "joinTeam"}
  /\ t = "poller" => r \in Local \union {"find", "view", "read"}

Planned(q, t) ==
  /\ q \in Seq(ActionStep)
  /\ \A k \in 1 .. Len(q) : Fitting(q, k) /\ OfType(t, q[k].request)

(* Steps that work on a channel come after the one that looks it up.       *)
OnChannel == {"lock", "storing", "view", "get", "tryLeave", "join", "leave"}

Looked(q, known) ==
  \A k \in 1 .. Len(q) : q[k].request \in OnChannel =>
    known \/ \E j \in 1 .. k - 1 : q[j].request = "lookup"

(* What has been done to the user that is not undone yet.                  *)
Owed(q) ==
  IF q = <<>> THEN "nothing"
  ELSE IF q[1].request \in {"joinTeam", "delete", "update", "activate", "login", "leave"}
    THEN q[1].request
  ELSE IF q[1].request = "join" THEN (IF Len(q) = 1 THEN "join" ELSE "both")
  ELSE IF q[1].request = "read" /\ Len(q) > 1 /\ q[2].request = "update" THEN "update"
  ELSE "nothing"

(* What one may go on with when nothing is owed.                           *)
Ready(s, t, known) == Planned(s, t) /\ Looked(s, known) /\ Owed(s) = "nothing"

LEMMA NothingLeft ==
  ASSUME NEW t, NEW known
  PROVE  Planned(<<>>, t) /\ Looked(<<>>, known) /\ Owed(<<>>) = "nothing"
  BY DEF Planned, Looked, Owed

(* The rest of an action, after its next step.                             *)
LEMMA Rest ==
  ASSUME NEW q, NEW t, Planned(q, t), q # <<>>
  PROVE  /\ Len(q) \in Nat \ {0} /\ Head(q) = q[1] /\ q[1] \in ActionStep
         /\ Tail(q) \in Seq(ActionStep) /\ Len(Tail(q)) = Len(q) - 1
         /\ \A k \in 1 .. Len(q) - 1 : Tail(q)[k] = q[k + 1]
         /\ Len(q) = 1 => Tail(q) = <<>>
  BY DEF Planned

LEMMA RestPlanned ==
  ASSUME NEW q, NEW t, Planned(q, t), q # <<>>
  PROVE  Planned(Tail(q), t)
<1> DEFINE r == Tail(q)
<1>1. /\ Len(q) \in Nat \ {0} /\ r \in Seq(ActionStep) /\ Len(r) = Len(q) - 1
      /\ \A k \in 1 .. Len(r) : r[k] = q[k + 1]
  BY Rest
<1> HIDE DEF r
<1>2. ASSUME NEW k \in 1 .. Len(r)
      PROVE  Fitting(r, k) /\ OfType(t, r[k].request)
  <2> DEFINE n == Len(q)
             m == Len(r)
  <2>0. n \in Nat \ {0} /\ m = n - 1 /\ \A i \in 1 .. m : r[i] = q[i + 1]
    BY <1>1
  <2> HIDE DEF n, m
  <2>1. /\ k \in Nat /\ k + 1 \in 1 .. n /\ r[k] = q[k + 1]
        /\ k > 1 => r[k - 1] = q[k]
        /\ k > 2 => r[k - 2] = q[k - 1]
        /\ k < m => r[k + 1] = q[k + 2]
        /\ k + 1 < m => r[k + 2] = q[k + 3]
    <3>1. k \in 1 .. m
      BY DEF m
    <3>2. k > 1 => k - 1 \in 1 .. m /\ (k - 1) + 1 = k
      BY <2>0, <3>1
    <3>3. k > 2 => k - 2 \in 1 .. m /\ (k - 2) + 1 = k - 1
      BY <2>0, <3>1
    <3>4. k < m => k + 1 \in 1 .. m /\ (k + 1) + 1 = k + 2
      BY <2>0, <3>1
    <3>5. k + 1 < m => k + 2 \in 1 .. m /\ (k + 2) + 1 = k + 3
      BY <2>0, <3>1
    <3> QED
      BY <2>0, <3>1, <3>2, <3>3, <3>4, <3>5
  <2> USE DEF n, m
  <2>2. Fitting(q, k + 1) /\ OfType(t, q[k + 1].request)
    BY <2>1 DEF Planned
  <2>3. q[k + 1].request # "join"
    BY <2>1, <2>2 DEF Fitting
  <2> QED
    BY <1>1, <2>1, <2>2, <2>3 DEF Fitting, Follows
<1>3. Planned(r, t)
  BY <1>1, <1>2 DEF Planned
<1> QED
  BY <1>3 DEF r

LEMMA RestLooked ==
  ASSUME NEW q, NEW t, Planned(q, t), q # <<>>, NEW known,
         Looked(q, known), q[1].request # "lookup"
  PROVE  Looked(Tail(q), known)
<1> DEFINE r == Tail(q)
<1>1. /\ Len(q) \in Nat \ {0} /\ Len(r) = Len(q) - 1
      /\ \A k \in 1 .. Len(r) : r[k] = q[k + 1]
  BY Rest
<1> HIDE DEF r
<1>2. ASSUME NEW k \in 1 .. Len(r), r[k].request \in OnChannel, ~ known
      PROVE  \E j \in 1 .. k - 1 : r[j].request = "lookup"
  <2>1. k + 1 \in 1 .. Len(q) /\ q[k + 1].request \in OnChannel
    BY <1>1, <1>2
  <2>2. PICK i \in 1 .. (k + 1) - 1 : q[i].request = "lookup"
    BY <1>2, <2>1 DEF Looked
  <2>3. i - 1 \in 1 .. k - 1 /\ r[i - 1] = q[i]
    BY <1>1, <2>1, <2>2
  <2> QED
    BY <2>2, <2>3
<1>3. Looked(r, known)
  BY <1>2 DEF Looked
<1> QED
  BY <1>3 DEF r

(* What is owed after a step.                                              *)
LEMMA OwedAfter ==
  ASSUME NEW q, NEW t, Planned(q, t), q # <<>>
  PROVE  LET r == q[1].request
             o == Owed(Tail(q))
         IN  /\ r = "leaveTeam" => o = "joinTeam"
             /\ r = "create" => o = "delete"
             /\ r = "patch" => o = "update"
             /\ r = "deactivate" => o = "activate"
             /\ r = "activate" => o = "login"
             /\ r = "join" => o = IF Len(q) = 1 THEN "nothing" ELSE "leave"
             /\ r \in {"tryLeave", "leave", "joinTeam", "delete", "update", "login"} => o = "nothing"
             /\ r \in Plain => o = Owed(q) /\ Owed(q) \in {"nothing", "update"}
             /\ r \in Plain \ {"read"} => Owed(q) = "nothing"
<1> DEFINE r == Tail(q)
<1>1. /\ Len(q) \in Nat \ {0} /\ Len(r) = Len(q) - 1 /\ r \in Seq(ActionStep)
      /\ \A k \in 1 .. Len(r) : r[k] = q[k + 1]
      /\ Len(q) = 1 => r = <<>>
  BY Rest
<1>2. /\ Fitting(q, 1)
      /\ Len(q) > 1 => Fitting(q, 2)
      /\ Len(q) > 2 => Fitting(q, 3)
  BY <1>1 DEF Planned
<1> HIDE DEF r
<1>3. /\ Len(q) > 1 => r # <<>> /\ r[1] = q[2]
      /\ Len(q) > 2 => Len(r) > 1 /\ r[2] = q[3]
      /\ Len(q) > 1 => Len(r) >= 1
  BY <1>1
<1> SUFFICES LET h == q[1].request
                 o == Owed(r)
             IN  /\ h = "leaveTeam" => o = "joinTeam"
                 /\ h = "create" => o = "delete"
                 /\ h = "patch" => o = "update"
                 /\ h = "deactivate" => o = "activate"
                 /\ h = "activate" => o = "login"
                 /\ h = "join" => o = IF Len(q) = 1 THEN "nothing" ELSE "leave"
                 /\ h \in {"tryLeave", "leave", "joinTeam", "delete", "update", "login"}
                      => o = "nothing"
                 /\ h \in Plain => o = Owed(q) /\ Owed(q) \in {"nothing", "update"}
                 /\ h \in Plain \ {"read"} => Owed(q) = "nothing"
  BY DEF r
<1> HIDE DEF r
<1> DEFINE h == q[1].request
<1>4. /\ Len(q) = 1 => Owed(r) = "nothing"
      /\ /\ Len(q) > 1
         /\ q[2].request \in {"joinTeam", "delete", "update", "activate", "login", "leave"}
         => Owed(r) = q[2].request
  BY <1>1, <1>3 DEF Owed
<1>5. CASE h \in {"leaveTeam", "create", "deactivate", "activate"}
  <2>1. /\ h = "leaveTeam" => Len(q) > 1 /\ q[2].request = "joinTeam"
        /\ h = "create" => Len(q) > 1 /\ q[2].request = "delete"
        /\ h = "deactivate" => Len(q) > 1 /\ q[2].request = "activate"
        /\ h = "activate" => Len(q) > 1 /\ q[2].request = "login"
    BY <1>1, <1>2 DEF Fitting, Follows
  <2>2. h \notin Plain
    BY <1>5 DEF Plain, Local
  <2> QED
    BY <1>4, <1>5, <2>1, <2>2
<1>6. CASE h = "patch"
  BY <1>1, <1>2, <1>3, <1>6 DEF Fitting, Owed, Plain, Local
<1>7. CASE h = "join"
  BY <1>1, <1>2, <1>4, <1>7 DEF Fitting, Plain, Local
<1>8. CASE h \in {"tryLeave", "leave", "joinTeam", "delete", "update", "login"}
  BY <1>1, <1>2, <1>4, <1>8 DEF Fitting, Plain, Local
<1>9. CASE h \in Plain
  <2>1. h \notin {"tryLeave", "leave", "joinTeam", "delete", "update", "login", "leaveTeam",
                  "create", "deactivate", "activate", "patch", "join"}
    BY <1>9 DEF Plain, Local
  <2>2. CASE Len(q) = 1
    BY <1>1, <1>4, <1>9, <2>1, <2>2 DEF Owed
  <2>3. CASE Len(q) > 1
    <3>1. /\ q[2].request \notin {"joinTeam", "delete", "activate", "login", "leave", "join"}
          /\ q[2].request = "update" => h = "read"
      BY <1>2, <2>1, <2>3 DEF Fitting, Follows
    <3>2. Owed(q) = IF q[2].request = "update" THEN "update" ELSE "nothing"
      BY <1>1, <2>1, <2>3, <3>1 DEF Owed
    <3>3. ~ (q[2].request = "read" /\ Len(r) > 1 /\ r[2].request = "update")
      BY <1>1, <1>2, <1>3, <2>1, <2>3 DEF Fitting
    <3>4. Owed(r) = IF q[2].request = "update" THEN "update" ELSE "nothing"
      BY <1>3, <2>3, <3>1, <3>3 DEF Owed
    <3> QED
      BY <2>1, <3>1, <3>2, <3>4
  <2> QED
    BY <1>1, <2>2, <2>3
<1> QED
  BY <1>5, <1>6, <1>7, <1>8, <1>9

(* A plain step before a rest at whose beginning nothing is owed.          *)
LEMMA StepBefore ==
  ASSUME NEW s, NEW t, Planned(s, t), Owed(s) = "nothing",
         NEW x \in ActionStep, x.request \in Plain, OfType(t, x.request)
  PROVE  Planned(<<x>> \o s, t) /\ Owed(<<x>> \o s) = "nothing"
<1> DEFINE q == <<x>> \o s
           n == Len(s)
<1>1. s \in Seq(ActionStep)
  BY DEF Planned
<1>2. /\ q \in Seq(ActionStep) /\ n \in Nat /\ Len(q) = n + 1 /\ q # <<>> /\ q[1] = x
      /\ n > 0 => q[2] = s[1]
      /\ n = 0 => s = <<>>
  BY <1>1
<1>3. \A k \in 2 .. n + 1 : q[k] = s[k - 1]
  BY <1>1
<1>4. n > 0 => s # <<>>
  BY <1>1
<1> HIDE DEF q, n
<1>5. x.request \notin {"tryLeave", "leave", "joinTeam", "delete", "update", "login", "leaveTeam",
                       "create", "deactivate", "activate", "patch", "join"}
  BY DEF Plain, Local
<1>6. /\ n > 0 => s[1].request \notin {"joinTeam", "delete", "update", "activate", "login", "leave", "join"}
      /\ n > 1 /\ s[1].request = "read" => s[2].request # "update"
  BY <1>4 DEF Owed, n
<1>7. ASSUME NEW k \in 1 .. Len(q)
      PROVE  Fitting(q, k) /\ OfType(t, q[k].request)
  <2>1. CASE k = 1
    BY <1>2, <1>5, <2>1 DEF Fitting, Follows
  <2>2. CASE k # 1
    <3>1. /\ k - 1 \in 1 .. n /\ k \in 2 .. n + 1 /\ q[k] = s[k - 1]
          /\ k > 2 => q[k - 1] = s[k - 2] /\ k - 2 \in 1 .. n
          /\ k > 3 => q[k - 2] = s[k - 3]
          /\ k <= n => q[k + 1] = s[k]
          /\ k + 1 <= n => q[k + 2] = s[k + 1]
      <4>1. k \in 2 .. n + 1
        BY <1>2, <2>2
      <4>2. k > 2 => k - 1 \in 2 .. n + 1 /\ (k - 1) - 1 = k - 2
        BY <1>2, <4>1
      <4>3. k > 3 => k - 2 \in 2 .. n + 1 /\ (k - 2) - 1 = k - 3
        BY <1>2, <4>1
      <4>4. k <= n => k + 1 \in 2 .. n + 1 /\ (k + 1) - 1 = k
        BY <1>2, <4>1
      <4>5. k + 1 <= n => k + 2 \in 2 .. n + 1 /\ (k + 2) - 1 = k + 1
        BY <1>2, <4>1
      <4> QED
        BY <1>2, <1>3, <4>1, <4>2, <4>3, <4>4, <4>5
    <3>2. Fitting(s, k - 1) /\ OfType(t, s[k - 1].request)
      BY <3>1 DEF Planned, n
    <3>3. Len(s) = n /\ Len(q) = n + 1
      BY <1>2 DEF n
    <3>4. CASE k = 2
      <4>1. Fitting(s, 1) /\ n > 0 /\ q[2] = s[1]
        BY <3>1, <3>2, <3>4, <1>2
      <4>2. s[1].request \notin {"joinTeam", "delete", "update", "activate", "login", "leave", "join"}
        BY <1>6, <4>1
      <4> QED
        BY <1>2, <3>1, <3>2, <3>3, <3>4, <4>1, <4>2 DEF Fitting, Follows
    <3>5. CASE k > 2
      <4>1. s[k - 1].request # "join"
        BY <1>2, <3>1, <3>2, <3>5 DEF Fitting
      <4>2. k = 3 => s[2].request # "update" \/ s[1].request # "read"
        BY <1>2, <1>6, <3>1
      <4> QED
        BY <1>2, <3>1, <3>2, <3>3, <3>5, <4>1, <4>2 DEF Fitting, Follows
    <3> QED
      BY <2>2, <3>1, <3>4, <3>5
  <2> QED
    BY <2>1, <2>2
<1>8. Planned(q, t)
  BY <1>2, <1>7 DEF Planned
<1>9. Owed(q) = "nothing"
  BY <1>2, <1>5, <1>6 DEF Owed
<1> QED
  BY <1>8, <1>9 DEF q

(* Looking up before a rest that needs it, or doing something else.        *)
LEMMA LookedBefore ==
  ASSUME NEW s \in Seq(ActionStep), NEW x \in ActionStep, NEW known \in BOOLEAN,
         x.request \in OnChannel => known,
         Looked(s, known \/ x.request = "lookup")
  PROVE  Looked(<<x>> \o s, known)
<1> DEFINE q == <<x>> \o s
<1>1. /\ Len(s) \in Nat /\ Len(q) = Len(s) + 1 /\ q[1] = x
      /\ \A k \in 2 .. Len(q) : q[k] = s[k - 1]
  OBVIOUS
<1> HIDE DEF q
<1>2. ASSUME NEW k \in 1 .. Len(q), q[k].request \in OnChannel, ~ known
      PROVE  \E j \in 1 .. k - 1 : q[j].request = "lookup"
  <2>1. k \in 2 .. Len(q) /\ k - 1 \in 1 .. Len(s)
    BY <1>1, <1>2
  <2>2. CASE x.request = "lookup"
    <3>1. 1 \in 1 .. k - 1 /\ q[1].request = "lookup"
      BY <1>1, <2>1, <2>2
    <3> QED
      BY <3>1
  <2>3. CASE x.request # "lookup"
    <3>1. PICK j \in 1 .. (k - 1) - 1 : s[j].request = "lookup"
      BY <1>1, <1>2, <2>1, <2>3 DEF Looked
    <3>2. j + 1 \in 1 .. k - 1 /\ j + 1 \in 2 .. Len(q) /\ (j + 1) - 1 = j
      BY <2>1
    <3> QED
      BY <1>1, <3>1, <3>2
  <2> QED
    BY <2>2, <2>3
<1>3. Looked(q, known)
  BY <1>2 DEF Looked
<1> QED
  BY <1>3 DEF q

LEMMA ReadyBefore ==
  ASSUME NEW known \in BOOLEAN, NEW t, NEW x \in ActionStep, x.request \in Plain,
         OfType(t, x.request), x.request \in OnChannel => known,
         NEW s, Ready(s, t, known \/ x.request = "lookup")
  PROVE  Ready(<<x>> \o s, t, known)
<1>1. s \in Seq(ActionStep)
  BY DEF Ready, Planned
<1>2. Looked(<<x>> \o s, known)
  BY <1>1, LookedBefore DEF Ready
<1> QED
  BY <1>2, StepBefore DEF Ready

(* Plain steps, and those of them that need no channel.                    *)
PlainStep == {x \in ActionStep : x.request \in Plain}
Elsewhere == {x \in PlainStep : x.request \notin OnChannel}

PlainOf(t) == {x \in PlainStep : OfType(t, x.request)}

LEMMA PlainOfTypeReady ==
  ASSUME NEW t, NEW s \in Seq(PlainOf(t)),
         NEW known, known \/ s \in Seq(Elsewhere)
  PROVE  Ready(s, t, known)
<1>1. /\ Len(s) \in Nat /\ s \in Seq(ActionStep)
      /\ \A k \in 1 .. Len(s) : s[k] \in PlainOf(t)
  <2>1. PlainOf(t) \subseteq ActionStep
    BY DEF PlainStep, PlainOf
  <2> QED
    BY <2>1
<1>2. \A k \in 1 .. Len(s) :
        s[k].request \notin {"tryLeave", "leave", "joinTeam", "delete", "update", "login",
                             "leaveTeam", "create", "deactivate", "activate", "patch", "join"}
  BY <1>1 DEF PlainOf, PlainStep, Plain, Local
<1>3. (s # <<>> => 1 \in 1 .. Len(s)) /\ (Len(s) > 1 => 2 \in 1 .. Len(s))
  OBVIOUS
<1>4. Owed(s) = "nothing"
  BY <1>2, <1>3 DEF Owed
<1>5. \A k \in 1 .. Len(s) : Fitting(s, k) /\ OfType(t, s[k].request)
  BY <1>1, <1>2 DEF Fitting, Follows, PlainOf
<1>6. Looked(s, known)
  <2>1. ASSUME s \in Seq(Elsewhere), NEW k \in 1 .. Len(s)
        PROVE  s[k].request \notin OnChannel
    <3>1. s[k] \in Elsewhere
      BY <2>1
    <3> QED
      BY <3>1 DEF Elsewhere
  <2> QED
    BY <2>1 DEF Looked
<1> QED
  BY <1>1, <1>4, <1>5, <1>6 DEF Ready, Planned

LEMMA PlainReady ==
  ASSUME NEW s \in Seq(PlainStep), NEW t, t \notin {"teamLeaverJoiner", "poller"},
         NEW known, known \/ s \in Seq(Elsewhere)
  PROVE  Ready(s, t, known)
<1>1. PlainStep = PlainOf(t)
  BY DEF PlainOf, PlainStep, Plain, Local, OfType
<1> QED
  BY <1>1, PlainOfTypeReady

(* The steps of tests.go.                                                  *)
LEMMA Steps ==
  /\ \A r \in Local \union Request : Must(r) \in ActionStep /\ May(r) \in ActionStep
  /\ \A r : Must(r).request = r /\ May(r).request = r
  BY DEF Must, May, ActionStep

LEMMA PlainSteps ==
  /\ \A r \in Plain : Must(r) \in PlainStep /\ May(r) \in PlainStep
  /\ \A r \in Plain \ OnChannel : Must(r) \in Elsewhere /\ May(r) \in Elsewhere
<1>1. Plain \subseteq Local \union Request
  BY DEF Plain, Request, Others
<1> QED
  BY <1>1, Steps DEF PlainStep, Elsewhere

(* An action that begins with looking up a channel, of any plain steps.    *)
LEMMA LookupFirst ==
  ASSUME NEW s \in Seq(PlainStep), NEW t, t \notin {"teamLeaverJoiner", "poller"}
  PROVE  Ready(<<Must("lookup")>> \o s, t, FALSE)
<1> DEFINE x == Must("lookup")
<1>1. x \in ActionStep /\ x.request = "lookup" /\ x.request \in Plain /\ x.request \notin OnChannel
  BY Steps DEF Plain, Local, OnChannel
<1>2. OfType(t, x.request)
  BY <1>1 DEF OfType
<1>3. Ready(s, t, FALSE \/ x.request = "lookup")
  BY <1>1, PlainReady
<1> QED
  BY <1>1, <1>2, <1>3, ReadyBefore

LEMMA PostReady ==
  ASSUME NEW t, t \notin {"teamLeaverJoiner", "poller"}, NEW a \in Post
  PROVE  Ready(a, t, FALSE)
<1> DEFINE l == Must("lookup")
           v == Must("view")
           r == May("read")
<1>1. PICK images \in {<<>>, <<v>>}, reactions \in {<<>>, <<r>>} :
        a = <<l>> \o images \o <<v>> \o reactions
  BY DEF Post
<1>2. v \in PlainStep /\ r \in PlainStep /\ l \in PlainStep
  BY PlainSteps DEF Plain, Local
<1> HIDE DEF l, v, r
<1>3. images \in Seq(PlainStep) /\ <<v>> \in Seq(PlainStep) /\ reactions \in Seq(PlainStep)
  <2>1. <<>> \in Seq(PlainStep) /\ <<v>> \in Seq(PlainStep) /\ <<r>> \in Seq(PlainStep)
    BY <1>2
  <2> QED
    BY <1>1, <2>1
<1> DEFINE s == images \o <<v>> \o reactions
<1>4. s \in Seq(PlainStep) /\ a = <<l>> \o s
  <2>1. \A i, j, k \in Seq(PlainStep) :
          i \o j \o k \in Seq(PlainStep) /\ <<l>> \o i \o j \o k = <<l>> \o (i \o j \o k)
    BY <1>2
  <2> QED
    BY <1>1, <1>3, <2>1
<1> QED
  BY <1>4, LookupFirst DEF l

LEMMA GetChannelReady ==
  ASSUME NEW t, t \notin {"teamLeaverJoiner", "poller"}, NEW a \in GetChannel
  PROVE  Ready(a, t, FALSE)
<1> DEFINE l == Must("lookup")
           v == May("view")
           r == May("read")
<1>1. a = <<l, v, l, v, r>>
  BY DEF GetChannel
<1>2. v \in PlainStep /\ r \in PlainStep /\ l \in PlainStep
  BY PlainSteps DEF Plain, Local
<1> HIDE DEF l, v, r
<1>3. <<v, l, v, r>> \in Seq(PlainStep) /\ a = <<l>> \o <<v, l, v, r>>
  BY <1>1, <1>2
<1> QED
  BY <1>3, LookupFirst DEF l

(* Actions that work on no channel.                                        *)
LEMMA ElsewhereReady ==
  ASSUME NEW t, t \notin {"teamLeaverJoiner", "poller"},
         NEW a \in UNION {PostToTownSquare, PostReactions, PerformSearch, GetPostsBeforeAfter,
                          GetTeamUnreads, MoreChannels}
  PROVE  Ready(a, t, FALSE)
<1> DEFINE s == Must("townSquare")
           m == Must("me")
           r == Must("read")
           o == May("read")
<1>1. s \in Elsewhere /\ m \in Elsewhere /\ r \in Elsewhere /\ o \in Elsewhere
  BY PlainSteps DEF Plain, OnChannel
<1>2. a \in {<<s>>, <<m, r>>, <<m, r, r>>, <<m, r, r, o>>, <<r>>, <<r, r, r>>, <<o>>, <<>>, <<r, r>>}
  BY DEF PostToTownSquare, PostReactions, PerformSearch, GetPostsBeforeAfter, GetTeamUnreads,
         MoreChannels
<1> HIDE DEF s, m, r, o
<1>3. a \in Seq(Elsewhere)
  <2>1. <<s>> \in Seq(Elsewhere) /\ <<m, r>> \in Seq(Elsewhere) /\ <<m, r, r>> \in Seq(Elsewhere)
    BY <1>1
  <2>2. <<m, r, r, o>> \in Seq(Elsewhere) /\ <<r>> \in Seq(Elsewhere) /\ <<r, r, r>> \in Seq(Elsewhere)
    BY <1>1
  <2>3. <<o>> \in Seq(Elsewhere) /\ <<>> \in Seq(Elsewhere) /\ <<r, r>> \in Seq(Elsewhere)
    BY <1>1
  <2> QED
    BY <1>2, <2>1, <2>2, <2>3
<1>4. a \in Seq(PlainStep)
  BY <1>3 DEF Elsewhere
<1> QED
  BY <1>3, <1>4, PlainReady

LEMMA GetChannelUnreadsReady ==
  ASSUME NEW t, t \notin {"teamLeaverJoiner", "poller"}, NEW a \in GetChannelUnreads
  PROVE  Ready(a, t, FALSE)
<1> DEFINE m == Must("me")
           l == Must("lookup")
           v == Must("view")
<1>1. a = <<m, l, v>>
  BY DEF GetChannelUnreads
<1>2. /\ m \in PlainStep /\ l \in PlainStep /\ v \in PlainStep
      /\ m \in ActionStep /\ m.request = "me"
  BY PlainSteps, Steps DEF Plain, Local, Request
<1> HIDE DEF m, l, v
<1>3. <<l, v>> = <<l>> \o <<v>>
  <2>1. /\ <<l, v>> \in Seq(PlainStep) /\ Len(<<l, v>>) = 2
        /\ <<l, v>>[1] = l /\ <<l, v>>[2] = v
    BY <1>2
  <2>2. /\ <<l>> \o <<v>> \in Seq(PlainStep) /\ Len(<<l>> \o <<v>>) = 2
        /\ (<<l>> \o <<v>>)[1] = l /\ (<<l>> \o <<v>>)[2] = v
    BY <1>2
  <2> DEFINE x == <<l, v>>
             y == <<l>> \o <<v>>
  <2>3. /\ x \in Seq(PlainStep) /\ y \in Seq(PlainStep) /\ Len(x) = Len(y)
        /\ \A i \in 1 .. Len(x) : x[i] = y[i]
    BY <2>1, <2>2
  <2> HIDE DEF x, y
  <2>4. x = y
    BY <2>3, SeqEqual
  <2> QED
    BY <2>4 DEF x, y
<1>4. Ready(<<l, v>>, t, FALSE)
  <2>1. <<v>> \in Seq(PlainStep)
    BY <1>2
  <2> QED
    BY <1>3, <2>1, LookupFirst DEF l
<1>5. a = <<m>> \o <<l, v>>
  BY <1>1, <1>2
<1>6. OfType(t, "me") /\ "me" \in Plain \ OnChannel
  BY DEF OfType, Plain, OnChannel
<1>7. Ready(<<m>> \o <<l, v>>, t, FALSE)
  BY <1>2, <1>4, <1>6, ReadyBefore
<1> QED
  BY <1>5, <1>7

LEMMA PostWebhookReady ==
  ASSUME NEW t, t \notin {"teamLeaverJoiner", "poller"}, NEW e, NEW a \in PostWebhook(e)
  PROVE  Ready(a, t, FALSE)
<1> DEFINE l == Must("lookup")
           c == Must("create hook")
           k == Must("keep")
           h == May("post by hook")
<1>1. a = <<h>> \/ a = <<l, c, k, h>>
  BY DEF PostWebhook
<1>2. c \in PlainStep /\ k \in PlainStep /\ h \in PlainStep /\ l \in PlainStep /\ h \in Elsewhere
  BY PlainSteps DEF Plain, Local, OnChannel
<1> HIDE DEF l, c, k, h
<1>3. CASE a = <<h>>
  <2>1. <<h>> \in Seq(PlainStep) /\ <<h>> \in Seq(Elsewhere)
    BY <1>2
  <2> QED
    BY <1>3, <2>1, PlainReady
<1>4. CASE a = <<l, c, k, h>>
  <2>1. <<c, k, h>> \in Seq(PlainStep) /\ a = <<l>> \o <<c, k, h>>
    BY <1>2, <1>4
  <2> QED
    BY <2>1, LookupFirst DEF l
<1> QED
  BY <1>1, <1>3, <1>4

(* What the pollers do.                                                    *)
LEMMA GetStatusesReady ==
  ASSUME NEW e, NEW a \in GetStatuses(e)
  PROVE  Ready(a, "poller", FALSE)
<1> DEFINE l == Must("lookup")
           v == Must("view")
           k == Must("keep")
           r == May("read")
<1>1. a = <<r>> \/ a = <<l, v, k, r>>
  BY DEF GetStatuses
<1>2. /\ v \in PlainOf("poller") /\ k \in PlainOf("poller") /\ r \in PlainOf("poller")
      /\ r \in Elsewhere
  BY PlainSteps, Steps DEF Plain, Local, OnChannel, PlainOf, OfType
<1>3. /\ l \in ActionStep /\ l.request = "lookup" /\ "lookup" \in Plain \ OnChannel
      /\ OfType("poller", "lookup")
  BY Steps DEF Local, Plain, OnChannel, OfType
<1> HIDE DEF l, v, k, r
<1>4. CASE a = <<r>>
  <2>1. <<r>> \in Seq(PlainOf("poller")) /\ <<r>> \in Seq(Elsewhere)
    BY <1>2
  <2> QED
    BY <1>4, <2>1, PlainOfTypeReady
<1>5. CASE a = <<l, v, k, r>>
  <2>1. <<v, k, r>> \in Seq(PlainOf("poller")) /\ a = <<l>> \o <<v, k, r>>
    BY <1>2, <1>3, <1>5
  <2>2. Ready(<<v, k, r>>, "poller", FALSE \/ l.request = "lookup")
    BY <1>3, <2>1, PlainOfTypeReady
  <2> QED
    BY <1>3, <2>1, <2>2, ReadyBefore
<1> QED
  BY <1>1, <1>4, <1>5

(* The ends of the actions that change something and change it back.       *)
LEMMA Pair ==
  ASSUME NEW x \in ActionStep, NEW y \in ActionStep, NEW t,
         \/ x.request = "leaveTeam" /\ y.request = "joinTeam"
         \/ x.request = "create" /\ y.request = "delete",
         OfType(t, x.request), OfType(t, y.request)
  PROVE  Ready(<<x, y>>, t, FALSE)
<1> DEFINE q == <<x, y>>
<1>1. q \in Seq(ActionStep) /\ Len(q) = 2 /\ q[1] = x /\ q[2] = y /\ q # <<>>
  OBVIOUS
<1> HIDE DEF q
<1>2. \/ x.request = "leaveTeam" /\ y.request = "joinTeam"
      \/ x.request = "create" /\ y.request = "delete"
  OBVIOUS
<1>3. Fitting(q, 1) /\ Fitting(q, 2)
  BY <1>1, <1>2 DEF Fitting, Follows
<1>4. Planned(q, t)
  BY <1>1, <1>3 DEF Planned
<1>5. Looked(q, FALSE)
  BY <1>1, <1>2 DEF Looked, OnChannel
<1>6. Owed(q) = "nothing"
  BY <1>1, <1>2 DEF Owed
<1>7. Ready(q, t, FALSE)
  BY <1>4, <1>5, <1>6 DEF Ready
<1> QED
  BY <1>7 DEF q

LEMMA Triple ==
  ASSUME NEW x \in ActionStep, NEW y \in ActionStep, NEW z \in ActionStep, NEW t,
         \/ x.request = "patch" /\ y.request = "read" /\ z.request = "update"
         \/ x.request = "deactivate" /\ y.request = "activate" /\ z.request = "login",
         OfType(t, x.request), OfType(t, y.request), OfType(t, z.request)
  PROVE  Ready(<<x, y, z>>, t, FALSE)
<1> DEFINE q == <<x, y, z>>
<1>1. q \in Seq(ActionStep) /\ Len(q) = 3 /\ q[1] = x /\ q[2] = y /\ q[3] = z /\ q # <<>>
  OBVIOUS
<1> HIDE DEF q
<1>2. \/ x.request = "patch" /\ y.request = "read" /\ z.request = "update"
      \/ x.request = "deactivate" /\ y.request = "activate" /\ z.request = "login"
  OBVIOUS
<1>3. Fitting(q, 1) /\ Fitting(q, 2) /\ Fitting(q, 3)
  BY <1>1, <1>2 DEF Fitting, Follows
<1>4. Planned(q, t)
  BY <1>1, <1>3 DEF Planned
<1>5. Looked(q, FALSE)
  BY <1>1, <1>2 DEF Looked, OnChannel
<1>6. Owed(q) = "nothing"
  BY <1>1, <1>2 DEF Owed
<1>7. Ready(q, t, FALSE)
  BY <1>4, <1>5, <1>6 DEF Ready
<1> QED
  BY <1>7 DEF q

LEMMA PrependedOne ==
  ASSUME NEW a \in ActionStep, NEW b \in ActionStep
  PROVE  <<a>> \o <<b>> = <<a, b>>
<1> DEFINE x == <<a>> \o <<b>>
           y == <<a, b>>
<1>1. x \in Seq(ActionStep) /\ Len(x) = 2
      /\ x[1] = a /\ x[2] = b
  OBVIOUS
<1>2. y \in Seq(ActionStep) /\ Len(y) = 2
      /\ y[1] = a /\ y[2] = b
  OBVIOUS
<1> HIDE DEF x, y
<1>3. \A i \in 1 .. Len(x) : x[i] = y[i]
  BY <1>1, <1>2
<1>4. x = y
  BY <1>1, <1>2, <1>3, SeqEqual
<1> QED
  BY <1>4 DEF x, y

LEMMA PrependedTwo ==
  ASSUME NEW a \in ActionStep, NEW b \in ActionStep, NEW c \in ActionStep
  PROVE  <<a>> \o <<b, c>> = <<a, b, c>>
<1> DEFINE x == <<a>> \o <<b, c>>
           y == <<a, b, c>>
<1>1. x \in Seq(ActionStep) /\ Len(x) = 3
      /\ x[1] = a /\ x[2] = b /\ x[3] = c
  OBVIOUS
<1>2. y \in Seq(ActionStep) /\ Len(y) = 3
      /\ y[1] = a /\ y[2] = b /\ y[3] = c
  OBVIOUS
<1> HIDE DEF x, y
<1>3. \A i \in 1 .. Len(x) : x[i] = y[i]
  BY <1>1, <1>2
<1>4. x = y
  BY <1>1, <1>2, <1>3, SeqEqual
<1> QED
  BY <1>4 DEF x, y

LEMMA PrependedThree ==
  ASSUME NEW a \in ActionStep, NEW b \in ActionStep,
         NEW c \in ActionStep, NEW d \in ActionStep
  PROVE  <<a>> \o <<b, c, d>> = <<a, b, c, d>>
<1> DEFINE x == <<a>> \o <<b, c, d>>
           y == <<a, b, c, d>>
<1>1. x \in Seq(ActionStep) /\ Len(x) = 4
      /\ x[1] = a /\ x[2] = b /\ x[3] = c /\ x[4] = d
  OBVIOUS
<1>2. y \in Seq(ActionStep) /\ Len(y) = 4
      /\ y[1] = a /\ y[2] = b /\ y[3] = c /\ y[4] = d
  OBVIOUS
<1> HIDE DEF x, y
<1>3. \A i \in 1 .. Len(x) : x[i] = y[i]
  BY <1>1, <1>2
<1>4. x = y
  BY <1>1, <1>2, <1>3, SeqEqual
<1> QED
  BY <1>4 DEF x, y

LEMMA CreateDeleteChannelReady ==
  ASSUME NEW t, t \notin {"teamLeaverJoiner", "poller"}, NEW a \in CreateDeleteChannel
  PROVE  Ready(a, t, FALSE)
<1> DEFINE m == Must("me")
           c == Must("create")
           d == Must("delete")
           r == Must("read")
<1>1. a = <<m, c, d>> \/ a = <<m, r, r>>
  BY DEF CreateDeleteChannel
<1>2. /\ m \in Elsewhere /\ r \in Elsewhere /\ m \in PlainStep /\ r \in PlainStep
      /\ m \in ActionStep /\ c \in ActionStep /\ d \in ActionStep
      /\ m.request = "me" /\ c.request = "create" /\ d.request = "delete"
  BY PlainSteps, Steps DEF Plain, OnChannel, Local, Request
<1> HIDE DEF m, c, d, r
<1>3. CASE a = <<m, r, r>>
  <2>1. <<m, r, r>> \in Seq(PlainStep) /\ <<m, r, r>> \in Seq(Elsewhere)
    BY <1>2
  <2> QED
    BY <1>3, <2>1, PlainReady
<1>4. CASE a = <<m, c, d>>
  <2>1. Ready(<<c, d>>, t, FALSE)
    BY <1>2, Pair DEF OfType
  <2>2. OfType(t, "me") /\ "me" \in Plain \ OnChannel
    BY DEF OfType, Plain, OnChannel
  <2>3. Ready(<<m>> \o <<c, d>>, t, FALSE)
    BY <1>2, <2>1, <2>2, ReadyBefore
  <2>4. a = <<m>> \o <<c, d>>
    BY <1>2, <1>4
  <2> QED
    BY <2>3, <2>4
<1> QED
  BY <1>1, <1>3, <1>4

LEMMA LeaveJoinTeamReady ==
  ASSUME NEW t, t = "teamLeaverJoiner", NEW a \in LeaveJoinTeam
  PROVE  Ready(a, t, FALSE)
<1> DEFINE m == Must("me")
           r == Must("read")
           l == Must("leaveTeam")
           j == Must("joinTeam")
<1>1. a = <<m, r, l, j>>
  BY DEF LeaveJoinTeam
<1>2. /\ m \in ActionStep /\ r \in ActionStep /\ l \in ActionStep /\ j \in ActionStep
      /\ m.request = "me" /\ r.request = "read"
      /\ l.request = "leaveTeam" /\ j.request = "joinTeam"
  BY Steps DEF Request
<1> HIDE DEF m, r, l, j
<1>3. /\ OfType(t, "me") /\ OfType(t, "read") /\ OfType(t, "leaveTeam") /\ OfType(t, "joinTeam")
      /\ "me" \in Plain \ OnChannel /\ "read" \in Plain \ OnChannel
  BY DEF OfType, Plain, OnChannel
<1>4. Ready(<<l, j>>, t, FALSE)
  BY <1>2, <1>3, Pair
<1>5. Ready(<<r>> \o <<l, j>>, t, FALSE)
  BY <1>2, <1>3, <1>4, ReadyBefore
<1>6. Ready(<<m>> \o (<<r>> \o <<l, j>>), t, FALSE)
  BY <1>2, <1>3, <1>5, ReadyBefore
<1>7. <<m>> \o (<<r>> \o <<l, j>>) = <<m, r, l, j>>
  <2>1. <<r>> \o <<l, j>> = <<r, l, j>>
    BY <1>2, PrependedTwo, Zenon
  <2>2. <<m>> \o <<r, l, j>> = <<m, r, l, j>>
    BY <1>2, PrependedThree, ZenonT(30)
  <2> QED
    BY <2>1, <2>2, Zenon
<1> QED
  BY <1>1, <1>6, <1>7

LEMMA DeactivateReactivateReady ==
  ASSUME NEW t, t = "deactivatingUser", NEW a \in DeactivateReactivate
  PROVE  Ready(a, t, FALSE)
<1> DEFINE m == Must("me")
           d == May("deactivate")
           x == May("activate")
           l == May("login")
<1>1. a = <<m, d, x, l>>
  BY DEF DeactivateReactivate
<1>2. /\ m \in ActionStep /\ d \in ActionStep /\ x \in ActionStep /\ l \in ActionStep
      /\ m.request = "me" /\ d.request = "deactivate"
      /\ x.request = "activate" /\ l.request = "login"
  BY Steps DEF Request, Others
<1> HIDE DEF m, d, x, l
<1>3. /\ OfType(t, "me") /\ OfType(t, "deactivate") /\ OfType(t, "activate") /\ OfType(t, "login")
      /\ "me" \in Plain \ OnChannel
  BY DEF OfType, Plain, OnChannel
<1>4. Ready(<<d, x, l>>, t, FALSE)
  BY <1>2, <1>3, Triple
<1>5. Ready(<<m>> \o <<d, x, l>>, t, FALSE)
  BY <1>2, <1>3, <1>4, ReadyBefore
<1>6. <<m>> \o <<d, x, l>> = <<m, d, x, l>>
  BY <1>2, PrependedThree, ZenonT(30)
<1> QED
  BY <1>1, <1>5, <1>6

LEMMA UpdateUserProfileReady ==
  ASSUME NEW t, t \notin {"teamLeaverJoiner", "poller"}, NEW a \in UpdateUserProfile
  PROVE  Ready(a, t, FALSE)
<1> DEFINE m == Must("me")
           r == Must("read")
           p == Must("patch")
           u == Must("update")
<1>1. PICK image \in {<<>>, <<r>>}, patch \in {<<>>, <<p, r, u>>} : a = <<m>> \o image \o patch
  BY DEF UpdateUserProfile
<1>2. /\ m \in ActionStep /\ r \in ActionStep /\ p \in ActionStep /\ u \in ActionStep
      /\ m.request = "me" /\ r.request = "read" /\ p.request = "patch" /\ u.request = "update"
  BY Steps DEF Request
<1> HIDE DEF m, r, p, u
<1>3. /\ OfType(t, "me") /\ OfType(t, "read") /\ OfType(t, "patch") /\ OfType(t, "update")
      /\ "me" \in Plain \ OnChannel /\ "read" \in Plain \ OnChannel
  BY DEF OfType, Plain, OnChannel
<1>4. Ready(patch, t, FALSE) /\ patch \in Seq(ActionStep)
  <2>1. <<>> \in Seq(ActionStep) /\ <<p, r, u>> \in Seq(ActionStep)
    BY <1>2
  <2>2. Ready(<<>>, t, FALSE)
    BY NothingLeft DEF Ready
  <2>3. Ready(<<p, r, u>>, t, FALSE)
    BY <1>2, <1>3, Triple
  <2> QED
    BY <1>1, <2>1, <2>2, <2>3
<1>5. Ready(<<r>> \o patch, t, FALSE)
  BY <1>2, <1>3, <1>4, ReadyBefore
<1>6. CASE image = <<>>
  <2>1. <<m>> \o <<>> \o patch = <<m>> \o patch
    BY <1>2, <1>4
  <2>2. Ready(<<m>> \o patch, t, FALSE)
    BY <1>2, <1>3, <1>4, ReadyBefore
  <2> QED
    BY <1>1, <1>6, <2>1, <2>2
<1>7. CASE image = <<r>>
  <2>1. <<m>> \o <<r>> \o patch = <<m>> \o (<<r>> \o patch)
    <3>1. \A i, j, k \in Seq(ActionStep) : i \o j \o k = i \o (j \o k)
      OBVIOUS
    <3>2. <<m>> \in Seq(ActionStep) /\ <<r>> \in Seq(ActionStep)
      BY <1>2
    <3> QED
      BY <1>4, <3>1, <3>2
  <2>2. Ready(<<m>> \o (<<r>> \o patch), t, FALSE)
    BY <1>2, <1>3, <1>5, ReadyBefore
  <2> QED
    BY <1>1, <1>7, <2>1, <2>2
<1> QED
  BY <1>1, <1>6, <1>7

LEMMA LeaveJoinChannelReady ==
  ASSUME NEW t, t = "channelLeaverJoiner", NEW a \in LeaveJoinChannel
  PROVE  Ready(a, t, FALSE)
<1> DEFINE l == Must("lookup")
           m == Must("me")
           g == Must("get")
           x == May("tryLeave")
<1>1. a = <<l, m, g, x>>
  BY DEF LeaveJoinChannel
<1>2. /\ l \in ActionStep /\ m \in ActionStep /\ g \in ActionStep /\ x \in ActionStep
      /\ l.request = "lookup" /\ m.request = "me" /\ g.request = "get" /\ x.request = "tryLeave"
  BY Steps DEF Request, Local
<1> HIDE DEF l, m, g, x
<1>3. /\ OfType(t, "lookup") /\ OfType(t, "me") /\ OfType(t, "get") /\ OfType(t, "tryLeave")
      /\ "lookup" \in Plain \ OnChannel /\ "me" \in Plain \ OnChannel /\ "get" \in Plain
  BY DEF OfType, Plain, Local, OnChannel
<1>4. Ready(<<x>>, t, TRUE)
  <2> DEFINE q == <<x>>
  <2>1. q \in Seq(ActionStep) /\ Len(q) = 1 /\ q[1] = x
    BY <1>2
  <2> HIDE DEF q
  <2>2. Fitting(q, 1)
    BY <1>2, <2>1 DEF Fitting, Follows
  <2>3. Ready(q, t, TRUE)
    BY <1>2, <1>3, <2>1, <2>2 DEF Ready, Planned, Looked, Owed
  <2> QED
    BY <2>3 DEF q
<1>5. Ready(<<g>> \o <<x>>, t, TRUE)
  <2>1. TRUE \/ g.request = "lookup" <=> TRUE
    OBVIOUS
  <2> QED
    BY <1>2, <1>3, <1>4, <2>1, ReadyBefore
<1>6. Ready(<<m>> \o (<<g>> \o <<x>>), t, TRUE)
  <2>1. TRUE \/ m.request = "lookup" <=> TRUE
    OBVIOUS
  <2> QED
    BY <1>2, <1>3, <1>5, <2>1, ReadyBefore
<1>7. Ready(<<l>> \o (<<m>> \o (<<g>> \o <<x>>)), t, FALSE)
  BY <1>2, <1>3, <1>6, ReadyBefore
<1>8. <<l>> \o (<<m>> \o (<<g>> \o <<x>>)) = <<l, m, g, x>>
  <2>1. <<g>> \o <<x>> = <<g, x>>
    BY <1>2, PrependedOne, Zenon
  <2>2. <<m>> \o <<g, x>> = <<m, g, x>>
    BY <1>2, PrependedTwo, Zenon
  <2>3. <<l>> \o <<m, g, x>> = <<l, m, g, x>>
    BY <1>2, PrependedThree, ZenonT(30)
  <2> QED
    BY <2>1, <2>2, <2>3, Zenon
<1> QED
  BY <1>1, <1>7, <1>8

(* The types of entities that perform the actions of a type of their own.  *)
EntityType ==
  {"standard", "poster", "reactionsPoster", "getChannel", "search", "channelCreateDelete",
   "updateUserProfile", "webhook", "townSquareSpammer", "channelLeaverJoiner",
   "teamLeaverJoiner", "deactivatingUser", "moreChannels"}

LEMMA TypesOfTests ==
  ASSUME NEW name \in TestName
  PROVE  UserEntities(name) \subseteq EntityType
  BY DEF TestName, UserEntities, EntityType

(* Every action that begins is ready to be performed.                      *)
LEMMA ActionsReady ==
  ASSUME NEW e, NEW t \in EntityType, NEW a \in ActionsOf(e, t)
  PROVE  Ready(a, t, FALSE)
<1>1. CASE t \in {"standard", "poster"}
  <2>1. CASE a \in UNION {PerformSearch, GetTeamUnreads, MoreChannels, GetPostsBeforeAfter}
    BY <1>1, <2>1, ElsewhereReady
  <2>2. CASE a \in Post
    BY <1>1, <2>2, PostReady
  <2>3. CASE a \in GetChannel
    BY <1>1, <2>3, GetChannelReady
  <2>4. CASE a \in GetChannelUnreads
    BY <1>1, <2>4, GetChannelUnreadsReady
  <2>5. CASE a \in UpdateUserProfile
    BY <1>1, <2>5, UpdateUserProfileReady
  <2>6. a \in StandardActions \/ a \in Post
    BY <1>1 DEF ActionsOf
  <2> QED
    BY <2>1, <2>2, <2>3, <2>4, <2>5, <2>6 DEF StandardActions
<1>2. CASE t \in {"reactionsPoster", "search", "townSquareSpammer", "moreChannels"}
  <2>1. a \in PostReactions \/ a \in PerformSearch \/ a \in PostToTownSquare \/ a \in MoreChannels
    BY <1>2 DEF ActionsOf
  <2> QED
    BY <1>2, <2>1, ElsewhereReady
<1>3. CASE t = "getChannel"
  <2>1. a \in GetChannel
    BY <1>3 DEF ActionsOf
  <2> QED
    BY <1>3, <2>1, GetChannelReady
<1>4. CASE t = "channelCreateDelete"
  <2>1. a \in CreateDeleteChannel
    BY <1>4 DEF ActionsOf
  <2> QED
    BY <1>4, <2>1, CreateDeleteChannelReady
<1>5. CASE t = "updateUserProfile"
  <2>1. a \in UpdateUserProfile
    BY <1>5 DEF ActionsOf
  <2> QED
    BY <1>5, <2>1, UpdateUserProfileReady
<1>6. CASE t = "webhook"
  <2>1. a \in PostWebhook(e)
    BY <1>6 DEF ActionsOf
  <2> QED
    BY <1>6, <2>1, PostWebhookReady
<1>7. CASE t = "channelLeaverJoiner"
  <2>1. a \in LeaveJoinChannel
    BY <1>7 DEF ActionsOf
  <2> QED
    BY <1>7, <2>1, LeaveJoinChannelReady
<1>8. CASE t = "teamLeaverJoiner"
  <2>1. a \in LeaveJoinTeam
    BY <1>8 DEF ActionsOf
  <2> QED
    BY <1>8, <2>1, LeaveJoinTeamReady
<1>9. CASE t = "deactivatingUser"
  <2>1. a \in DeactivateReactivate
    BY <1>9 DEF ActionsOf
  <2> QED
    BY <1>9, <2>1, DeactivateReactivateReady
<1> QED
  BY <1>1, <1>2, <1>3, <1>4, <1>5, <1>6, <1>7, <1>8, <1>9 DEF EntityType

(* What an entity goes on with when it has tried to leave a channel.       *)
LEMMA AfterTryLeaveReady ==
  ASSUME NEW t, t = "channelLeaverJoiner", NEW removed \in BOOLEAN
  PROVE  /\ Planned(AfterTryLeave(removed), t)
         /\ Looked(AfterTryLeave(removed), TRUE)
         /\ Owed(AfterTryLeave(removed)) = IF removed THEN "join" ELSE "both"
<1> DEFINE j == Must("join")
           l == Must("leave")
<1>1. /\ j \in ActionStep /\ l \in ActionStep /\ j.request = "join" /\ l.request = "leave"
  BY Steps DEF Request
<1>2. OfType(t, "join") /\ OfType(t, "leave")
  BY DEF OfType
<1>3. AfterTryLeave(removed) = IF removed THEN <<j>> ELSE <<j, l>>
  BY DEF AfterTryLeave
<1> HIDE DEF j, l
<1>4. CASE removed
  <2> DEFINE q == <<j>>
  <2>1. q \in Seq(ActionStep) /\ Len(q) = 1 /\ q[1] = j /\ q # <<>>
    BY <1>1
  <2>2. AfterTryLeave(removed) = q
    BY <1>3, <1>4
  <2> HIDE DEF q
  <2>3. Fitting(q, 1)
    BY <1>1, <2>1 DEF Fitting, Follows
  <2>4. Planned(q, t)
    BY <1>1, <1>2, <2>1, <2>3 DEF Planned
  <2>5. Looked(q, TRUE)
    BY DEF Looked
  <2>6. Owed(q) = "join"
    BY <1>1, <2>1 DEF Owed
  <2> QED
    BY <1>4, <2>2, <2>4, <2>5, <2>6
<1>5. CASE ~ removed
  <2> DEFINE q == <<j, l>>
  <2>1. q \in Seq(ActionStep) /\ Len(q) = 2 /\ q[1] = j /\ q[2] = l /\ q # <<>>
    BY <1>1
  <2>2. AfterTryLeave(removed) = q
    BY <1>3, <1>5
  <2> HIDE DEF q
  <2>3. Fitting(q, 1) /\ Fitting(q, 2)
    BY <1>1, <2>1 DEF Fitting, Follows
  <2>4. Planned(q, t)
    BY <1>1, <1>2, <2>1, <2>3 DEF Planned
  <2>5. Looked(q, TRUE)
    BY DEF Looked
  <2>6. Owed(q) = "both"
    BY <1>1, <2>1 DEF Owed
  <2> QED
    BY <1>5, <2>2, <2>4, <2>5, <2>6
<1> QED
  BY <1>4, <1>5

-----------------------------------------------------------------------------
(* The invariant.                                                          *)

(* The server srv, with the users act active, has user u as it is left by  *)
(* an entity of type t that owes something and works on channel c.         *)
ChannelsLeft(owed, u, c) ==
  IF owed = "join" THEN ChannelsOf[u] \ {c}
  ELSE IF owed = "leave" THEN ChannelsOf[u] \union {c}
  ELSE ChannelsOf[u]

LeftAs(owed, u, c, t, srv, act) ==
  /\ u \in srv.inTeam <=> owed # "joinTeam"
  /\ u \in act <=> owed # "activate"
  /\ u \in srv.session <=> owed \notin {"activate", "login"}
  /\ u \in srv.created <=> owed = "delete"
  /\ srv.profile[u] = IF owed = "update" THEN 1 ELSE 0
  /\ t # "teamLeaverJoiner" =>
       /\ \A d \in Channel : <<u, d>> \in srv.members <=> d \in ChannelsLeft(owed, u, c)
       /\ owed = "join" => c \in ChannelsOf[u]
       /\ owed \in {"both", "leave"} => c \notin ChannelsOf[u]

Actor(e) == <<e, "actor">>
Role(p)  == IF p[2] = "actor" THEN type[p[1]] ELSE "poller"
Known(p) == channel[p] \in ChannelsOf[DataOf(p)]

ActionsPlanned ==
  \A p \in Process : Planned(todo[p], Role(p)) /\ Looked(todo[p], Known(p))

UsersAsLeft ==
  \A e \in Started \ troubled :
    /\ saved[Actor(e)] = 0
    /\ LeftAs(Owed(todo[Actor(e)]), entities[e].user, channel[Actor(e)], type[e], server, active)

NothingBegun ==
  entities = <<>> =>
    /\ todo = [p \in Process |-> <<>>]
    /\ saved = [p \in Process |-> 0]
    /\ server = Loaded
    /\ troubled = {} /\ refused = {}

ActionsInv ==
  /\ LoginInv
  /\ TypeOK
  /\ NothingBegun
  /\ \A e \in Started : type[e] # NoType
  /\ ActionsPlanned
  /\ UsersAsLeft
  /\ NotRefused

(* A process of an entity that is started.                                 *)
LEMMA OfProcess ==
  ASSUME ActionsInv, NEW p \in Started \X {"actor", "poller"}
  PROVE  /\ p \in Process /\ p[1] \in Started /\ p[1] \in Entity /\ entities # <<>>
         /\ p = <<p[1], p[2]>> /\ p[2] \in {"actor", "poller"}
         /\ UserOf(p) \in User /\ DataOf(p) \in User
         /\ type[p[1]] \in EntityType
         /\ ChannelsOf[DataOf(p)] \subseteq Channel /\ ChannelsOf[UserOf(p)] \subseteq Channel
         /\ \A e \in Started : e \in Entity /\ (entities[e].user = UserOf(p) => e = p[1])
                               /\ entities[e].user \in User
<1>1. EntityUsers
  BY UsersOfEntities DEF ActionsInv
<1>2. p[1] \in Started /\ p = <<p[1], p[2]>> /\ p[2] \in {"actor", "poller"}
  OBVIOUS
<1>3. \A e \in Started : e \in Entity
  BY <1>1 DEF EntityUsers, EntityUsersOf, Started, Entity
<1>4. p \in Process /\ p[1] \in Entity
  BY <1>2, <1>3 DEF Process
<1>5. /\ UserOf(p) \in User /\ DataOf(p) \in User
      /\ \A e \in Started : (entities[e].user = UserOf(p) => e = p[1]) /\ entities[e].user \in User
  BY <1>1, <1>2 DEF EntityUsers, EntityUsersOf, Started, UserOf, DataOf
<1>6. entities # <<>>
  BY <1>2 DEF Started
<1>7. type[p[1]] \in EntityType
  <2>1. type[p[1]] \in UserEntities(test) /\ test \in TestName
    BY <1>2, <1>4, EntityAssumption DEF ActionsInv, TypeOK
  <2> QED
    BY <2>1, TypesOfTests
<1>8. \A u \in User : ChannelsOf[u] \subseteq Channel
  BY EntityAssumption
<1> QED
  BY <1>2, <1>3, <1>4, <1>5, <1>6, <1>7, <1>8

(* What the step an untroubled actor is at tells of its action.            *)
LEMMA AtHead ==
  ASSUME ActionsInv, NEW p \in Process, ~ Idle(p)
  PROVE  LET q == todo[p]
             r == q[1].request
         IN  /\ Head(q) = q[1] /\ q[1] \in ActionStep /\ q # <<>>
             /\ Planned(q, Role(p)) /\ Looked(q, Known(p))
             /\ OfType(Role(p), r)
             /\ Planned(Tail(q), Role(p))
             /\ r # "lookup" => Looked(Tail(q), Known(p))
             /\ r \in OnChannel => Known(p)
<1> DEFINE q == todo[p]
<1>1. Planned(q, Role(p)) /\ Looked(q, Known(p)) /\ q # <<>>
  BY DEF ActionsInv, ActionsPlanned, Idle
<1> HIDE DEF q
<1>2. /\ Len(q) \in Nat \ {0} /\ Head(q) = q[1] /\ q[1] \in ActionStep
  BY <1>1, Rest
<1>3. OfType(Role(p), q[1].request)
  BY <1>1, <1>2 DEF Planned
<1>4. Planned(Tail(q), Role(p))
  BY <1>1, RestPlanned
<1>5. q[1].request # "lookup" => Looked(Tail(q), Known(p))
  BY <1>1, RestLooked
<1>6. q[1].request \in OnChannel => Known(p)
  BY <1>1, <1>2 DEF Looked
<1> QED
  BY <1>1, <1>2, <1>3, <1>4, <1>5, <1>6 DEF q

(* The step of one process.                                                *)

(* What the server knows of user v stays the same.                         *)
Same(v, srv, srv2, act, act2) ==
  /\ v \in srv2.inTeam <=> v \in srv.inTeam
  /\ v \in act2 <=> v \in act
  /\ v \in srv2.session <=> v \in srv.session
  /\ v \in srv2.created <=> v \in srv.created
  /\ srv2.profile[v] = srv.profile[v]
  /\ \A d \in Channel : <<v, d>> \in srv2.members <=> <<v, d>> \in srv.members

(* The types of what a step may change.                                    *)
StepTypeOK ==
  /\ channel \in [Process -> Channel \union {NoChannel}]
  /\ saved \in [Process -> Nat]
  /\ begun \in 0 .. MaxActions
  /\ channelMap \in SUBSET Channel
  /\ lock \in Process \union {Nobody}
  /\ info \in SUBSET Process
  /\ server \in [members : SUBSET (User \X Channel), inTeam : SUBSET User,
                 session : SUBSET User, profile : [User -> Nat], created : SUBSET User]
  /\ active \in SUBSET User
  /\ troubled \in SUBSET Entity
  /\ refused \in SUBSET Process
  /\ raced \in SUBSET {"ChannelMap", "Info"}

(* A process that may be refused something.                                *)
Excused(p) ==
  \/ UserOf(p) # DataOf(p)
  \/ p[1] \in troubled
  \/ /\ p[2] = "poller"
     /\ type[p[1]] \in {"channelLeaverJoiner", "teamLeaverJoiner", "deactivatingUser"}

LEMMA Stepped ==
  ASSUME ActionsInv, NEW p \in Started \X {"actor", "poller"}, NEW s,
         todo' = [todo EXCEPT ![p] = s],
         Planned(s, Role(p)), Looked(s, channel'[p] \in ChannelsOf[DataOf(p)]),
         \A q \in Process \ {p} : channel'[q] = channel[q] /\ saved'[q] = saved[q],
         UNCHANGED <<order, threads, tokens, entities, loginFailed, test, type>>,
         StepTypeOK',
         \A v \in User \ {UserOf(p)} : Same(v, server, server', active, active'),
         p[2] = "poller" => UNCHANGED <<server, active>>,
         p[2] = "actor" /\ p[1] \notin troubled' =>
           /\ saved'[p] = 0
           /\ LeftAs(Owed(s), UserOf(p), channel'[p], type[p[1]], server', active'),
         troubled \subseteq troubled',
         \A q \in refused' \ refused : Excused(q)
  PROVE  ActionsInv'
<1>1. /\ p \in Process /\ p[1] \in Started /\ entities # <<>> /\ p = <<p[1], p[2]>>
      /\ p[2] \in {"actor", "poller"}
      /\ \A e \in Started : e \in Entity /\ (entities[e].user = UserOf(p) => e = p[1])
                            /\ entities[e].user \in User
  BY OfProcess
<1>2. /\ UserOf(p)' = UserOf(p) /\ Started' = Started
      /\ \A q : DataOf(q)' = DataOf(q) /\ Role(q)' = Role(q) /\ UserOf(q)' = UserOf(q)
  BY DEF UserOf, DataOf, Started, Role
<1>3. LoginInv'
  BY <1>1, LoginIsOver DEF ActionsInv, StepTypeOK
<1>4. /\ todo \in [Process -> Seq(ActionStep)]
      /\ todo'[p] = s /\ \A q \in Process \ {p} : todo'[q] = todo[q]
  BY <1>1 DEF ActionsInv, TypeOK
<1>5. TypeOK'
  <2>1. todo' \in [Process -> Seq(ActionStep)]
    BY <1>4 DEF Planned
  <2>2. test' \in Tests /\ type' \in [Entity -> UserEntities(test') \union {NoType}]
    BY DEF ActionsInv, TypeOK
  <2>3. LoginTypeOK'
    BY <1>3 DEF LoginInv
  <2> QED
    BY <2>1, <2>2, <2>3 DEF TypeOK, StepTypeOK
<1>6. ActionsPlanned'
  <2>1. ASSUME NEW q \in Process
        PROVE  Planned(todo'[q], Role(q)) /\ Looked(todo'[q], channel'[q] \in ChannelsOf[DataOf(q)])
    <3>1. CASE q = p
      BY <1>4, <3>1
    <3>2. CASE q # p
      <4>1. todo'[q] = todo[q] /\ channel'[q] = channel[q]
        BY <1>4, <3>2
      <4> QED
        BY <4>1 DEF ActionsInv, ActionsPlanned, Known
    <3> QED
      BY <3>1, <3>2
  <2> QED
    BY <1>2, <2>1 DEF ActionsPlanned, Known
<1>7. UsersAsLeft'
  <2>1. ASSUME NEW e \in Started, e \notin troubled'
        PROVE  /\ saved'[Actor(e)] = 0
               /\ LeftAs(Owed(todo'[Actor(e)]), entities[e].user, channel'[Actor(e)], type[e],
                         server', active')
    <3>1. CASE Actor(e) = p
      <4>1. e = p[1] /\ p[2] = "actor" /\ entities[e].user = UserOf(p)
        BY <3>1 DEF Actor, UserOf
      <4> QED
        BY <1>4, <2>1, <3>1, <4>1
    <3>2. CASE Actor(e) # p
      <4>1. Actor(e) \in Process
        BY <1>1 DEF Actor, Process
      <4>2. /\ todo'[Actor(e)] = todo[Actor(e)] /\ channel'[Actor(e)] = channel[Actor(e)]
            /\ saved'[Actor(e)] = saved[Actor(e)]
        BY <1>4, <3>2, <4>1
      <4>3. /\ saved[Actor(e)] = 0
            /\ LeftAs(Owed(todo[Actor(e)]), entities[e].user, channel[Actor(e)], type[e],
                      server, active)
        BY <2>1 DEF ActionsInv, UsersAsLeft
      <4>4. CASE e = p[1]
        <5>1. p[2] = "poller"
          BY <1>1, <3>2, <4>4 DEF Actor
        <5> QED
          BY <4>2, <4>3, <5>1
      <4>5. CASE e # p[1]
        <5>1. entities[e].user \in User \ {UserOf(p)}
          BY <1>1, <4>5
        <5>2. Same(entities[e].user, server, server', active, active')
          BY <5>1
        <5> QED
          BY <4>2, <4>3, <5>2 DEF LeftAs, Same
      <4> QED
        BY <4>4, <4>5
    <3> QED
      BY <3>1, <3>2
  <2> QED
    BY <1>2, <2>1 DEF UsersAsLeft
<1>8. NotRefused'
  <2>1. ASSUME NEW q \in refused'
        PROVE  Excused(q)
    BY <2>1 DEF ActionsInv, NotRefused, Excused
  <2>2. \A q : Excused(q) => Excused(q)'
    BY <1>2 DEF Excused
  <2> QED
    BY <2>1, <2>2 DEF NotRefused, Excused
<1>9. NothingBegun' /\ \A e \in Started' : type'[e] # NoType
  BY <1>1, <1>2 DEF NothingBegun, ActionsInv
<1> QED
  BY <1>3, <1>5, <1>6, <1>7, <1>8, <1>9 DEF ActionsInv

(* A step that leaves the server alone, and no more to be undone.          *)
LEMMA Quiet ==
  ASSUME ActionsInv, NEW p \in Started \X {"actor", "poller"}, NEW s,
         todo' = [todo EXCEPT ![p] = s],
         Planned(s, Role(p)), Looked(s, channel'[p] \in ChannelsOf[DataOf(p)]),
         \A q \in Process \ {p} : channel'[q] = channel[q],
         UNCHANGED <<order, threads, tokens, entities, loginFailed, test, type,
                     saved, server, active, troubled>>,
         StepTypeOK',
         p[2] = "actor" =>
           /\ Owed(s) = Owed(todo[p])
           /\ channel'[p] = channel[p] \/ Owed(s) = "nothing",
         \A q \in refused' \ refused : Excused(q)
  PROVE  ActionsInv'
<1>1. p[1] \in Started /\ p = <<p[1], p[2]>>
  BY OfProcess
<1>2. \A v \in User \ {UserOf(p)} : Same(v, server, server', active, active')
  BY DEF Same
<1>3. ASSUME p[2] = "actor", p[1] \notin troubled
      PROVE  /\ saved'[p] = 0
             /\ LeftAs(Owed(s), UserOf(p), channel'[p], type[p[1]], server', active')
  <2>1. /\ saved[p] = 0
        /\ LeftAs(Owed(s), UserOf(p), channel[p], type[p[1]], server, active)
    BY <1>1, <1>3 DEF ActionsInv, UsersAsLeft, Actor, UserOf
  <2>2. LeftAs(Owed(s), UserOf(p), channel'[p], type[p[1]], server, active)
    BY <1>3, <2>1 DEF LeftAs, ChannelsLeft
  <2> QED
    BY <2>1, <2>2
<1> QED
  BY <1>2, <1>3, Stepped

LEMMA NowTyped == ActionsInv => StepTypeOK
  BY DEF ActionsInv, TypeOK, LoginTypeOK, StepTypeOK

(* The step at the head of an action that is followed by its rest.         *)
LEMMA ProceedQuietly ==
  ASSUME ActionsInv, NEW p \in Started \X {"actor", "poller"}, ~ Idle(p),
         todo[p][1].request \in Plain \ {"lookup"}, Proceed(p),
         UNCHANGED <<order, threads, tokens, entities, loginFailed, test, type, channel,
                     saved, server, active, troubled, refused>>,
         StepTypeOK'
  PROVE  ActionsInv'
<1>1. p \in Process
  BY OfProcess
<1>2. /\ todo[p] # <<>> /\ Planned(todo[p], Role(p))
      /\ Planned(Tail(todo[p]), Role(p)) /\ Looked(Tail(todo[p]), Known(p))
  BY <1>1, AtHead
<1>3. Owed(Tail(todo[p])) = Owed(todo[p])
  BY <1>2, OwedAfter
<1>4. todo' = [todo EXCEPT ![p] = Tail(todo[p])]
  BY DEF Proceed
<1> QED
  BY <1>2, <1>3, <1>4, Quiet DEF Known

(* The step at the head of an action is replaced by another.               *)
LEMMA ReplaceQuietly ==
  ASSUME ActionsInv, NEW p \in Started \X {"actor", "poller"}, ~ Idle(p), NEW x \in ActionStep,
         todo[p][1].request \in Local \ {"lookup"}, x.request \in Local \ {"lookup"},
         x.request \in OnChannel => todo[p][1].request \in OnChannel,
         todo' = [todo EXCEPT ![p] = <<x>> \o Tail(todo[p])],
         UNCHANGED <<order, threads, tokens, entities, loginFailed, test, type, channel,
                     saved, server, active, troubled, refused>>,
         StepTypeOK'
  PROVE  ActionsInv'
<1>1. p \in Process
  BY OfProcess
<1>2. /\ todo[p] # <<>> /\ Planned(todo[p], Role(p)) /\ OfType(Role(p), todo[p][1].request)
      /\ Planned(Tail(todo[p]), Role(p)) /\ Looked(Tail(todo[p]), Known(p))
      /\ todo[p][1].request \in OnChannel => Known(p)
  BY <1>1, AtHead
<1>3. todo[p][1].request \in Plain \ {"read"} /\ x.request \in Plain
  BY DEF Plain, Local
<1>4. Owed(Tail(todo[p])) = Owed(todo[p]) /\ Owed(todo[p]) = "nothing"
  BY <1>2, <1>3, OwedAfter
<1>5. OfType(Role(p), x.request)
  BY <1>2 DEF OfType, Local
<1>6. Ready(Tail(todo[p]), Role(p), Known(p) \/ x.request = "lookup")
  <2>1. Ready(Tail(todo[p]), Role(p), Known(p))
    BY <1>2, <1>4 DEF Ready
  <2>2. (Known(p) \/ x.request = "lookup") = Known(p)
    BY DEF Local, Known
  <2> QED
    BY <2>1, <2>2, Zenon
<1>7. Ready(<<x>> \o Tail(todo[p]), Role(p), Known(p))
  <2> DEFINE k == Known(p)
             s == Tail(todo[p])
  <2>1. k \in BOOLEAN /\ (x.request \in OnChannel => k)
    BY <1>2 DEF Known
  <2>2. Ready(s, Role(p), k \/ x.request = "lookup")
    BY <1>6
  <2> HIDE DEF k, s
  <2>3. Ready(<<x>> \o s, Role(p), k)
    BY <1>3, <1>5, <2>1, <2>2, ReadyBefore
  <2> QED
    BY <2>3 DEF k, s
<1> QED
  BY <1>4, <1>7, Quiet DEF Ready, Known

LEMMA BeginKeeps ==
  ASSUME ActionsInv, NEW p \in Started \X {"actor", "poller"}, Begin(p)
  PROVE  ActionsInv'
<1>1. /\ p \in Process /\ p[1] \in Started /\ p[2] \in {"actor", "poller"}
      /\ type[p[1]] \in EntityType
  BY OfProcess
<1>2. PICK a \in IF p[2] = "actor" THEN ActionsOf(p[1], type[p[1]]) ELSE GetStatuses(p[1]) :
        todo' = [todo EXCEPT ![p] = a]
  BY DEF Begin
<1>3. Ready(a, Role(p), FALSE)
  <2>1. CASE p[2] = "actor"
    BY <1>1, <1>2, <2>1, ActionsReady DEF Role
  <2>2. CASE p[2] = "poller"
    BY <1>2, <2>2, GetStatusesReady DEF Role
  <2> QED
    BY <1>1, <2>1, <2>2
<1>4. Owed(todo[p]) = "nothing"
  BY DEF Begin, Idle, Owed
<1>5. Planned(a, Role(p)) /\ Owed(a) = "nothing" /\ Looked(a, channel'[p] \in ChannelsOf[DataOf(p)])
  BY <1>3 DEF Ready, Looked
<1>6. StepTypeOK' /\ UNCHANGED <<order, threads, tokens, entities, loginFailed, test, type,
                                 saved, server, active, troubled, refused, channel>>
  <2>1. UNCHANGED <<loginVars, test, type, channel, saved, shared, server, troubled, refused>>
        /\ raced' \in {raced, raced \union {"Info"}} /\ begun < MaxActions /\ begun' = begun + 1
    BY DEF Begin
  <2>2. StepTypeOK
    BY NowTyped
  <2>3. begun' \in 0 .. MaxActions
    BY <2>1, <2>2, EntityAssumption DEF StepTypeOK
  <2> QED
    BY <2>1, <2>2, <2>3 DEF StepTypeOK, loginVars, shared
<1> QED
  BY <1>2, <1>4, <1>5, <1>6, Quiet

LEMMA LookupKeeps ==
  ASSUME ActionsInv, NEW p \in Started \X {"actor", "poller"}, Lookup(p)
  PROVE  ActionsInv'
<1>1. p \in Process /\ ChannelsOf[DataOf(p)] \subseteq Channel
  BY OfProcess
<1> DEFINE q == todo[p]
<1>2. /\ ~ Idle(p) /\ q[1].request = "lookup" /\ q # <<>>
      /\ Planned(q, Role(p)) /\ OfType(Role(p), "lookup") /\ Planned(Tail(q), Role(p))
  <2>1. ~ Idle(p) /\ Head(q).request = "lookup"
    BY DEF Lookup, At
  <2> QED
    BY <1>1, <2>1, AtHead
<1>3. PICK c \in ChannelsOf[DataOf(p)] :
        /\ channel' = [channel EXCEPT ![p] = c]
        /\ todo' = [todo EXCEPT ![p] =
             IF c \in channelMap THEN Tail(@) ELSE <<Must("find"), Must("lock")>> \o Tail(@)]
  BY DEF Lookup
<1>4. channel'[p] = c /\ \A r \in Process \ {p} : channel'[r] = channel[r]
  BY <1>1, <1>3 DEF ActionsInv, TypeOK
<1>5. Owed(q) = "nothing" /\ Owed(Tail(q)) = "nothing"
  <2>1. "lookup" \in Plain \ {"read"}
    BY DEF Plain, Local
  <2> HIDE DEF q
  <2> QED
    BY <1>2, <2>1, OwedAfter
<1>6. PICK s : /\ todo' = [todo EXCEPT ![p] = s]
               /\ Planned(s, Role(p)) /\ Owed(s) = "nothing"
  <2>1. CASE c \in channelMap
    <3>1. todo' = [todo EXCEPT ![p] = Tail(q)]
      BY <1>3, <2>1
    <3> QED
      BY <1>2, <1>5, <3>1
  <2>2. CASE c \notin channelMap
    <3> DEFINE r == Tail(q)
    <3>1. todo' = [todo EXCEPT ![p] = <<Must("find"), Must("lock")>> \o r]
      BY <1>3, <2>2
    <3>2. /\ Must("find") \in ActionStep /\ Must("lock") \in ActionStep
          /\ Must("find").request = "find" /\ Must("lock").request = "lock"
          /\ "find" \in Plain /\ "lock" \in Plain
          /\ OfType(Role(p), "find") /\ OfType(Role(p), "lock")
      BY <1>2, Steps DEF Local, Request, Others, Plain, OfType
    <3>3. r \in Seq(ActionStep)
      BY <1>2 DEF Planned
    <3> HIDE DEF r
    <3>4. Planned(<<Must("lock")>> \o r, Role(p)) /\ Owed(<<Must("lock")>> \o r) = "nothing"
      BY <1>2, <1>5, <3>2, StepBefore DEF r
    <3>5. /\ Planned(<<Must("find")>> \o (<<Must("lock")>> \o r), Role(p))
          /\ Owed(<<Must("find")>> \o (<<Must("lock")>> \o r)) = "nothing"
      BY <3>2, <3>4, StepBefore
    <3>6. <<Must("find")>> \o (<<Must("lock")>> \o r) = <<Must("find"), Must("lock")>> \o r
      <4> DEFINE x == Must("find")
                 y == Must("lock")
      <4>1. x \in ActionStep /\ y \in ActionStep
        BY <3>2
      <4> HIDE DEF x, y
      <4>2. <<x>> \o <<y>> = <<x, y>>
        BY <4>1, PrependedOne, PrependedTwo, PrependedThree
      <4>3. \A i, j, k \in Seq(ActionStep) : i \o (j \o k) = i \o j \o k
        OBVIOUS
      <4>4. <<x>> \in Seq(ActionStep) /\ <<y>> \in Seq(ActionStep)
        BY <4>1
      <4>5. <<x>> \o (<<y>> \o r) = (<<x>> \o <<y>>) \o r
        BY <3>3, <4>3, <4>4, Zenon
      <4>6. <<x>> \o (<<y>> \o r) = <<x, y>> \o r
        BY <4>2, <4>5, Zenon
      <4> QED
        BY <4>6 DEF x, y
    <3> QED
      BY <3>1, <3>5, <3>6
  <2> QED
    BY <2>1, <2>2
<1>7. Looked(s, channel'[p] \in ChannelsOf[DataOf(p)])
  BY <1>3, <1>4 DEF Looked
<1>8. StepTypeOK' /\ UNCHANGED <<order, threads, tokens, entities, loginFailed, test, type,
                                 saved, server, active, troubled, refused>>
  <2>1. UNCHANGED <<loginVars, test, type, saved, begun, shared, server, troubled, refused>>
        /\ raced' \in {raced, raced \union {"ChannelMap"}}
    BY DEF Lookup
  <2>2. StepTypeOK
    BY NowTyped
  <2>3. channel' \in [Process -> Channel \union {NoChannel}]
    BY <1>1, <1>3, <2>2 DEF StepTypeOK
  <2> QED
    BY <2>1, <2>2, <2>3 DEF StepTypeOK, loginVars, shared
<1> HIDE DEF q
<1>9. Owed(s) = Owed(todo[p])
  BY <1>5, <1>6 DEF q
<1> QED
  BY <1>4, <1>6, <1>7, <1>8, <1>9, Quiet

LEMMA LockKeeps ==
  ASSUME ActionsInv, NEW p \in Started \X {"actor", "poller"}, Lock(p) \/ Keep(p)
  PROVE  ActionsInv'
<1>1. p \in Process
  BY OfProcess
<1>2. /\ ~ Idle(p) /\ todo[p][1].request \in {"lock", "keep"}
      /\ todo[p][1].request = "lock" <=> Lock(p)
  BY <1>1, AtHead DEF Lock, Keep, At
<1>3. PICK r \in {"storing", "keeping"} :
        /\ todo' = [todo EXCEPT ![p] = <<Must(r)>> \o Tail(todo[p])]
        /\ r = "storing" => Lock(p)
  BY DEF Lock, Keep
<1>4. /\ Must(r) \in ActionStep /\ Must(r).request = r /\ r \in Local \ {"lookup"}
      /\ r \in OnChannel => todo[p][1].request \in OnChannel
      /\ todo[p][1].request \in Local \ {"lookup"}
  BY <1>2, <1>3, Steps DEF Local, OnChannel
<1>5. StepTypeOK' /\ UNCHANGED <<order, threads, tokens, entities, loginFailed, test, type, channel,
                                 saved, server, active, troubled, refused>>
  <2>1. /\ UNCHANGED <<loginVars, test, type, channel, saved, begun, channelMap, info, server,
                       troubled, refused>>
        /\ raced' \in {raced, raced \union {"Info"}} /\ lock' \in {lock, p}
    BY DEF Lock, Keep, shared, history
  <2> QED
    BY <1>1, <2>1, NowTyped DEF StepTypeOK, loginVars
<1> QED
  BY <1>2, <1>3, <1>4, <1>5, ReplaceQuietly

LEMMA StoreKeeps ==
  ASSUME ActionsInv, NEW p \in Started \X {"actor", "poller"}, Store(p) \/ Kept(p) \/ Read(p)
  PROVE  ActionsInv'
<1>1. p \in Process /\ ChannelsOf[DataOf(p)] \subseteq Channel
  BY OfProcess
<1>2. /\ ~ Idle(p) /\ Proceed(p) /\ todo[p][1].request \in Plain \ {"lookup"}
      /\ Store(p) => todo[p][1].request = "storing"
  BY <1>1, AtHead DEF Store, Kept, Read, Answer, At, Plain, Local
<1>3. Store(p) => channel[p] \in Channel
  BY <1>1, <1>2, AtHead DEF OnChannel, Known
<1>4. StepTypeOK' /\ UNCHANGED <<order, threads, tokens, entities, loginFailed, test, type, channel,
                                 saved, server, active, troubled, refused>>
  <2>1. /\ UNCHANGED <<order, threads, tokens, entities, loginFailed, active, test, type, channel,
                       saved, begun, server, troubled, refused, raced>>
        /\ lock' \in {lock, Nobody} /\ info' \in {info, info \union {p}}
        /\ channelMap' = channelMap \/ (Store(p) /\ channelMap' = channelMap \union {channel[p]})
    BY DEF Store, Kept, Read, Answer, shared, history, loginVars
  <2> QED
    BY <1>1, <1>3, <2>1, NowTyped DEF StepTypeOK
<1> QED
  BY <1>2, <1>4, ProceedQuietly

(* Requests.                                                               *)

LEMMA ActorLeft ==
  ASSUME ActionsInv, NEW p \in Started \X {"actor", "poller"}, p[2] = "actor", p[1] \notin troubled
  PROVE  /\ saved[p] = 0
         /\ LeftAs(Owed(todo[p]), UserOf(p), channel[p], type[p[1]], server, active)
<1>1. p[1] \in Started /\ p = Actor(p[1])
  BY OfProcess DEF Actor
<1> QED
  BY <1>1 DEF ActionsInv, UsersAsLeft, UserOf

LEMMA GetMeKeeps ==
  ASSUME ActionsInv, NEW p \in Started \X {"actor", "poller"}, GetMe(p)
  PROVE  ActionsInv'
<1>1. p \in Process /\ UserOf(p) \in User
  BY OfProcess
<1>2. /\ ~ Idle(p) /\ todo[p][1].request = "me" /\ todo[p] # <<>> /\ Planned(todo[p], Role(p))
      /\ Planned(Tail(todo[p]), Role(p)) /\ Looked(Tail(todo[p]), Known(p))
      /\ OfType(Role(p), "me")
  <2>1. ~ Idle(p) /\ Head(todo[p]).request = "me"
    BY DEF GetMe, Answer, At
  <2> QED
    BY <1>1, <2>1, AtHead
<1>3. "me" \in Plain \ {"read"}
  BY DEF Plain
<1>4. Owed(Tail(todo[p])) = "nothing" /\ Owed(todo[p]) = "nothing"
  BY <1>2, <1>3, OwedAfter
<1>5. p[2] = "actor"
  BY <1>2 DEF OfType, Role, Local
<1>6. /\ todo' = [todo EXCEPT ![p] = Tail(todo[p])]
      /\ saved' = [saved EXCEPT ![p] = server.profile[UserOf(p)]]
      /\ UNCHANGED <<order, threads, tokens, entities, loginFailed, test, type, channel, begun,
                     channelMap, lock, info, active, server, troubled, refused, raced>>
  BY DEF GetMe, Answer, Proceed, shared, history
<1>7. StepTypeOK
  BY NowTyped
<1>8. server.profile[UserOf(p)] \in Nat
  BY <1>1, <1>7 DEF StepTypeOK
<1>9. /\ saved'[p] = server.profile[UserOf(p)]
      /\ \A q \in Process \ {p} : saved'[q] = saved[q]
      /\ StepTypeOK'
  BY <1>1, <1>6, <1>7, <1>8 DEF StepTypeOK
<1>10. \A v \in User \ {UserOf(p)} : Same(v, server, server', active, active')
  BY <1>6 DEF Same
<1>11. ASSUME p[1] \notin troubled
       PROVE  /\ saved'[p] = 0
              /\ LeftAs("nothing", UserOf(p), channel[p], type[p[1]], server, active)
  BY <1>4, <1>5, <1>9, <1>11, ActorLeft DEF LeftAs
<1>12. Looked(Tail(todo[p]), channel'[p] \in ChannelsOf[DataOf(p)])
  BY <1>2, <1>6 DEF Known
<1> QED
  BY <1>2, <1>4, <1>5, <1>6, <1>9, <1>10, <1>11, <1>12, Stepped

(* What is left when a request has not worked out.                         *)
LEMMA AfterErrorPlanned ==
  ASSUME ActionsInv, NEW p \in Process, Asking(p)
  PROVE  /\ Planned(AfterError(p), Role(p)) /\ Looked(AfterError(p), Known(p))
         /\ At(p, "tryLeave") => Owed(AfterError(p)) = "both"
         /\ todo[p][1].request \in Plain => Owed(AfterError(p)) \in {"nothing", Owed(todo[p])}
<1> DEFINE q == todo[p]
<1>1. /\ ~ Idle(p) /\ q # <<>> /\ Head(q) = q[1] /\ q[1].request \in Request
      /\ Planned(q, Role(p)) /\ OfType(Role(p), q[1].request) /\ Planned(Tail(q), Role(p))
      /\ q[1].request # "lookup" => Looked(Tail(q), Known(p))
      /\ q[1].request \in OnChannel => Known(p)
  <2>1. ~ Idle(p) /\ Head(q).request \in Request
    BY DEF Asking
  <2> QED
    BY <2>1, AtHead
<1>2. q[1].request # "lookup"
  BY <1>1 DEF Request, Others
<1>3. CASE At(p, "tryLeave")
  <2>1. q[1].request = "tryLeave"
    BY <1>1, <1>3 DEF At
  <2>2. Role(p) = "channelLeaverJoiner" /\ Known(p)
    BY <1>1, <2>1 DEF OfType, OnChannel
  <2>3. AfterError(p) = AfterTryLeave(FALSE)
    BY <1>3 DEF AfterError
  <2>4. Looked(AfterTryLeave(FALSE), Known(p))
    BY <2>2 DEF Looked
  <2>5. "tryLeave" \notin Plain
    BY DEF Plain, Local
  <2> QED
    BY <2>1, <2>2, <2>3, <2>4, <2>5, AfterTryLeaveReady
<1>4. CASE ~ At(p, "tryLeave")
  <2>1. AfterError(p) = <<>> \/ AfterError(p) = Tail(q)
    BY <1>4 DEF AfterError
  <2>2. CASE AfterError(p) = <<>>
    BY <1>4, <2>2, NothingLeft
  <2>3. CASE AfterError(p) = Tail(q)
    BY <1>1, <1>2, <1>4, <2>3, OwedAfter
  <2> QED
    BY <2>1, <2>2, <2>3
<1> QED
  BY <1>3, <1>4

LEMMA FailKeeps ==
  ASSUME ActionsInv, NEW p \in Started \X {"actor", "poller"}, Fail(p)
  PROVE  ActionsInv'
<1>1. p \in Process /\ p[1] \in Entity
  BY OfProcess
<1>2. Planned(AfterError(p), Role(p)) /\ Looked(AfterError(p), Known(p))
  BY <1>1, AfterErrorPlanned DEF Fail
<1>3. /\ todo' = [todo EXCEPT ![p] = AfterError(p)] /\ troubled' = troubled \union {p[1]}
      /\ UNCHANGED <<order, threads, tokens, active, entities, loginFailed, test, type, channel, saved,
                     begun, channelMap, lock, info, server, refused, raced>>
  BY DEF Fail, loginVars, shared
<1>4. StepTypeOK'
  BY <1>1, <1>3, NowTyped DEF StepTypeOK
<1>5. \A v \in User \ {UserOf(p)} : Same(v, server, server', active, active')
  BY <1>3 DEF Same
<1>6. Looked(AfterError(p), channel'[p] \in ChannelsOf[DataOf(p)])
  BY <1>2, <1>3 DEF Known
<1> QED
  BY <1>2, <1>3, <1>4, <1>5, <1>6, Stepped

(* What an actor none of whose requests has failed is refused.             *)
LEMMA ActorRefused ==
  ASSUME ActionsInv, NEW p \in Started \X {"actor", "poller"}, p[2] = "actor", p[1] \notin troubled,
         Asking(p), Refuses(p)
  PROVE  /\ todo[p][1].request \in {"tryLeave", "view", "get"}
         /\ todo[p][1].request = "tryLeave" => channel[p] \notin ChannelsOf[UserOf(p)]
         /\ todo[p][1].request # "tryLeave" => UserOf(p) # DataOf(p)
<1> DEFINE q == todo[p]
           r == q[1].request
           u == UserOf(p)
<1>1. /\ p \in Process /\ u \in User
      /\ ChannelsOf[DataOf(p)] \subseteq Channel
  BY OfProcess
<1>2. /\ q # <<>> /\ Head(q) = q[1] /\ r \in Request
      /\ Planned(q, Role(p)) /\ OfType(Role(p), r)
      /\ r \in OnChannel => Known(p)
  <2>1. ~ Idle(p) /\ Head(q).request \in Request
    BY DEF Asking
  <2> QED
    BY <1>1, <2>1, AtHead
<1>3. LeftAs(Owed(q), u, channel[p], type[p[1]], server, active)
  BY ActorLeft
<1>4. /\ r \in {"joinTeam", "delete", "update", "activate", "login", "leave"} => Owed(q) = r
      /\ r \in {"tryLeave", "leaveTeam", "create", "patch", "deactivate"} => Owed(q) = "nothing"
      /\ r = "join" => Owed(q) \in {"join", "both"}
      /\ r \in Plain => Owed(q) \in {"nothing", "update"}
      /\ r \in Plain \ {"read"} => Owed(q) = "nothing"
  BY <1>2, OwedAfter DEF Owed
<1>5. Role(p) = type[p[1]]
  BY DEF Role
<1> HIDE DEF q
<1>6. \/ r \notin Others /\ u \notin server.session
      \/ r = "login" /\ u \notin active
      \/ r \in {"view", "get", "tryLeave", "leave"} /\ ~ Member(p)
      \/ r \in {"join", "townSquare", "leaveTeam"} /\ u \notin server.inTeam
  BY <1>2 DEF Refuses, At, q
<1>7. r \in Request /\ (r \notin Others => Owed(q) \notin {"activate", "login"})
  <2>1. CASE r \in Plain
    BY <1>2, <1>4, <2>1
  <2>2. CASE r \notin Plain
    BY <1>2, <1>4, <2>2 DEF Request, Others, Plain
  <2> QED
    BY <2>1, <2>2
<1>8. ~ (r \notin Others /\ u \notin server.session)
  BY <1>3, <1>7 DEF LeftAs
<1>9. ~ (r = "login" /\ u \notin active)
  BY <1>3, <1>4 DEF LeftAs
<1>10. ~ (r \in {"join", "townSquare", "leaveTeam"} /\ u \notin server.inTeam)
  <2>1. "townSquare" \in Plain \ {"read"}
    BY DEF Plain
  <2> QED
    BY <1>3, <1>4, <2>1 DEF LeftAs
<1>11. r \in {"view", "get", "tryLeave", "leave"} /\ ~ Member(p)
  BY <1>6, <1>8, <1>9, <1>10
<1>12. type[p[1]] # "teamLeaverJoiner" /\ Known(p)
  BY <1>2, <1>5, <1>11 DEF OfType, OnChannel
<1>13. channel[p] \in Channel /\ channel[p] \in ChannelsOf[DataOf(p)]
  BY <1>1, <1>12 DEF Known
<1>14. channel[p] \notin ChannelsLeft(Owed(q), u, channel[p])
  BY <1>3, <1>11, <1>12, <1>13 DEF LeftAs, Member
<1>15. r # "leave"
  BY <1>4, <1>14 DEF ChannelsLeft
<1>16. Owed(q) = "nothing"
  BY <1>4, <1>11, <1>15 DEF Plain
<1>17. channel[p] \notin ChannelsOf[u]
  BY <1>14, <1>16 DEF ChannelsLeft
<1> HIDE DEF r, u
<1>18. /\ r \in {"tryLeave", "view", "get"} /\ channel[p] \notin ChannelsOf[u]
       /\ u # DataOf(p)
  BY <1>11, <1>13, <1>15, <1>17
<1> QED
  BY <1>18 DEF r, u, q

(* A poller is refused when its entity has left its user different.        *)
LEMMA PollerRefused ==
  ASSUME ActionsInv, NEW p \in Started \X {"actor", "poller"}, p[2] = "poller",
         Asking(p), Refuses(p)
  PROVE  Excused(p)
<1> SUFFICES ASSUME p[1] \notin troubled, UserOf(p) = DataOf(p)
             PROVE  type[p[1]] \in {"channelLeaverJoiner", "teamLeaverJoiner", "deactivatingUser"}
  BY DEF Excused
<1> DEFINE u == UserOf(p)
           a == Actor(p[1])
<1>1. /\ p \in Process /\ u \in User /\ p[1] \in Started /\ p[1] \in Entity
      /\ ChannelsOf[DataOf(p)] \subseteq Channel
  BY OfProcess
<1>2. /\ todo[p][1].request \in {"find", "view", "read"} /\ Head(todo[p]) = todo[p][1]
      /\ todo[p][1].request = "view" => Known(p)
  <2>1. ~ Idle(p) /\ Head(todo[p]).request \in Request
    BY DEF Asking
  <2>2. /\ Head(todo[p]) = todo[p][1] /\ OfType("poller", todo[p][1].request)
        /\ todo[p][1].request \in OnChannel => Known(p)
    BY <1>1, <2>1, AtHead DEF Role
  <2> QED
    BY <2>1, <2>2 DEF OfType, Local, Request, Others, OnChannel
<1>3. u \notin server.session \/ (Known(p) /\ ~ Member(p))
  BY <1>2 DEF Refuses, At, Others
<1>4. a \in Started \X {"actor", "poller"} /\ a[1] = p[1] /\ a[2] = "actor" /\ a \in Process
  BY <1>1 DEF Actor, Process
<1>5. LeftAs(Owed(todo[a]), u, channel[a], type[p[1]], server, active)
  BY <1>4, ActorLeft DEF UserOf
<1>6. Planned(todo[a], type[p[1]])
  BY <1>4 DEF ActionsInv, ActionsPlanned, Role
<1> DEFINE q == todo[a]
<1>7. Owed(q) \in {"activate", "login"} => type[p[1]] = "deactivatingUser"
  <2> HIDE DEF q, a
  <2>1. SUFFICES ASSUME Owed(q) \in {"activate", "login"}
                 PROVE  type[p[1]] = "deactivatingUser"
    OBVIOUS
  <2>2. q # <<>> /\ q[1].request \in {"activate", "login"}
    BY <2>1 DEF Owed
  <2>3. Planned(q, type[p[1]])
    BY <1>6 DEF q
  <2>4. OfType(type[p[1]], q[1].request)
    BY <2>2, <2>3, Rest DEF Planned
  <2> QED
    BY <2>2, <2>4 DEF OfType
<1>8. Owed(q) \in {"join", "leave"} => type[p[1]] = "channelLeaverJoiner"
  <2> HIDE DEF q, a
  <2>1. SUFFICES ASSUME Owed(q) \in {"join", "leave"}
                 PROVE  type[p[1]] = "channelLeaverJoiner"
    OBVIOUS
  <2>2. q # <<>> /\ q[1].request \in {"join", "leave"}
    BY <2>1 DEF Owed
  <2>3. Planned(q, type[p[1]])
    BY <1>6 DEF q
  <2>4. OfType(type[p[1]], q[1].request)
    BY <2>2, <2>3, Rest DEF Planned
  <2> QED
    BY <2>2, <2>4 DEF OfType
<1> HIDE DEF q, a, u
<1>9. CASE u \notin server.session
  <2>1. Owed(q) \in {"activate", "login"}
    BY <1>5, <1>9 DEF LeftAs, q
  <2> QED
    BY <1>7, <2>1
<1>10. CASE Known(p) /\ ~ Member(p)
  <2>1. channel[p] \in Channel /\ channel[p] \in ChannelsOf[u] /\ <<u, channel[p]>> \notin server.members
    BY <1>1, <1>10 DEF Known, Member, u
  <2>2. type[p[1]] # "teamLeaverJoiner" => channel[p] \notin ChannelsLeft(Owed(q), u, channel[a])
    BY <1>5, <2>1 DEF LeftAs, q
  <2>3. type[p[1]] # "teamLeaverJoiner" => Owed(q) = "join"
    BY <2>1, <2>2 DEF ChannelsLeft
  <2> QED
    BY <1>8, <2>3
<1> QED
  BY <1>3, <1>9, <1>10 DEF u

LEMMA RefuseKeeps ==
  ASSUME ActionsInv, NEW p \in Started \X {"actor", "poller"}, Refuse(p)
  PROVE  ActionsInv'
<1>1. p \in Process /\ p[2] \in {"actor", "poller"}
  BY OfProcess
<1>2. Asking(p) /\ Refuses(p)
  BY DEF Refuse
<1>3. /\ Planned(AfterError(p), Role(p)) /\ Looked(AfterError(p), Known(p))
      /\ At(p, "tryLeave") => Owed(AfterError(p)) = "both"
      /\ todo[p][1].request \in Plain => Owed(AfterError(p)) \in {"nothing", Owed(todo[p])}
  BY <1>1, <1>2, AfterErrorPlanned
<1>4. /\ todo' = [todo EXCEPT ![p] = AfterError(p)]
      /\ refused' = IF At(p, "tryLeave") THEN refused ELSE refused \union {p}
      /\ UNCHANGED <<order, threads, tokens, active, entities, loginFailed, test, type, channel, saved,
                     begun, channelMap, lock, info, server, troubled, raced>>
  BY DEF Refuse, loginVars, shared
<1>5. StepTypeOK'
  BY <1>1, <1>4, NowTyped DEF StepTypeOK
<1>6. \A v \in User \ {UserOf(p)} : Same(v, server, server', active, active')
  BY <1>4 DEF Same
<1>7. Looked(AfterError(p), channel'[p] \in ChannelsOf[DataOf(p)])
  BY <1>3, <1>4 DEF Known
<1>8. At(p, "tryLeave") <=> todo[p][1].request = "tryLeave"
  <2>1. ~ Idle(p) /\ Head(todo[p]) = todo[p][1]
    BY <1>1, <1>2, AtHead DEF Asking
  <2> QED
    BY <2>1 DEF At
<1>9. ASSUME p[2] = "actor", p[1] \notin troubled
      PROVE  /\ saved[p] = 0
             /\ LeftAs(Owed(AfterError(p)), UserOf(p), channel[p], type[p[1]], server, active)
  <2>1. /\ saved[p] = 0
        /\ LeftAs(Owed(todo[p]), UserOf(p), channel[p], type[p[1]], server, active)
    BY <1>9, ActorLeft
  <2>2. /\ todo[p][1].request \in {"tryLeave", "view", "get"}
        /\ todo[p][1].request = "tryLeave" => channel[p] \notin ChannelsOf[UserOf(p)]
    BY <1>2, <1>9, ActorRefused
  <2>3. Owed(todo[p]) = "nothing"
    <3>1. todo[p] # <<>> /\ Planned(todo[p], Role(p))
      BY <1>1, <1>2, AtHead DEF Asking
    <3> QED
      BY <2>2, <3>1, OwedAfter DEF Owed, Plain
  <2>4. CASE todo[p][1].request = "tryLeave"
    <3>1. Owed(AfterError(p)) = "both" /\ channel[p] \notin ChannelsOf[UserOf(p)]
      BY <1>3, <1>8, <2>2, <2>4
    <3> QED
      BY <2>1, <2>3, <3>1 DEF LeftAs, ChannelsLeft
  <2>5. CASE todo[p][1].request \in {"view", "get"}
    <3>1. Owed(AfterError(p)) = "nothing"
      BY <1>3, <2>3, <2>5 DEF Plain
    <3> QED
      BY <2>1, <2>3, <3>1
  <2> QED
    BY <2>2, <2>4, <2>5
<1>10. ASSUME NEW q \in refused' \ refused
       PROVE  Excused(q)
  <2>1. q = p /\ ~ At(p, "tryLeave")
    BY <1>4
  <2>2. CASE p[2] = "poller"
    BY <1>2, <2>1, <2>2, PollerRefused
  <2>3. CASE p[2] = "actor"
    BY <1>2, <1>8, <2>1, <2>3, ActorRefused DEF Excused
  <2> QED
    BY <1>1, <2>2, <2>3
<1> QED
  BY <1>3, <1>4, <1>5, <1>6, <1>7, <1>9, <1>10, Stepped

(* A request of the actor's that changes the server.                       *)
Changing ==
  {"tryLeave", "leave", "join", "leaveTeam", "joinTeam", "create", "delete", "patch", "update",
   "login", "deactivate", "activate"}

LEMMA AtChange ==
  ASSUME ActionsInv, NEW p \in Started \X {"actor", "poller"}, NEW r \in Changing, At(p, r)
  PROVE  /\ p[2] = "actor"
         /\ Planned(Tail(todo[p]), type[p[1]]) /\ Looked(Tail(todo[p]), Known(p))
         /\ OfType(type[p[1]], r)
         /\ r \in {"tryLeave", "leave", "join"} => Known(p)
         /\ LET o == Owed(todo[p])
                n == Owed(Tail(todo[p]))
            IN  /\ r = "tryLeave" => o = "nothing" /\ n = "nothing"
                /\ r = "leave" => o = "leave" /\ n = "nothing"
                /\ r = "join" => (o = "join" /\ n = "nothing") \/ (o = "both" /\ n = "leave")
                /\ r = "leaveTeam" => o = "nothing" /\ n = "joinTeam"
                /\ r = "joinTeam" => o = "joinTeam" /\ n = "nothing"
                /\ r = "create" => o = "nothing" /\ n = "delete"
                /\ r = "delete" => o = "delete" /\ n = "nothing"
                /\ r = "patch" => o = "nothing" /\ n = "update"
                /\ r = "update" => o = "update" /\ n = "nothing"
                /\ r = "deactivate" => o = "nothing" /\ n = "activate"
                /\ r = "activate" => o = "activate" /\ n = "login"
                /\ r = "login" => o = "login" /\ n = "nothing"
<1> DEFINE q == todo[p]
<1>1. p \in Process
  BY OfProcess
<1>2. /\ q # <<>> /\ q[1].request = r
      /\ Planned(q, Role(p)) /\ OfType(Role(p), r)
      /\ Planned(Tail(q), Role(p)) /\ (r # "lookup" => Looked(Tail(q), Known(p)))
      /\ r \in OnChannel => Known(p)
  <2>1. ~ Idle(p) /\ Head(q).request = r
    BY DEF At
  <2> QED
    BY <1>1, <2>1, AtHead
<1>3. p[2] = "actor" /\ Role(p) = type[p[1]]
  BY <1>2 DEF OfType, Role, Local, Changing
<1> HIDE DEF q
<1>4. /\ r = "leaveTeam" => Owed(Tail(q)) = "joinTeam"
      /\ r = "create" => Owed(Tail(q)) = "delete"
      /\ r = "patch" => Owed(Tail(q)) = "update"
      /\ r = "deactivate" => Owed(Tail(q)) = "activate"
      /\ r = "activate" => Owed(Tail(q)) = "login"
      /\ r = "join" => Owed(Tail(q)) = IF Len(q) = 1 THEN "nothing" ELSE "leave"
      /\ r \in {"tryLeave", "leave", "joinTeam", "delete", "update", "login"}
           => Owed(Tail(q)) = "nothing"
  BY <1>2, OwedAfter
<1>5. /\ r \in {"joinTeam", "delete", "update", "activate", "login", "leave"} => Owed(q) = r
      /\ r \in {"tryLeave", "leaveTeam", "create", "patch", "deactivate"} => Owed(q) = "nothing"
      /\ r = "join" => Owed(q) = IF Len(q) = 1 THEN "join" ELSE "both"
  BY <1>2 DEF Owed
<1>6. r # "lookup" /\ (r \in {"tryLeave", "leave", "join"} => Known(p))
  BY <1>2 DEF Changing, OnChannel
<1> QED
  BY <1>2, <1>3, <1>4, <1>5, <1>6 DEF q

(* It is a step of the kind above if it does to the user what is owed      *)
(* then.                                                                   *)
LEMMA Changed ==
  ASSUME ActionsInv, NEW p \in Started \X {"actor", "poller"}, p[2] = "actor", NEW s,
         todo' = [todo EXCEPT ![p] = s],
         Planned(s, type[p[1]]), Looked(s, Known(p)),
         UNCHANGED <<order, threads, tokens, entities, loginFailed, test, type, channel, saved, begun,
                     channelMap, lock, info, troubled, refused, raced>>,
         server' \in [members : SUBSET (User \X Channel), inTeam : SUBSET User,
                      session : SUBSET User, profile : [User -> Nat], created : SUBSET User],
         active' \in SUBSET User,
         \A v \in User \ {UserOf(p)} : Same(v, server, server', active, active'),
         saved[p] = 0 /\ LeftAs(Owed(todo[p]), UserOf(p), channel[p], type[p[1]], server, active) =>
           LeftAs(Owed(s), UserOf(p), channel[p], type[p[1]], server', active')
  PROVE  ActionsInv'
<1>1. StepTypeOK'
  BY NowTyped DEF StepTypeOK
<1>2. Role(p) = type[p[1]]
  BY DEF Role
<1>3. Looked(s, channel'[p] \in ChannelsOf[DataOf(p)])
  BY DEF Known
<1>4. ASSUME p[1] \notin troubled'
      PROVE  /\ saved'[p] = 0
             /\ LeftAs(Owed(s), UserOf(p), channel'[p], type[p[1]], server', active')
  BY <1>4, ActorLeft
<1>5. /\ \A q \in Process \ {p} : channel'[q] = channel[q] /\ saved'[q] = saved[q]
      /\ troubled \subseteq troubled' /\ \A q \in refused' \ refused : Excused(q)
  OBVIOUS
<1>6. p[2] # "poller"
  OBVIOUS
<1> QED
  BY <1>1, <1>2, <1>3, <1>4, <1>5, <1>6, Stepped, ZenonT(30)

(* Server and users, as they are typed.                                    *)
ServerType ==
  [members : SUBSET (User \X Channel), inTeam : SUBSET User,
   session : SUBSET User, profile : [User -> Nat], created : SUBSET User]

LEMMA Answered ==
  ASSUME ActionsInv, NEW p \in Started \X {"actor", "poller"}
  PROVE  /\ server \in ServerType /\ active \in SUBSET User /\ saved[p] \in Nat
         /\ UserOf(p) \in User /\ (Known(p) => channel[p] \in Channel)
         /\ \A s : Answer(p, s) => UNCHANGED <<order, threads, tokens, entities, loginFailed, test, type,
                                       channel, begun, channelMap, lock, info, troubled, refused, raced>>
<1>1. /\ p \in Process /\ UserOf(p) \in User
      /\ ChannelsOf[DataOf(p)] \subseteq Channel
  BY OfProcess
<1> QED
  BY <1>1, NowTyped DEF StepTypeOK, ServerType, Answer, shared, history, Known

LEMMA TryLeaveKeeps ==
  ASSUME ActionsInv, NEW p \in Started \X {"actor", "poller"}, TryLeave(p)
  PROVE  ActionsInv'
<1> DEFINE u == UserOf(p)
           c == channel[p]
           t == type[p[1]]
<1>1. /\ At(p, "tryLeave") /\ ~ Refuses(p) /\ Answer(p, "tryLeave")
      /\ server' = [server EXCEPT !.members = @ \ {<<u, c>>}]
      /\ todo' = [todo EXCEPT ![p] = AfterTryLeave(TRUE)]
      /\ UNCHANGED <<active, saved>>
  BY DEF TryLeave, Answer
<1>2. /\ p[2] = "actor" /\ OfType(t, "tryLeave") /\ Known(p)
      /\ Owed(todo[p]) = "nothing"
  BY <1>1, AtChange DEF Changing
<1>3. /\ server \in ServerType /\ active \in SUBSET User
      /\ u \in User /\ c \in Channel
      /\ UNCHANGED <<order, threads, tokens, entities, loginFailed, test, type,
                     channel, begun, channelMap, lock, info, troubled, refused, raced>>
  BY <1>1, <1>2, Answered
<1>4. t = "channelLeaverJoiner"
  BY <1>2 DEF OfType
<1>5. /\ Planned(AfterTryLeave(TRUE), t) /\ Looked(AfterTryLeave(TRUE), Known(p))
      /\ Owed(AfterTryLeave(TRUE)) = "join"
  <2>1. Looked(AfterTryLeave(TRUE), Known(p))
    BY <1>2 DEF Looked
  <2> QED
    BY <1>4, <2>1, AfterTryLeaveReady
<1>6. <<u, c>> \in server.members
  BY <1>1 DEF Refuses, Member
<1> HIDE DEF u, c
<1>7. /\ server' \in ServerType
      /\ server'.members = server.members \ {<<u, c>>}
      /\ server'.inTeam = server.inTeam /\ server'.session = server.session
      /\ server'.profile = server.profile /\ server'.created = server.created
  BY <1>1, <1>3 DEF ServerType
<1>8. \A v \in User \ {u} : Same(v, server, server', active, active')
  BY <1>1, <1>7 DEF Same
<1>9. ASSUME LeftAs("nothing", u, c, t, server, active)
      PROVE  LeftAs("join", u, c, t, server', active')
  <2>1. \A d \in Channel : <<u, d>> \in server.members <=> d \in ChannelsOf[u]
    BY <1>4, <1>9 DEF LeftAs, ChannelsLeft
  <2>2. c \in ChannelsOf[u]
    BY <1>3, <1>6, <2>1
  <2>3. \A d \in Channel : <<u, d>> \in server'.members <=> d \in ChannelsOf[u] \ {c}
    BY <1>7, <2>1
  <2> QED
    BY <1>1, <1>4, <1>7, <1>9, <2>2, <2>3 DEF LeftAs, ChannelsLeft
<1>10. active' \in SUBSET User
  BY <1>1, <1>3
<1> QED
  BY <1>1, <1>2, <1>3, <1>5, <1>7, <1>8, <1>9, <1>10, Changed DEF u, c, ServerType

LEMMA ActivateKeeps ==
  ASSUME ActionsInv, NEW p \in Started \X {"actor", "poller"}, Deactivate(p) \/ Activate(p)
  PROVE  ActionsInv'
<1> DEFINE u == UserOf(p)
           t == type[p[1]]
           s == Tail(todo[p])
<1>1. PICK r \in {"deactivate", "activate"} :
        /\ At(p, r) /\ Answer(p, r)
        /\ r = "deactivate" => /\ active' = active \ {u}
                               /\ server' = [server EXCEPT !.session = @ \ {u}]
        /\ r = "activate" => active' = active \union {u} /\ server' = server
        /\ Proceed(p) /\ saved' = saved
  BY DEF Deactivate, Activate, Answer
<1>2. /\ p[2] = "actor" /\ OfType(t, r)
      /\ Planned(s, t) /\ Looked(s, Known(p))
      /\ r = "deactivate" => Owed(todo[p]) = "nothing" /\ Owed(s) = "activate"
      /\ r = "activate" => Owed(todo[p]) = "activate" /\ Owed(s) = "login"
  BY <1>1, AtChange DEF Changing
<1>3. /\ server \in ServerType /\ active \in SUBSET User /\ u \in User
      /\ UNCHANGED <<order, threads, tokens, entities, loginFailed, test, type,
                     channel, begun, channelMap, lock, info, troubled, refused, raced>>
  BY <1>1, Answered
<1>4. todo' = [todo EXCEPT ![p] = s]
  BY <1>1 DEF Proceed
<1> HIDE DEF u, s
<1>5. /\ server' \in ServerType
      /\ server'.members = server.members /\ server'.inTeam = server.inTeam
      /\ server'.session = IF r = "deactivate" THEN server.session \ {u} ELSE server.session
      /\ server'.profile = server.profile /\ server'.created = server.created
  BY <1>1, <1>3 DEF ServerType
<1>6. /\ active' \in SUBSET User
      /\ active' = IF r = "deactivate" THEN active \ {u} ELSE active \union {u}
  BY <1>1, <1>3
<1>7. \A v \in User \ {u} : Same(v, server, server', active, active')
  BY <1>5, <1>6 DEF Same
<1>8. ASSUME LeftAs(Owed(todo[p]), u, channel[p], t, server, active)
      PROVE  LeftAs(Owed(s), u, channel[p], t, server', active')
  <2>1. CASE r = "deactivate"
    BY <1>2, <1>5, <1>6, <1>8, <2>1 DEF LeftAs, ChannelsLeft
  <2>2. CASE r = "activate"
    BY <1>2, <1>5, <1>6, <1>8, <2>2 DEF LeftAs, ChannelsLeft
  <2> QED
    BY <2>1, <2>2
<1> QED
  BY <1>1, <1>2, <1>3, <1>4, <1>5, <1>6, <1>7, <1>8, Changed DEF u, s, ServerType

(* What a change does to the server's sets, and to the profile.            *)
ChangedTo(srv, r, u, c, sv) ==
  [ members |-> IF r = "leave" THEN srv.members \ {<<u, c>>}
                ELSE IF r = "join" THEN srv.members \union {<<u, c>>}
                ELSE IF r = "leaveTeam" THEN {m \in srv.members : m[1] # u}
                ELSE srv.members,
    inTeam  |-> IF r = "leaveTeam" THEN srv.inTeam \ {u}
                ELSE IF r = "joinTeam" THEN srv.inTeam \union {u} ELSE srv.inTeam,
    session |-> IF r = "login" THEN srv.session \union {u} ELSE srv.session,
    profile |-> IF r = "patch" THEN [srv.profile EXCEPT ![u] = srv.profile[u] + 1]
                ELSE IF r = "update" THEN [srv.profile EXCEPT ![u] = sv] ELSE srv.profile,
    created |-> IF r = "create" THEN srv.created \union {u}
                ELSE IF r = "delete" THEN srv.created \ {u} ELSE srv.created ]

LEMMA ChangeIs ==
  ASSUME ActionsInv, NEW p \in Started \X {"actor", "poller"}, Change(p)
  PROVE  \E r \in Changing \ {"tryLeave", "deactivate", "activate"} :
           /\ At(p, r) /\ Answer(p, r)
           /\ server' = ChangedTo(server, r, UserOf(p), channel[p], saved[p])
<1> DEFINE u == UserOf(p)
           c == channel[p]
           v == saved[p]
           R == Changing \ {"tryLeave", "deactivate", "activate"}
           Is(r) == At(p, r) /\ Answer(p, r) /\ server' = ChangedTo(server, r, u, c, v)
<1>0. server \in ServerType
  BY Answered
<1>1. CASE Answer(p, "leave") /\ server' = [server EXCEPT !.members = @ \ {<<u, c>>}]
  <2>1. server' = ChangedTo(server, "leave", u, c, v)
    <3> HIDE DEF u, c, v
    <3> QED
      BY <1>0, <1>1 DEF ServerType, ChangedTo
  <2>2. "leave" \in R /\ At(p, "leave")
    BY <1>1 DEF Changing, Answer
  <2> QED
    BY <1>1, <2>1, <2>2
<1>2. CASE Answer(p, "join") /\ server' = [server EXCEPT !.members = @ \union {<<u, c>>}]
  <2>1. server' = ChangedTo(server, "join", u, c, v)
    <3> HIDE DEF u, c, v
    <3> QED
      BY <1>0, <1>2 DEF ServerType, ChangedTo
  <2>2. "join" \in R /\ At(p, "join")
    BY <1>2 DEF Changing, Answer
  <2> QED
    BY <1>2, <2>1, <2>2
<1>3. CASE Answer(p, "leaveTeam") /\
           server' = [server EXCEPT !.inTeam = @ \ {u}, !.members = {m \in @ : m[1] # u}]
  <2>1. server' = ChangedTo(server, "leaveTeam", u, c, v)
    <3> HIDE DEF u, c, v
    <3> QED
      BY <1>0, <1>3 DEF ServerType, ChangedTo
  <2>2. "leaveTeam" \in R /\ At(p, "leaveTeam")
    BY <1>3 DEF Changing, Answer
  <2> QED
    BY <1>3, <2>1, <2>2
<1>4. CASE Answer(p, "joinTeam") /\ server' = [server EXCEPT !.inTeam = @ \union {u}]
  <2>1. server' = ChangedTo(server, "joinTeam", u, c, v)
    <3> HIDE DEF u, c, v
    <3> QED
      BY <1>0, <1>4 DEF ServerType, ChangedTo
  <2>2. "joinTeam" \in R /\ At(p, "joinTeam")
    BY <1>4 DEF Changing, Answer
  <2> QED
    BY <1>4, <2>1, <2>2
<1>5. CASE Answer(p, "create") /\ server' = [server EXCEPT !.created = @ \union {u}]
  <2>1. server' = ChangedTo(server, "create", u, c, v)
    <3> HIDE DEF u, c, v
    <3> QED
      BY <1>0, <1>5 DEF ServerType, ChangedTo
  <2>2. "create" \in R /\ At(p, "create")
    BY <1>5 DEF Changing, Answer
  <2> QED
    BY <1>5, <2>1, <2>2
<1>6. CASE Answer(p, "delete") /\ server' = [server EXCEPT !.created = @ \ {u}]
  <2>1. server' = ChangedTo(server, "delete", u, c, v)
    <3> HIDE DEF u, c, v
    <3> QED
      BY <1>0, <1>6 DEF ServerType, ChangedTo
  <2>2. "delete" \in R /\ At(p, "delete")
    BY <1>6 DEF Changing, Answer
  <2> QED
    BY <1>6, <2>1, <2>2
<1>7. CASE Answer(p, "patch") /\ server' = [server EXCEPT !.profile[u] = @ + 1]
  <2>1. server' = ChangedTo(server, "patch", u, c, v)
    <3> HIDE DEF u, c, v
    <3> QED
      BY <1>0, <1>7 DEF ServerType, ChangedTo
  <2>2. "patch" \in R /\ At(p, "patch")
    BY <1>7 DEF Changing, Answer
  <2> QED
    BY <1>7, <2>1, <2>2
<1>8. CASE Answer(p, "update") /\ server' = [server EXCEPT !.profile[u] = v]
  <2>1. server' = ChangedTo(server, "update", u, c, v)
    <3> HIDE DEF u, c, v
    <3> QED
      BY <1>0, <1>8 DEF ServerType, ChangedTo
  <2>2. "update" \in R /\ At(p, "update")
    BY <1>8 DEF Changing, Answer
  <2> QED
    BY <1>8, <2>1, <2>2
<1>9. CASE Answer(p, "login") /\ server' = [server EXCEPT !.session = @ \union {u}]
  <2>1. server' = ChangedTo(server, "login", u, c, v)
    <3> HIDE DEF u, c, v
    <3> QED
      BY <1>0, <1>9 DEF ServerType, ChangedTo
  <2>2. "login" \in R /\ At(p, "login")
    BY <1>9 DEF Changing, Answer
  <2> QED
    BY <1>9, <2>1, <2>2
<1> QED
  BY <1>1, <1>2, <1>3, <1>4, <1>5, <1>6, <1>7, <1>8, <1>9, Zenon DEF Change

LEMMA ChangedOwes ==
  ASSUME NEW srv \in ServerType, NEW act, NEW u \in User, NEW c, NEW t,
         NEW r \in Changing \ {"tryLeave", "deactivate", "activate"}, NEW o, NEW n,
         OfType(t, r), r \in {"leave", "join"} => c \in Channel,
         r = "leave" => o = "leave" /\ n = "nothing",
         r = "join" => (o = "join" /\ n = "nothing") \/ (o = "both" /\ n = "leave"),
         r = "leaveTeam" => o = "nothing" /\ n = "joinTeam",
         r = "joinTeam" => o = "joinTeam" /\ n = "nothing",
         r = "create" => o = "nothing" /\ n = "delete",
         r = "delete" => o = "delete" /\ n = "nothing",
         r = "patch" => o = "nothing" /\ n = "update",
         r = "update" => o = "update" /\ n = "nothing",
         r = "login" => o = "login" /\ n = "nothing",
         LeftAs(o, u, c, t, srv, act)
  PROVE  LeftAs(n, u, c, t, ChangedTo(srv, r, u, c, 0), act)
<1> DEFINE s == ChangedTo(srv, r, u, c, 0)
<1>1. /\ s.inTeam = IF r = "leaveTeam" THEN srv.inTeam \ {u}
                    ELSE IF r = "joinTeam" THEN srv.inTeam \union {u} ELSE srv.inTeam
      /\ s.session = IF r = "login" THEN srv.session \union {u} ELSE srv.session
      /\ s.profile = IF r = "patch" THEN [srv.profile EXCEPT ![u] = srv.profile[u] + 1]
                     ELSE IF r = "update" THEN [srv.profile EXCEPT ![u] = 0] ELSE srv.profile
      /\ s.created = IF r = "create" THEN srv.created \union {u}
                     ELSE IF r = "delete" THEN srv.created \ {u} ELSE srv.created
      /\ s.members = IF r = "leave" THEN srv.members \ {<<u, c>>}
                     ELSE IF r = "join" THEN srv.members \union {<<u, c>>}
                     ELSE IF r = "leaveTeam" THEN {m \in srv.members : m[1] # u}
                     ELSE srv.members
  BY DEF ChangedTo
<1> HIDE DEF s
<1>2. srv.profile \in [User -> Nat]
  BY DEF ServerType
<1>3. r \in {"leave", "join", "leaveTeam", "joinTeam", "create", "delete", "patch", "update", "login"}
  BY DEF Changing
<1>4. /\ u \in s.inTeam <=> n # "joinTeam"
      /\ u \in s.session <=> n \notin {"activate", "login"}
      /\ u \in s.created <=> n = "delete"
      /\ u \in act <=> n # "activate"
  BY <1>1, <1>3 DEF LeftAs
<1>5. s.profile[u] = IF n = "update" THEN 1 ELSE 0
  BY <1>1, <1>2, <1>3 DEF LeftAs
<1>6. ASSUME t # "teamLeaverJoiner"
      PROVE  /\ \A d \in Channel : <<u, d>> \in s.members <=> d \in ChannelsLeft(n, u, c)
             /\ n = "join" => c \in ChannelsOf[u]
             /\ n \in {"both", "leave"} => c \notin ChannelsOf[u]
  <2>1. /\ \A d \in Channel : <<u, d>> \in srv.members <=> d \in ChannelsLeft(o, u, c)
        /\ o = "join" => c \in ChannelsOf[u]
        /\ o \in {"both", "leave"} => c \notin ChannelsOf[u]
    BY <1>6 DEF LeftAs
  <2>2. r # "leaveTeam"
    BY <1>6 DEF OfType
  <2>3. CASE r = "leave"
    BY <1>1, <2>1, <2>3 DEF ChannelsLeft
  <2>4. CASE r = "join"
    BY <1>1, <2>1, <2>4 DEF ChannelsLeft
  <2>5. CASE r \notin {"leave", "join"}
    BY <1>1, <1>3, <2>1, <2>2, <2>5 DEF ChannelsLeft
  <2> QED
    BY <2>3, <2>4, <2>5
<1>7. LeftAs(n, u, c, t, s, act)
  BY <1>4, <1>5, <1>6 DEF LeftAs
<1> QED
  BY <1>7 DEF s

LEMMA ChangeKeeps ==
  ASSUME ActionsInv, NEW p \in Started \X {"actor", "poller"}, Change(p)
  PROVE  ActionsInv'
<1> DEFINE u == UserOf(p)
           c == channel[p]
           t == type[p[1]]
           s == Tail(todo[p])
           v == saved[p]
<1>1. PICK r \in Changing \ {"tryLeave", "deactivate", "activate"} :
        /\ At(p, r) /\ Answer(p, r)
        /\ server' = ChangedTo(server, r, u, c, v)
  BY ChangeIs
<1>2. /\ p[2] = "actor" /\ OfType(t, r)
      /\ Planned(s, t) /\ Looked(s, Known(p))
      /\ r \in {"leave", "join"} => Known(p)
  BY <1>1, AtChange
<1>3. LET o == Owed(todo[p])
          n == Owed(s)
      IN  /\ r = "leave" => o = "leave" /\ n = "nothing"
          /\ r = "join" => (o = "join" /\ n = "nothing") \/ (o = "both" /\ n = "leave")
          /\ r = "leaveTeam" => o = "nothing" /\ n = "joinTeam"
          /\ r = "joinTeam" => o = "joinTeam" /\ n = "nothing"
          /\ r = "create" => o = "nothing" /\ n = "delete"
          /\ r = "delete" => o = "delete" /\ n = "nothing"
          /\ r = "patch" => o = "nothing" /\ n = "update"
          /\ r = "update" => o = "update" /\ n = "nothing"
          /\ r = "login" => o = "login" /\ n = "nothing"
  BY <1>1, AtChange
<1>4. /\ server \in ServerType /\ active \in SUBSET User /\ u \in User /\ v \in Nat
      /\ Known(p) => c \in Channel
      /\ UNCHANGED <<order, threads, tokens, entities, loginFailed, test, type,
                     channel, begun, channelMap, lock, info, troubled, refused, raced>>
  BY <1>1, Answered
<1>5. todo' = [todo EXCEPT ![p] = s] /\ UNCHANGED <<active, saved>>
  BY DEF Change, Proceed
<1>6. r \in {"leave", "join"} => c \in Channel
  BY <1>2, <1>4
<1> HIDE DEF u, c, t, s, v
<1>7. server' \in ServerType
  BY <1>1, <1>4, <1>6 DEF ServerType, ChangedTo
<1>8. \A w \in User \ {u} : Same(w, server, server', active, active')
  <2> DEFINE srv == ChangedTo(server, r, u, c, v)
  <2>1. SUFFICES ASSUME NEW w \in User \ {u}
                 PROVE  Same(w, server, srv, active, active)
    BY <1>1, <1>5
  <2>2. /\ w \in srv.inTeam <=> w \in server.inTeam
        /\ w \in srv.session <=> w \in server.session
        /\ w \in srv.created <=> w \in server.created
        /\ \A d \in Channel : <<w, d>> \in srv.members <=> <<w, d>> \in server.members
    BY DEF ChangedTo
  <2>3. srv.profile[w] = server.profile[w]
    BY <1>4 DEF ChangedTo, ServerType
  <2> HIDE DEF srv
  <2> QED
    BY <2>2, <2>3 DEF Same
<1>9. ASSUME v = 0, LeftAs(Owed(todo[p]), u, c, t, server, active)
      PROVE  LeftAs(Owed(s), u, c, t, server', active')
  <2>1. LeftAs(Owed(s), u, c, t, ChangedTo(server, r, u, c, 0), active)
    <3> DEFINE o == Owed(todo[p])
               n == Owed(s)
    <3>1. LeftAs(o, u, c, t, server, active)
      BY <1>9
    <3> HIDE DEF o, n
    <3> QED
      BY <1>2, <1>3, <1>4, <1>6, <3>1, ChangedOwes DEF o, n
  <2>2. server' = ChangedTo(server, r, u, c, 0) /\ active' = active
    BY <1>1, <1>5, <1>9
  <2> QED
    BY <2>1, <2>2
<1>10. active' \in SUBSET User
  BY <1>4, <1>5
<1> QED
  BY <1>2, <1>4, <1>5, <1>7, <1>8, <1>9, <1>10, Changed DEF u, c, t, s, v, ServerType

LEMMA ProcessKeeps ==
  ASSUME ActionsInv, NEW p \in Started \X {"actor", "poller"}, ProcessStep(p)
  PROVE  ActionsInv'
  BY BeginKeeps, LookupKeeps, LockKeeps, StoreKeeps, RefuseKeeps, FailKeeps, GetMeKeeps,
     TryLeaveKeeps, ChangeKeeps, ActivateKeeps DEF ProcessStep

(* While users log in, nobody has begun an action.                         *)
LEMMA LoginKeeps ==
  ASSUME ActionsInv, LogUsersIn
  PROVE  ActionsInv'
<1>1. PICK t \in Thread : LoginStep(t)
  BY DEF LogUsersIn, LoginStep
<1>2. entities = <<>> /\ LoginInv' /\ entities' = <<>>
  <2>1. entities = <<>> /\ entities' = entities
    BY <1>1 DEF LogUsersIn, LoginStep, FindUser, ActivateUser, LogIn, LoginFails
  <2> QED
    BY <1>1, <2>1, LoginGoesOn DEF ActionsInv
<1>3. UNCHANGED <<test, type, todo, channel, saved, begun, channelMap, lock, info, server,
                  troubled, refused, raced>>
  BY DEF LogUsersIn, actionVars, shared, history
<1>4. TypeOK'
  BY <1>2, <1>3 DEF ActionsInv, LoginInv, TypeOK
<1>5. NothingBegun' /\ NotRefused'
  BY <1>2, <1>3 DEF ActionsInv, NothingBegun, NotRefused
<1>6. Started' = {}
  BY <1>2 DEF Started
<1>7. ActionsPlanned'
  <2>1. \A p \in Process : todo'[p] = <<>>
    BY <1>2, <1>5 DEF NothingBegun
  <2> QED
    BY <2>1, NothingLeft DEF ActionsPlanned
<1> QED
  BY <1>2, <1>4, <1>5, <1>6, <1>7 DEF ActionsInv, UsersAsLeft

(* The users of the entities that start are active, and get their sessions *)
(* then.                                                                   *)
LEMMA StartKeeps ==
  ASSUME ActionsInv, StartTest
  PROVE  ActionsInv'
<1>1. LoginInv' /\ EntityUsers' /\ entities' # <<>>
  BY LoginEnds DEF ActionsInv, StartTest
<1>2. /\ entities = <<>> /\ UNCHANGED <<tokens, active>>
      /\ type' \in [Entity -> UserEntities(test) \union {NoType}]
      /\ \A e \in Entity : type'[e] = NoType <=> e \notin DOMAIN entities'
      /\ server' = [server EXCEPT !.session = {entities'[e].user : e \in DOMAIN entities'}]
      /\ UNCHANGED <<test, todo, channel, saved, begun, channelMap, lock, info,
                     troubled, refused, raced>>
  BY DEF StartTest, StartEntities, shared, history
<1>3. /\ todo = [p \in Process |-> <<>>] /\ saved = [p \in Process |-> 0]
      /\ server = Loaded /\ troubled = {} /\ refused = {}
  BY <1>2 DEF ActionsInv, NothingBegun
<1>4. \A e \in DOMAIN entities' :
        /\ e \in Entity /\ entities'[e].user \in User
        /\ entities'[e].user \in active
  <2>1. /\ DOMAIN entities' = 1 .. Len(entities') /\ Len(entities') \in Nat
        /\ Len(entities') <= NumActiveEntities
        /\ \A e \in DOMAIN entities' :
             /\ entities'[e].user \in User
             /\ \E i \in Index : tokens[i] = entities'[e].user /\ tokens[i] # NoToken
    BY <1>1, <1>2 DEF EntityUsers, EntityUsersOf
  <2>2. \A i \in Index : tokens[i] # NoToken => tokens[i] \in active
    BY <1>2 DEF ActionsInv, LoginInv, LoggingInActive
  <2> QED
    BY <2>1, <2>2 DEF Entity
<1> DEFINE S == {entities'[e].user : e \in DOMAIN entities'}
<1>5. /\ S \in SUBSET User
      /\ server' = [ members |-> {m \in User \X Channel : m[2] \in ChannelsOf[m[1]]},
                     inTeam |-> User, session |-> S, profile |-> [u \in User |-> 0],
                     created |-> {} ]
  BY <1>2, <1>3, <1>4 DEF Loaded
<1>6. server' \in ServerType
  <2>1. [u \in User |-> 0] \in [User -> Nat]
    OBVIOUS
  <2> HIDE DEF S
  <2> QED
    BY <1>5, <2>1 DEF ServerType
<1>7. TypeOK'
  BY <1>1, <1>2, <1>6 DEF ActionsInv, LoginInv, TypeOK, ServerType
<1>8. ActionsPlanned'
  <2>1. \A p \in Process : todo'[p] = <<>>
    BY <1>2, <1>3
  <2> QED
    BY <2>1, NothingLeft DEF ActionsPlanned
<1>9. UsersAsLeft'
  <2>1. ASSUME NEW e \in DOMAIN entities'
        PROVE  /\ saved'[Actor(e)] = 0
               /\ LeftAs(Owed(todo'[Actor(e)]), entities'[e].user, channel'[Actor(e)], type'[e],
                         server', active')
    <3>1. Actor(e) \in Process
      BY <1>4 DEF Actor, Process
    <3>2. saved'[Actor(e)] = 0 /\ Owed(todo'[Actor(e)]) = "nothing"
      BY <1>2, <1>3, <3>1 DEF Owed
    <3> DEFINE u == entities'[e].user
    <3>3. u \in User /\ u \in S /\ u \in active'
      BY <1>2, <1>4
    <3> HIDE DEF u, S
    <3>4. LeftAs("nothing", u, channel'[Actor(e)], type'[e], server', active')
      BY <1>5, <3>3 DEF LeftAs, ChannelsLeft
    <3> QED
      BY <3>2, <3>4 DEF u
  <2> QED
    BY <2>1 DEF UsersAsLeft, Started
<1>10. NothingBegun' /\ NotRefused'
  BY <1>1, <1>2, <1>3 DEF NothingBegun, NotRefused
<1> QED
  BY <1>1, <1>2, <1>4, <1>7, <1>8, <1>9, <1>10 DEF ActionsInv, Started

LEMMA ActionsStart == Init => ActionsInv
<1> SUFFICES ASSUME Init
             PROVE  ActionsInv
  OBVIOUS
<1> USE DEF Init
<1>1. LoginInv /\ entities = <<>>
  BY LoginStarts DEF LoginInit
<1>2. Loaded \in ServerType
  <2>1. [u \in User |-> 0] \in [User -> Nat]
    OBVIOUS
  <2> QED
    BY <2>1 DEF Loaded, ServerType
<1>3. TypeOK
  <2>1. todo \in [Process -> Seq(ActionStep)]
    OBVIOUS
  <2>2. begun \in 0 .. MaxActions
    BY EntityAssumption
  <2> QED
    BY <1>1, <1>2, <2>1, <2>2 DEF LoginInv, TypeOK, ServerType
<1>4. NothingBegun /\ NotRefused /\ Started = {}
  BY <1>1 DEF NothingBegun, NotRefused, Started
<1>5. ActionsPlanned
  BY NothingLeft DEF ActionsPlanned
<1> QED
  BY <1>1, <1>3, <1>4, <1>5 DEF ActionsInv, UsersAsLeft

LEMMA ActionsRest == ActionsInv /\ UNCHANGED vars => ActionsInv'
<1> SUFFICES ASSUME ActionsInv, UNCHANGED vars
             PROVE  ActionsInv'
  OBVIOUS
<1>1. /\ UNCHANGED loginVars /\ UNCHANGED <<order, threads, tokens, active, entities, loginFailed>>
      /\ UNCHANGED <<test, type, todo, channel, saved, begun, channelMap, lock, info, server,
                     troubled, refused, raced>>
  BY DEF vars, actionVars, loginVars, shared, history
<1>2. LoginInv'
  BY <1>1, LoginRests DEF ActionsInv
<1>3. TypeOK'
  BY <1>1, <1>2 DEF ActionsInv, LoginInv, TypeOK
<1>4. Started' = Started /\ \A p : Role(p)' = Role(p) /\ Known(p)' = Known(p)
  BY <1>1 DEF Started, Role, Known, DataOf
<1>5. ActionsPlanned' /\ NothingBegun' /\ UsersAsLeft'
  BY <1>1, <1>4 DEF ActionsInv, ActionsPlanned, NothingBegun, UsersAsLeft
<1>6. NotRefused'
  BY <1>1 DEF ActionsInv, NotRefused, UserOf, DataOf
<1> QED
  BY <1>1, <1>2, <1>3, <1>4, <1>5, <1>6 DEF ActionsInv

LEMMA ActionsInvariant == Spec => []ActionsInv
<1>1. Init => ActionsInv
  BY ActionsStart
<1>2. ActionsInv /\ [Next]_vars => ActionsInv'
  <2> SUFFICES ASSUME ActionsInv, [Next]_vars
               PROVE  ActionsInv'
    OBVIOUS
  <2>1. CASE LogUsersIn
    BY <2>1, LoginKeeps
  <2>2. CASE StartTest
    BY <2>2, StartKeeps
  <2>3. ASSUME NEW p \in Started \X {"actor", "poller"}, ProcessStep(p)
        PROVE  ActionsInv'
    BY <2>3, ProcessKeeps
  <2>4. CASE UNCHANGED vars
    BY <2>4, ActionsRest
  <2> QED
    BY <2>1, <2>2, <2>3, <2>4 DEF Next
<1> QED
  BY <1>1, <1>2, PTL DEF Spec

-----------------------------------------------------------------------------
(* Theorems.                                                               *)

(* The variables of the entities' actions keep their types: whatever an    *)
(* action of tests.go has left is a sequence of its requests, and only     *)
(* channels there are get into the map of the channels (GetTeamChannelId   *)
(* in entity.go).                                                          *)
THEOREM TypeCorrect == Spec => []TypeOK
<1>1. ActionsInv => TypeOK
  BY DEF ActionsInv
<1> QED
  BY <1>1, ActionsInvariant, PTL

(* If all the logins of loginAsUsers (client.go) have worked and the users *)
(* are not shuffled, RunTest (run.go) starts all the entities, and gives   *)
(* each the data of the user it is logged in as, however many threads log  *)
(* in, and whatever the entities do to their users afterwards.             *)
THEOREM EntitiesAreAligned == Spec => []EntitiesAligned
<1>1. ActionsInv => EntitiesAligned
  BY AlignedWithTokens DEF ActionsInv
<1> QED
  BY <1>1, ActionsInvariant, PTL

(* An entity none of whose requests has failed leaves its user, after each *)
(* of its actions (tests.go), as the bulk load made it: whatever the other *)
(* entities do in between, however its own requests and those of its       *)
(* poller are interleaved, and also when a channel could not be left.      *)
THEOREM UsersRestored == Spec => []Restored
<1>1. ActionsInv => Restored
  <2> SUFFICES ASSUME ActionsInv, NEW e \in Started, Idle(Actor(e)), e \notin troubled
               PROVE  LET u == entities[e].user IN
                      /\ \/ {m \in server.members : m[1] = u} = {m \in Loaded.members : m[1] = u}
                         \/ type[e] = "teamLeaverJoiner"
                      /\ u \in server.inTeam /\ u \in active /\ u \in server.session
                      /\ server.profile[u] = 0
                      /\ u \notin server.created
    BY DEF Restored, Actor
  <2> DEFINE u == entities[e].user
             c == channel[Actor(e)]
  <2>1. LeftAs("nothing", u, c, type[e], server, active)
    BY DEF ActionsInv, UsersAsLeft, Idle, Owed
  <2>2. u \in User /\ ChannelsOf[u] \subseteq Channel
    <3>1. Actor(e) \in Started \X {"actor", "poller"} /\ UserOf(Actor(e)) = u
      BY DEF Actor, UserOf
    <3> QED
      BY <3>1, OfProcess
  <2>3. server.members \subseteq User \X Channel
    BY DEF ActionsInv, TypeOK
  <2> HIDE DEF u, c
  <2>4. ASSUME type[e] # "teamLeaverJoiner"
        PROVE  {m \in server.members : m[1] = u} = {m \in Loaded.members : m[1] = u}
    <3>1. \A d \in Channel : <<u, d>> \in server.members <=> d \in ChannelsOf[u]
      BY <2>1, <2>4 DEF LeftAs, ChannelsLeft
    <3>2. \A d \in Channel : <<u, d>> \in Loaded.members <=> d \in ChannelsOf[u]
      BY <2>2 DEF Loaded
    <3>3. Loaded.members \subseteq User \X Channel
      BY DEF Loaded
    <3>4. \A m \in User \X Channel : m[1] = u => m = <<u, m[2]>> /\ m[2] \in Channel
      OBVIOUS
    <3> QED
      BY <2>3, <3>1, <3>2, <3>3, <3>4
  <2>5. /\ u \in server.inTeam /\ u \in active /\ u \in server.session
        /\ server.profile[u] = 0 /\ u \notin server.created
    BY <2>1 DEF LeftAs
  <2> QED
    BY <2>4, <2>5 DEF u
<1> QED
  BY <1>1, ActionsInvariant, PTL

(* An entity that works with the data of its own user, and none of whose   *)
(* requests has failed, is refused nothing that an action of tests.go asks *)
(* for, its poller only while the actor has left a channel or its team, or *)
(* has deactivated the user.                                               *)
THEOREM NothingRefused == Spec => []NotRefused
<1>1. ActionsInv => NotRefused
  BY DEF ActionsInv
<1> QED
  BY <1>1, ActionsInvariant, PTL

=============================================================================
