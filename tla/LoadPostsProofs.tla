---------------------------- MODULE LoadPostsProofs ----------------------------
(***************************************************************************)
(* ThreadSplit hands every index to exactly one of the threads.  So no two *)
(* threads of LoadPosts make the same post, and together they make all of  *)
(* them; and whatever the importers and the pool of sessions do, no post   *)
(* is in two places, and all posts of a team that is through were loaded.  *)
(***************************************************************************)
EXTENDS LoadPosts, TLAPS

(* The parts of all threads but the last fit into the array.               *)
LEMMA PartsFit ==
  ASSUME NEW n \in Nat, NEW k \in Nat \ {0}
  PROVE  /\ n \div k \in Nat
         /\ (n \div k) * k <= n
         /\ \A t \in 0 .. k - 1 : (n \div k) * t + (n \div k) <= (n \div k) * k
<1> DEFINE q == n \div k
<1>1. q \in Nat
  OBVIOUS
<1>2. n % k \in 0 .. k - 1
  OBVIOUS
<1>3. q * k <= n
  <2>1. n = q * k + (n % k)
    OBVIOUS
  <2>2. q * k \in Int
    BY <1>1
  <2> HIDE DEF q
  <2> QED
    BY <1>2, <2>1, <2>2
<1>4. ASSUME NEW t \in 0 .. k - 1
      PROVE  q * t + q <= q * k
  <2> HIDE DEF q
  <2>1. q * k = q * (t + 1) + q * (k - (t + 1))
    BY <1>1
  <2>2. q * (k - (t + 1)) >= 0
    BY <1>1
  <2>3. q * (t + 1) = q * t + q
    BY <1>1
  <2> QED
    BY <1>1, <2>1, <2>2, <2>3
<1> QED
  BY <1>1, <1>3, <1>4

(* Every index is in the share of some thread: no entity is left without   *)
(* a login, and no channel without its posts (thread_split.go).            *)
THEOREM SharesCover ==
  ASSUME NEW n \in Nat, NEW k \in Nat \ {0}, NEW i \in 0 .. n - 1
  PROVE  \E t \in 0 .. k - 1 : i \in Share(n, k, t)
<1> DEFINE q == n \div k
<1>q. q \in Nat /\ q * k <= n
  BY PartsFit
<1> HIDE DEF q
<1>1. CASE i >= q * (k - 1)
  <2>1. i \in Share(n, k, k - 1)
    BY <1>1, <1>q DEF Share, Start, End, q
  <2> QED
    BY <2>1
<1>2. CASE i < q * (k - 1)
  <2>1. q > 0
    <3>1. q = 0 => q * (k - 1) = 0
      OBVIOUS
    <3> QED
      BY <1>2, <1>q, <3>1
  <2> DEFINE t == i \div q
  <2>2. t \in Nat /\ q * t <= i /\ i < q * t + q
    <3>1. i = q * (i \div q) + (i % q) /\ i % q \in 0 .. q - 1 /\ i \div q \in Int
      BY <1>q, <2>1
    <3>2. i \div q \in Nat
      BY <1>q, <2>1
    <3> QED
      BY <1>q, <3>1, <3>2
  <2> HIDE DEF t
  <2>3. t < k - 1
    <3>1. SUFFICES ASSUME t >= k - 1
                   PROVE  FALSE
      BY <2>2
    <3>2. q * t = q * (k - 1) + q * (t - (k - 1))
      BY <1>q, <2>2
    <3>3. q * (t - (k - 1)) >= 0
      BY <1>q, <2>2, <3>1
    <3> QED
      BY <1>2, <1>q, <2>2, <3>2, <3>3
  <2>4. q * (t + 1) = q * t + q
    BY <1>q, <2>2
  <2>5. i \in Share(n, k, t)
    BY <1>q, <2>2, <2>3, <2>4 DEF Share, Start, End, q
  <2> QED
    BY <2>2, <2>3, <2>5
<1> QED
  BY <1>1, <1>2, <1>q

(* And in that of no other: no user logs in twice, and no post is made     *)
(* twice.                                                                  *)
THEOREM SharesDisjoint ==
  ASSUME NEW n \in Nat, NEW k \in Nat \ {0},
         NEW t \in 0 .. k - 1, NEW u \in 0 .. k - 1, t # u
  PROVE  Share(n, k, t) \intersect Share(n, k, u) = {}
<1> DEFINE q == n \div k
<1>q. q \in Nat /\ q * k <= n
  BY PartsFit
<1> HIDE DEF q
<1>1. ASSUME NEW a \in 0 .. k - 1, NEW b \in 0 .. k - 1, a < b
      PROVE  End(n, k, a) <= Start(n, k, b)
  <2>1. q * b = q * (a + 1) + q * (b - (a + 1))
    BY <1>q
  <2>2. q * (b - (a + 1)) >= 0
    BY <1>q, <1>1
  <2>3. q * (a + 1) \in Int /\ q * b \in Int
    BY <1>q
  <2>4. End(n, k, a) = q * (a + 1) /\ Start(n, k, b) = q * b
    BY <1>1 DEF End, Start, q
  <2>5. q * (b - (a + 1)) \in Int
    BY <1>q
  <2>6. q * (a + 1) <= q * b
    BY <2>1, <2>2, <2>3, <2>5
  <2> QED
    BY <2>4, <2>6
<1>2. \A a \in 0 .. k - 1 : Start(n, k, a) \in Int /\ End(n, k, a) \in Int
  <2> TAKE a \in 0 .. k - 1
  <2>1. q * a \in Int /\ q * (a + 1) \in Int
    BY <1>q
  <2> QED
    BY <2>1 DEF Start, End, q
<1>3. t < u \/ u < t
  OBVIOUS
<1> QED
  BY <1>1, <1>2, <1>3 DEF Share

(* The shares are made of indexes.                                         *)
LEMMA SharesBounded ==
  ASSUME NEW n \in Nat, NEW k \in Nat \ {0}, NEW t \in 0 .. k - 1
  PROVE  /\ 0 <= Start(n, k, t)
         /\ Start(n, k, t) <= End(n, k, t)
         /\ End(n, k, t) <= n
         /\ Start(n, k, t) \in Int
         /\ End(n, k, t) \in Int
<1> DEFINE q == n \div k
<1>q. q \in Nat /\ q * k <= n /\ q * t + q <= q * k
  BY PartsFit
<1> HIDE DEF q
<1>1. q * (t + 1) = q * t + q
  BY <1>q
<1>2. q * t >= 0 /\ q * t \in Int /\ q * k \in Int
  BY <1>q
<1>3. Start(n, k, t) = q * t /\ End(n, k, t) = IF t = k - 1 THEN n ELSE q * (t + 1)
  BY DEF Start, End, q
<1> QED
  BY <1>q, <1>1, <1>2, <1>3

-----------------------------------------------------------------------------

USE LoadPostsAssumption

(* Division, of a number given by quotient and rest.                       *)
LEMMA DivMod ==
  ASSUME NEW P \in Nat \ {0}, NEW a \in Int, NEW k \in 0 .. P - 1
  PROVE  (a * P + k) \div P = a /\ (a * P + k) % P = k
<1> DEFINE x == a * P + k
           q == x \div P
           r == x % P
<1>1. a * P \in Int /\ x \in Int
  OBVIOUS
<1>2. q \in Int /\ r \in 0 .. P - 1 /\ x = P * q + r
  BY <1>1
<1> HIDE DEF q, r
<1>3. P * q + r = P * a + k
  BY <1>1, <1>2
<1>4. q = a
  <2>1. CASE q >= a + 1
    <3>1. P * q >= P * (a + 1)
      BY <1>2, <2>1
    <3>2. P * (a + 1) = P * a + P
      OBVIOUS
    <3> QED
      BY <1>2, <1>3, <3>1, <3>2
  <2>2. CASE q <= a - 1
    <3>1. P * q <= P * (a - 1)
      BY <1>2, <2>2
    <3>2. P * (a - 1) = P * a - P
      OBVIOUS
    <3> QED
      BY <1>2, <1>3, <3>1, <3>2
  <2> QED
    BY <1>2, <2>1, <2>2
<1>5. r = k
  BY <1>2, <1>3, <1>4
<1> QED
  BY <1>4, <1>5 DEF q, r

(* Products keep the order.                                                *)
LEMMA TimesMonotone ==
  ASSUME NEW x \in Int, NEW y \in Int, NEW P \in Nat, x <= y
  PROVE  x * P <= y * P
<1>1. PICK d \in Nat : y = x + d
  <2>1. y - x \in Nat /\ y = x + (y - x)
    OBVIOUS
  <2> QED
    BY <2>1
<1>2. y * P = x * P + d * P
  BY <1>1
<1>3. d * P \in Nat /\ x * P \in Int
  BY <1>1
<1> QED
  BY <1>2, <1>3

(* The channels and the posts are numbers.                                 *)
LEMMA Numbers ==
  /\ NumChannels \in Nat /\ PostsOfChannel \in Nat
  /\ \A t \in Thread : /\ Start(NumChannels, NumThreads, t) \in Nat
                       /\ End(NumChannels, NumThreads, t) \in Nat
                       /\ PostsOfThread(t) \in Nat
<1>1. NumChannels \in Nat
  BY DEF NumChannels
<1>2. PostsOfChannel \in Nat
  <2>1. NumTeams * NumChannelsPerTeam \in Nat \ {0}
    OBVIOUS
  <2>2. NumPostsPerChannel \in Nat
    BY <2>1 DEF NumPostsPerChannel
  <2>3. (NumPostsPerChannel + Block - 1) \div Block \in Nat
    BY <2>2
  <2> QED
    BY <2>3 DEF PostsOfChannel
<1>3. ASSUME NEW t \in Thread
      PROVE  /\ Start(NumChannels, NumThreads, t) \in Nat
             /\ End(NumChannels, NumThreads, t) \in Nat
             /\ PostsOfThread(t) \in Nat
  <2> DEFINE s == Start(NumChannels, NumThreads, t)
             e == End(NumChannels, NumThreads, t)
  <2>1. t \in 0 .. NumThreads - 1
    BY DEF Thread
  <2>2. s \in Int /\ e \in Int
    <3>1. NumChannels \div NumThreads \in Nat
      BY <1>1, PartsFit
    <3> QED
      BY <1>1, <2>1, <3>1 DEF Start, End
  <2>3. 0 <= s /\ s <= e
    BY <1>1, <2>1, SharesBounded
  <2> HIDE DEF s, e
  <2>4. e - s \in Nat
    BY <2>2, <2>3
  <2>5. (e - s) * PostsOfChannel \in Nat
    BY <1>2, <2>4
  <2> QED
    BY <2>2, <2>3, <2>5 DEF PostsOfThread, s, e
<1> QED
  BY <1>1, <1>2, <1>3

(* A post of a thread belongs to one of its channels.                      *)
LEMMA PostInShare ==
  ASSUME NEW t \in Thread, NEW n \in 0 .. PostsOfThread(t) - 1
  PROVE  /\ PostsOfChannel > 0
         /\ n \div PostsOfChannel \in Nat
         /\ n % PostsOfChannel \in 0 .. PostsOfChannel - 1
         /\ n = (n \div PostsOfChannel) * PostsOfChannel + (n % PostsOfChannel)
         /\ Start(NumChannels, NumThreads, t) + n \div PostsOfChannel
              \in Share(NumChannels, NumThreads, t)
<1> DEFINE P == PostsOfChannel
           s == Start(NumChannels, NumThreads, t)
           e == End(NumChannels, NumThreads, t)
           q == n \div P
           r == n % P
<1>1. P \in Nat /\ s \in Nat /\ e \in Nat /\ PostsOfThread(t) \in Nat
      /\ PostsOfThread(t) = (e - s) * P
  BY Numbers DEF PostsOfThread
<1>2. n \in Nat /\ n < (e - s) * P
  BY <1>1
<1> HIDE DEF s, e, P
<1>3. P > 0
  BY <1>1, <1>2
<1>4. q \in Nat /\ r \in 0 .. P - 1 /\ n = P * q + r
  BY <1>1, <1>2, <1>3
<1> HIDE DEF q, r
<1>5. q < e - s
  <2> SUFFICES ASSUME q >= e - s
               PROVE  FALSE
    BY <1>1, <1>4
  <2>1. P * q >= P * (e - s)
    BY <1>1, <1>4
  <2>2. P * (e - s) = (e - s) * P
    BY <1>1
  <2>3. P * q \in Int /\ P * (e - s) \in Int
    BY <1>1, <1>4
  <2> QED
    BY <1>2, <1>4, <2>1, <2>2, <2>3
<1>6. s + q \in s .. e - 1
  BY <1>1, <1>4, <1>5
<1>7. n = q * P + r
  BY <1>1, <1>4
<1> QED
  <2>1. PostsOfChannel > 0
    BY <1>3 DEF P
  <2>2. n \div PostsOfChannel \in Nat
    BY <1>4 DEF q, P
  <2>3. n % PostsOfChannel \in 0 .. PostsOfChannel - 1
    BY <1>4 DEF r, P
  <2>4. n = (n \div PostsOfChannel) * PostsOfChannel + (n % PostsOfChannel)
    BY <1>7 DEF q, r, P
  <2>5. Start(NumChannels, NumThreads, t) + n \div PostsOfChannel
           \in Share(NumChannels, NumThreads, t)
    BY <1>6 DEF Share, s, e, q, P
  <2> QED
    BY <2>1, <2>2, <2>3, <2>4, <2>5

(* No two threads make the same post, and no thread makes one twice.       *)
LEMMA PostsDiffer ==
  ASSUME NEW t \in Thread, NEW n \in 0 .. PostsOfThread(t) - 1,
         NEW u \in Thread, NEW m \in 0 .. PostsOfThread(u) - 1,
         PostOf(t, n) = PostOf(u, m)
  PROVE  t = u /\ n = m
<1>1. /\ Start(NumChannels, NumThreads, t) + n \div PostsOfChannel
           = Start(NumChannels, NumThreads, u) + m \div PostsOfChannel
      /\ n % PostsOfChannel = m % PostsOfChannel
  BY DEF PostOf
<1>2. t = u
  <2>1. t \in 0 .. NumThreads - 1 /\ u \in 0 .. NumThreads - 1 /\ NumChannels \in Nat
    BY Numbers DEF Thread
  <2>2. Share(NumChannels, NumThreads, t) \intersect Share(NumChannels, NumThreads, u) # {}
    BY <1>1, PostInShare
  <2> QED
    BY <2>1, <2>2, SharesDisjoint
<1>3. n \div PostsOfChannel = m \div PostsOfChannel
  <2>1. Start(NumChannels, NumThreads, t) \in Nat
    BY Numbers
  <2>2. n \div PostsOfChannel \in Nat /\ m \div PostsOfChannel \in Nat
    BY PostInShare
  <2> QED
    BY <1>1, <1>2, <2>1, <2>2
<1>4. n = m
  <2> DEFINE a == n \div PostsOfChannel
             b == m \div PostsOfChannel
             c == n % PostsOfChannel
             d == m % PostsOfChannel
  <2>1. n = a * PostsOfChannel + c /\ m = b * PostsOfChannel + d
    BY PostInShare
  <2>2. a = b /\ c = d
    BY <1>1, <1>3
  <2> HIDE DEF a, b, c, d
  <2> QED
    BY <2>1, <2>2
<1> QED
  BY <1>2, <1>4

(* Every post of the team is made by some thread.                          *)
LEMMA PostsCovered ==
  ASSUME NEW p \in Post, p[1] = team
  PROVE  \E t \in Thread : \E n \in 0 .. PostsOfThread(t) - 1 : p = PostOf(t, n)
<1> DEFINE P == PostsOfChannel
<1>1. /\ p[2] \in 0 .. NumChannels - 1 /\ p[3] \in 0 .. P - 1
      /\ p = <<team, p[2], p[3]>>
  BY DEF Post
<1>2. PICK t \in 0 .. NumThreads - 1 : p[2] \in Share(NumChannels, NumThreads, t)
  BY <1>1, Numbers, SharesCover
<1> DEFINE s == Start(NumChannels, NumThreads, t)
           e == End(NumChannels, NumThreads, t)
           a == p[2] - s
           k == p[3]
           n == a * P + k
<1>3. t \in Thread
  BY DEF Thread
<1>4. /\ s \in Nat /\ e \in Nat /\ P \in Nat \ {0} /\ p[2] \in s .. e - 1
      /\ PostsOfThread(t) = (e - s) * P
  BY <1>1, <1>2, <1>3, Numbers DEF Share, PostsOfThread
<1> HIDE DEF s, e, P
<1>5. /\ a \in Nat /\ a + 1 <= e - s /\ s + a = p[2] /\ k \in 0 .. P - 1
      /\ e - s \in Nat
  BY <1>1, <1>4 DEF P
<1> HIDE DEF a, k
<1>6. n \div P = a /\ n % P = k
  <2>1. P \in Nat \ {0} /\ a \in Int /\ k \in 0 .. P - 1
    BY <1>4, <1>5
  <2>2. (a * P + k) \div P = a /\ (a * P + k) % P = k
    BY <2>1, DivMod, Zenon
  <2> QED
    BY <2>2
<1>7. n \in 0 .. PostsOfThread(t) - 1
  <2>1. a * P \in Nat /\ (e - s) * P \in Nat
    BY <1>4, <1>5
  <2>2. (a + 1) * P <= (e - s) * P
    BY <1>4, <1>5, TimesMonotone
  <2>3. (a + 1) * P = a * P + P
    BY <1>4, <1>5
  <2> QED
    BY <1>4, <1>5, <2>1, <2>2, <2>3
<1> HIDE DEF n
<1>8. p = PostOf(t, n)
  <2>1. s + n \div P = p[2] /\ n % P = p[3]
    BY <1>5, <1>6 DEF k
  <2> QED
    BY <1>1, <2>1 DEF PostOf, s, P
<1> QED
  BY <1>3, <1>7, <1>8

(* It is one of those of the team.                                         *)
LEMMA PostTyped ==
  ASSUME team \in 1 .. NumTeams, NEW t \in Thread, NEW n \in 0 .. PostsOfThread(t) - 1
  PROVE  PostOf(t, n) \in Post /\ PostOf(t, n)[1] = team
<1> DEFINE ch == Start(NumChannels, NumThreads, t) + n \div PostsOfChannel
           k == n % PostsOfChannel
<1>1. ch \in Share(NumChannels, NumThreads, t) /\ k \in 0 .. PostsOfChannel - 1
  BY PostInShare
<1>2. ch \in 0 .. NumChannels - 1
  <2>1. t \in 0 .. NumThreads - 1 /\ NumChannels \in Nat
    BY Numbers DEF Thread
  <2>2. /\ 0 <= Start(NumChannels, NumThreads, t)
        /\ End(NumChannels, NumThreads, t) <= NumChannels
        /\ Start(NumChannels, NumThreads, t) \in Nat /\ End(NumChannels, NumThreads, t) \in Nat
    BY <2>1, SharesBounded, Numbers
  <2> HIDE DEF ch
  <2> QED
    BY <1>1, <2>1, <2>2 DEF Share
<1>3. PostOf(t, n) = <<team, ch, k>>
  BY DEF PostOf
<1> HIDE DEF ch, k
<1> QED
  BY <1>1, <1>2, <1>3 DEF Post

-----------------------------------------------------------------------------

(* What the types rest on: how far LoadPosts is, that importers are at     *)
(* work between the start of a team and its end, and that a session is     *)
(* idle unless an importer has it.                                         *)
Course ==
  /\ main \in {"team", "set"} => deferred = team - 1
  /\ main \in {"load", "wait"} => deferred = team
  /\ main \in {"set", "load", "wait"} => team <= NumTeams

Sessions ==
  /\ main \in {"team", "set", "restore"} => \A c \in Importer : importer[c] = "gone"
  /\ \A c \in Importer : importer[c] = "loading" => uses[c] # NoSession
  /\ idle = <<>> => \E c \in Importer : importer[c] = "loading"

Typed == TypeOK /\ Course /\ Sessions

(* The first idle session goes to the end of the pool.                     *)
LEMMA Rotated ==
  ASSUME NEW q \in Seq(Session), q # <<>>
  PROVE  /\ Head(q) \in Session /\ Append(Tail(q), Head(q)) \in Seq(Session)
         /\ Len(Append(Tail(q), Head(q))) = Len(q)
         /\ Append(Tail(q), Head(q)) # <<>>
  OBVIOUS

(* A session is put back.                                                  *)
LEMMA Appended ==
  ASSUME NEW q \in Seq(Session), NEW s \in Session, Len(q) < MaxIdle, MaxIdle \in Nat
  PROVE  /\ Append(q, s) \in Seq(Session) /\ Append(q, s) # <<>>
         /\ Len(Append(q, s)) <= MaxIdle
  OBVIOUS

LEMMA TypedStep ==
  ASSUME Typed, [Next]_vars
  PROVE  Typed'
<1> USE DEF Typed, TypeOK, Course, Sessions, Running
<1>1. CASE Fetch \/ FetchFails \/ CloseLines \/ AllTeams
  BY <1>1 DEF Fetch, FetchFails, CloseLines, AllTeams, loop, loading, imports, database
<1>2. CASE NextTeam
  BY <1>2 DEF NextTeam, loading, imports, database
<1>3. CASE TurnOff
  <2>1. idle # <<>> /\ main = "set"
    BY <1>3 DEF TurnOff
  <2>2. idle' \in Seq(Session) /\ Len(idle') <= MaxIdle /\ idle' # <<>>
    BY <1>3, <2>1, Rotated DEF TurnOff
  <2>3. autocommit' \in [Session -> BOOLEAN] /\ failed' \in BOOLEAN
    BY <1>3 DEF TurnOff
  <2>4. made' \in [Thread -> Nat] /\ \A t \in Thread : made'[t] <= PostsOfThread(t)
    BY <1>3, Numbers DEF TurnOff
  <2>5. (\A t \in Thread : made[t] <= PostsOfThread(t))'
    BY <1>3, <2>4 DEF TurnOff, PostsOfThread
  <2>6. deferred' = team /\ team <= NumTeams
    BY <1>3, <2>1 DEF TurnOff
  <2>7. importer' = [c \in Importer |-> "open"] /\ finished' = [c \in Importer |-> FALSE]
        /\ main' = "load" /\ closed' = FALSE
    BY <1>3 DEF TurnOff
  <2>8. UNCHANGED <<team, batch, uses, pending, table, rolledBack>>
    BY <1>3 DEF TurnOff
  <2>9. TypeOK'
    <3>1. main' \in {"load"} /\ team' \in 1 .. NumTeams + 1 /\ deferred' \in 0 .. NumTeams
      BY <2>6, <2>7, <2>8
    <3>2. /\ importer' \in [Importer -> {"open", "receive", "load", "loading", "gone"}]
          /\ finished' \in [Importer -> BOOLEAN] /\ closed' \in BOOLEAN
      BY <2>7
    <3>3. /\ batch' \in [Importer -> SUBSET Post] /\ uses' \in [Importer -> Session \union {NoSession}]
          /\ pending' \in [Session -> SUBSET Post]
          /\ table' \in SUBSET Post /\ rolledBack' \in SUBSET Post
      BY <2>8
    <3> QED
      BY <2>2, <2>3, <2>4, <2>5, <3>1, <3>2, <3>3
  <2>10. Course' /\ Sessions'
    BY <2>2, <2>6, <2>7, <2>8
  <2> QED
    BY <2>9, <2>10
<1>4. CASE TurnOn
  <2>1. idle # <<>> /\ main = "restore"
    BY <1>4 DEF TurnOn
  <2>2. idle' \in Seq(Session) /\ Len(idle') <= MaxIdle /\ idle' # <<>>
    BY <1>4, <2>1, Rotated DEF TurnOn
  <2>3. /\ autocommit' \in [Session -> BOOLEAN] /\ pending' \in [Session -> SUBSET Post]
        /\ table' \in SUBSET Post /\ failed' \in BOOLEAN
    <3> DEFINE h == Head(idle)
    <3>1. h \in Session
      BY <2>1, Rotated
    <3>2. \/ UNCHANGED <<autocommit, pending, table>> /\ failed' = TRUE
          \/ /\ autocommit' = [autocommit EXCEPT ![h] = TRUE]
             /\ pending' = [pending EXCEPT ![h] = {}]
             /\ table' = table \union pending[h] /\ failed' = failed
      BY <1>4 DEF TurnOn, Ended
    <3> HIDE DEF h
    <3> QED
      BY <3>1, <3>2
  <2>4. deferred' \in 0 .. NumTeams
    BY <1>4 DEF TurnOn
  <2> QED
    BY <1>4, <2>1, <2>2, <2>3, <2>4 DEF TurnOn, loading, imports
<1>5. CASE Return \/ (\E t \in Thread : ThreadPanics(t)) \/ (\E c \in Importer : LoadFails(c))
  <2>1. /\ Exit /\ main' \in {"returned", "panic"} /\ UNCHANGED <<loop, loading, imports>>
    BY <1>5 DEF Return, ThreadPanics, LoadFails
  <2>2. pending' \in [Session -> SUBSET Post] /\ rolledBack' \in SUBSET Post
    BY <2>1 DEF Exit
  <2> QED
    BY <2>1, <2>2 DEF Exit, loop, loading, imports
<1>6. ASSUME NEW c \in Importer, OpenFile(c) \/ OpenFails(c) \/ SeeClosed(c)
      PROVE  Typed'
  <2>1. importer' \in [Importer -> {"open", "receive", "load", "loading", "gone"}]
    BY <1>6 DEF OpenFile, OpenFails, SeeClosed
  <2>2. /\ \A d \in Importer : importer'[d] = "loading" <=> importer[d] = "loading"
        /\ UNCHANGED <<uses, idle, main, team, deferred>> /\ main \in {"load", "wait", "returned", "panic"}
    BY <1>6 DEF OpenFile, OpenFails, SeeClosed, loop, database
  <2> QED
    BY <1>6, <2>1, <2>2 DEF OpenFile, OpenFails, SeeClosed, loop, loading, database
<1>7. ASSUME NEW c \in Importer, NEW t \in Thread, Send(t, c)
      PROVE  Typed'
  <2>1. main \in {"load", "wait"} /\ importer[c] = "receive" /\ team \in 1 .. NumTeams
    BY <1>7 DEF Send
  <2>2. made[t] \in 0 .. PostsOfThread(t) - 1
    BY <1>7, Numbers DEF Send
  <2>3. PostOf(t, made[t]) \in Post
    BY <2>1, <2>2, PostTyped
  <2>4. batch' \in [Importer -> SUBSET Post]
    BY <1>7, <2>3 DEF Send
  <2>5. made' \in [Thread -> Nat] /\ \A u \in Thread : made'[u] <= PostsOfThread(u)
    BY <1>7, <2>2, Numbers DEF Send
  <2>6. /\ importer' \in [Importer -> {"open", "receive", "load", "loading", "gone"}]
        /\ \A d \in Importer : importer'[d] = "loading" <=> importer[d] = "loading"
    BY <1>7, <2>1 DEF Send
  <2>7. UNCHANGED <<main, team, deferred, failed, closed, finished, uses, idle, autocommit,
                    pending, table, rolledBack>>
    BY <1>7 DEF Send, loop, database
  <2> QED
    BY <2>1, <2>4, <2>5, <2>6, <2>7 DEF PostsOfThread
<1>8. ASSUME NEW c \in Importer, BeginLoad(c)
      PROVE  Typed'
  <2>1. /\ uses' \in [Importer -> Session \union {NoSession}]
        /\ uses'[c] # NoSession /\ \A d \in Importer \ {c} : uses'[d] = uses[d]
        /\ idle' \in Seq(Session) /\ Len(idle') <= MaxIdle
    <3>1. CASE idle # <<>>
      <4>1. Head(idle) \in Session /\ Tail(idle) \in Seq(Session) /\ Len(Tail(idle)) <= MaxIdle
        BY <3>1
      <4>2. Head(idle) # NoSession
        BY <4>1 DEF Session, NoSession
      <4> QED
        BY <1>8, <3>1, <4>1, <4>2 DEF BeginLoad
    <3>2. CASE idle = <<>>
      <4>1. PICK s \in Session \ Open : uses' = [uses EXCEPT ![c] = s] /\ UNCHANGED idle
        BY <1>8, <3>2 DEF BeginLoad
      <4>2. s # NoSession
        BY <4>1 DEF Session, NoSession
      <4> QED
        BY <4>1, <4>2
    <3> QED
      BY <3>1, <3>2
  <2>2. /\ importer' = [importer EXCEPT ![c] = "loading"] /\ importer[c] = "load"
        /\ main \in {"load", "wait"}
        /\ UNCHANGED <<main, loop, loading, batch, finished, autocommit, pending, table,
                      rolledBack>>
    BY <1>8 DEF BeginLoad
  <2> QED
    BY <2>1, <2>2 DEF loop, loading
<1>9. ASSUME NEW c \in Importer, EndLoad(c)
      PROVE  Typed'
  <2> DEFINE u == uses[c]
             loaded == pending[u] \union batch[c]
  <2>1. u \in Session /\ loaded \in SUBSET Post /\ main \in {"load", "wait"}
    BY <1>9 DEF EndLoad
  <2>2. /\ importer' \in [Importer -> {"open", "receive", "load", "loading", "gone"}]
        /\ \A d \in Importer : importer'[d] = "loading" => d # c /\ importer[d] = "loading"
        /\ batch' \in [Importer -> SUBSET Post]
        /\ uses' \in [Importer -> Session \union {NoSession}]
        /\ \A d \in Importer \ {c} : uses'[d] = uses[d]
    BY <1>9 DEF EndLoad
  <2>3. table' \in SUBSET Post
    BY <1>9 DEF EndLoad
  <2>4. /\ idle' \in Seq(Session) /\ Len(idle') <= MaxIdle /\ idle' # <<>>
        /\ autocommit' \in [Session -> BOOLEAN] /\ pending' \in [Session -> SUBSET Post]
        /\ rolledBack' \in SUBSET Post
    <3>1. CASE Len(idle) < MaxIdle
      <4>1. /\ idle' = Append(idle, u) /\ UNCHANGED <<autocommit, rolledBack>>
            /\ pending' = [pending EXCEPT ![u] = IF autocommit[u] THEN {} ELSE loaded]
        BY <1>9, <3>1 DEF EndLoad
      <4>2. idle' \in Seq(Session) /\ Len(idle') <= MaxIdle /\ idle' # <<>>
        BY <2>1, <3>1, <4>1, Appended, Numbers
      <4> QED
        BY <2>1, <4>1, <4>2
    <3>2. CASE ~(Len(idle) < MaxIdle)
      <4>1. /\ Ended(u) /\ UNCHANGED idle
            /\ rolledBack' = IF autocommit[u] THEN rolledBack ELSE rolledBack \union loaded
        BY <1>9, <3>2 DEF EndLoad
      <4>2. idle # <<>>
        BY <3>2
      <4> QED
        BY <2>1, <4>1, <4>2 DEF Ended
    <3> QED
      BY <3>1, <3>2
  <2>5. UNCHANGED <<main, team, deferred, failed, made, closed, finished>>
    BY <1>9 DEF EndLoad, loop, loading
  <2> QED
    BY <2>1, <2>2, <2>3, <2>4, <2>5 DEF PostsOfThread
<1>10. CASE UNCHANGED vars
  BY <1>10 DEF vars, loop, loading, imports, database
<1> QED
  BY <1>1, <1>2, <1>3, <1>4, <1>5, <1>6, <1>7, <1>8, <1>9, <1>10 DEF Next, Step

LEMMA TypedAlways == Spec => []Typed
<1>1. Init => Typed
  <2> SUFFICES ASSUME Init PROVE Typed
    OBVIOUS
  <2>1. made \in [Thread -> Nat] /\ \A t \in Thread : made[t] <= PostsOfThread(t)
    BY Numbers DEF Init
  <2>2. idle = <<1>> /\ 1 \in Session
    BY DEF Init, Session
  <2>3. idle \in Seq(Session) /\ Len(idle) <= MaxIdle /\ idle # <<>>
    BY <2>2
  <2>4. /\ importer \in [Importer -> {"open", "receive", "load", "loading", "gone"}]
        /\ batch \in [Importer -> SUBSET Post] /\ finished \in [Importer -> BOOLEAN]
        /\ uses \in [Importer -> Session \union {NoSession}]
    BY DEF Init
  <2>5. autocommit \in [Session -> BOOLEAN] /\ pending \in [Session -> SUBSET Post]
    BY DEF Init
  <2>6. main = "team" /\ team \in 1 .. NumTeams + 1 /\ deferred \in 0 .. NumTeams
    BY DEF Init
  <2>7. /\ table \in SUBSET Post /\ rolledBack \in SUBSET Post
        /\ failed \in BOOLEAN /\ closed \in BOOLEAN
    BY DEF Init
  <2>8. TypeOK
    BY <2>1, <2>3, <2>4, <2>5, <2>6, <2>7 DEF TypeOK
  <2>9. Course /\ Sessions
    BY <2>3 DEF Init, Course, Sessions
  <2> QED
    BY <2>8, <2>9 DEF Typed
<1>2. Typed /\ [Next]_vars => Typed'
  BY TypedStep
<1> QED
  BY <1>1, <1>2, PTL DEF Spec

(* Threads, importers and sessions keep to their types: no thread sends    *)
(* more than its share, and the pool is never larger than it may be.       *)
THEOREM TypeCorrect == Spec => []TypeOK
<1>1. Typed => TypeOK
  BY DEF Typed
<1> QED
  BY <1>1, TypedAlways, PTL

-----------------------------------------------------------------------------

(* Where posts are: in the files of the importers, or in the database,     *)
(* committed or not, or rolled back.                                       *)
Stored(p) ==
  p \in table \/ p \in rolledBack \/ \E s \in Session : p \in pending[s]

Placed(p) == Stored(p) \/ \E c \in Importer : p \in batch[c]

(* A thread has sent it for this team.                                     *)
Sent(p) ==
  main \in {"load", "wait"} /\ \E t \in Thread : \E n \in 0 .. made[t] - 1 : p = PostOf(t, n)

contents == <<batch, pending, table, rolledBack>>

(* The steps that move no post.                                            *)
LEMMA QuietStep ==
  ASSUME Fetch \/ FetchFails \/ CloseLines \/ AllTeams \/ NextTeam \/ TurnOff
         \/ (\E c \in Importer : OpenFile(c) \/ OpenFails(c) \/ SeeClosed(c) \/ BeginLoad(c))
  PROVE  UNCHANGED contents
BY DEF Fetch, FetchFails, CloseLines, AllTeams, NextTeam, TurnOff, OpenFile, OpenFails, SeeClosed,
       BeginLoad, contents, imports, database

(* The end of a load: its file is empty, and its posts are where its       *)
(* session has them.                                                       *)
LEMMA Loaded ==
  ASSUME Typed, NEW c \in Importer, EndLoad(c)
  PROVE  \E s \in Session :
           /\ batch' = [batch EXCEPT ![c] = {}]
           /\ table' = IF autocommit[s] THEN table \union batch[c] ELSE table
           /\ \/ /\ pending' = [pending EXCEPT ![s] = IF autocommit[s] THEN {}
                                                      ELSE pending[s] \union batch[c]]
                 /\ UNCHANGED <<autocommit, rolledBack>>
              \/ /\ pending' = [pending EXCEPT ![s] = {}]
                 /\ rolledBack' = IF autocommit[s] THEN rolledBack
                                  ELSE rolledBack \union (pending[s] \union batch[c])
                 /\ autocommit' = [autocommit EXCEPT ![s] = TRUE]
<1>1. uses[c] \in Session
  BY DEF EndLoad, Typed, TypeOK, Sessions
<1>2. CASE Len(idle) < MaxIdle
  BY <1>1, <1>2 DEF EndLoad
<1>3. CASE ~(Len(idle) < MaxIdle)
  BY <1>1, <1>3 DEF EndLoad, Ended
<1> QED
  BY <1>2, <1>3

(* Turning autocommit on commits what its session has pending.             *)
LEMMA Committed ==
  ASSUME Typed, TurnOn
  PROVE  /\ UNCHANGED <<batch, rolledBack, main>>
         /\ \/ UNCHANGED <<autocommit, pending, table>>
            \/ \E s \in Session : /\ autocommit' = [autocommit EXCEPT ![s] = TRUE]
                                  /\ pending' = [pending EXCEPT ![s] = {}]
                                  /\ table' = table \union pending[s]
<1>1. idle # <<>> /\ idle \in Seq(Session)
  BY DEF TurnOn, Typed, TypeOK, Sessions
<1>2. Head(idle) \in Session
  BY <1>1, Rotated
<1> QED
  BY <1>2 DEF TurnOn, Ended, imports

(* Whatever is placed while LoadPosts runs is of an earlier team, or was   *)
(* sent for this one.                                                      *)
Known == Running => \A p \in Post : Placed(p) => p[1] < team \/ Sent(p)

(* The post a thread sends next is nowhere yet.                            *)
LEMMA NextIsNew ==
  ASSUME Typed, Known, NEW t \in Thread, NEW c \in Importer, Send(t, c)
  PROVE  PostOf(t, made[t]) \in Post /\ ~ Placed(PostOf(t, made[t]))
<1> DEFINE p == PostOf(t, made[t])
<1>1. /\ Running /\ main \in {"load", "wait"} /\ team \in 1 .. NumTeams
      /\ made[t] \in 0 .. PostsOfThread(t) - 1
  BY Numbers DEF Send, Typed, TypeOK, Course, Sessions, Running
<1>2. p \in Post /\ p[1] = team
  BY <1>1, PostTyped
<1>3. ~ Sent(p)
  <2>1. SUFFICES ASSUME NEW u \in Thread, NEW n \in 0 .. made[u] - 1, p = PostOf(u, n)
                 PROVE  FALSE
    BY DEF Sent
  <2>2. n \in 0 .. PostsOfThread(u) - 1
    BY Numbers DEF Typed, TypeOK
  <2>3. u = t /\ n = made[t]
    BY <1>1, <2>1, <2>2, PostsDiffer
  <2> QED
    BY <1>1, <2>3
<1> HIDE DEF p
<1>4. ~ Placed(p)
  BY <1>1, <1>2, <1>3 DEF Known
<1> QED
  BY <1>2, <1>4 DEF p

(* What a thread has sent stays sent, for as long as the team is loaded.   *)
LEMMA SentStays ==
  ASSUME Typed, [Next]_vars, NEW p, Sent(p), main' \in {"load", "wait"}
  PROVE  Sent(p)'
<1>0. PICK t \in Thread : \E n \in 0 .. made[t] - 1 : p = PostOf(t, n)
  BY DEF Sent
<1>1. PICK n \in 0 .. made[t] - 1 : p = PostOf(t, n)
  BY <1>0
<1>2. team' = team /\ made'[t] \in Nat /\ made[t] <= made'[t]
  <2>1. CASE UNCHANGED <<team, made>>
    BY <2>1 DEF Typed, TypeOK
  <2>2. ASSUME NEW u \in Thread, NEW c \in Importer, Send(u, c)
        PROVE  team' = team /\ made'[t] \in Nat /\ made[t] <= made'[t]
    BY <2>2 DEF Send, loop, Typed, TypeOK
  <2>3. main \in {"load", "wait"}
    BY DEF Sent
  <2> QED
    BY <2>1, <2>2, <2>3
    DEF Next, Step, Fetch, FetchFails, TurnOff, CloseLines, AllTeams, NextTeam, TurnOn, Return,
        ThreadPanics, LoadFails, OpenFile, OpenFails, SeeClosed, BeginLoad, EndLoad, loop,
        loading, vars
<1>3. n \in 0 .. made'[t] - 1 /\ PostOf(t, n)' = PostOf(t, n)
  BY <1>2 DEF PostOf, Typed, TypeOK
<1> QED
  BY <1>1, <1>3 DEF Sent

(* Nothing but a send places a post that was not placed.                   *)
LEMMA OnlySent ==
  ASSUME Typed, [Next]_vars, NEW p, Placed(p)'
  PROVE  Placed(p) \/ \E t \in Thread, c \in Importer : Send(t, c) /\ p = PostOf(t, made[t])
<1> USE DEF Placed, Stored
<1>1. CASE UNCHANGED contents
  BY <1>1 DEF contents
<1>2. CASE TurnOn
  <2>1. CASE UNCHANGED <<batch, rolledBack, pending, table>>
    BY <2>1
  <2>2. ASSUME NEW s \in Session, UNCHANGED <<batch, rolledBack>>,
               pending' = [pending EXCEPT ![s] = {}], table' = table \union pending[s]
        PROVE  Placed(p)
    <3>1. \A u \in Session : pending'[u] \subseteq pending[u]
      BY <2>2 DEF Typed, TypeOK
    <3> QED
      BY <2>2, <3>1
  <2> QED
    BY <1>2, <2>1, <2>2, Committed
<1>3. CASE Exit /\ UNCHANGED batch
  BY <1>3 DEF Exit
<1>4. ASSUME NEW c \in Importer, EndLoad(c)
      PROVE  Placed(p)
  <2>1. PICK s \in Session :
          /\ batch' = [batch EXCEPT ![c] = {}]
          /\ table' \subseteq table \union batch[c]
          /\ rolledBack' \subseteq rolledBack \union (pending[s] \union batch[c])
          /\ \A u \in Session : pending'[u] \subseteq
                                  IF u = s THEN pending[s] \union batch[c] ELSE pending[u]
    <3>1. PICK s \in Session :
            /\ batch' = [batch EXCEPT ![c] = {}]
            /\ table' = IF autocommit[s] THEN table \union batch[c] ELSE table
            /\ \/ /\ pending' = [pending EXCEPT ![s] = IF autocommit[s] THEN {}
                                                       ELSE pending[s] \union batch[c]]
                  /\ UNCHANGED <<autocommit, rolledBack>>
               \/ /\ pending' = [pending EXCEPT ![s] = {}]
                  /\ rolledBack' = IF autocommit[s] THEN rolledBack
                                   ELSE rolledBack \union (pending[s] \union batch[c])
                  /\ autocommit' = [autocommit EXCEPT ![s] = TRUE]
      BY <1>4, Loaded
    <3>2. table' \subseteq table \union batch[c]
      BY <3>1
    <3>3. rolledBack' \subseteq rolledBack \union (pending[s] \union batch[c])
      BY <3>1
    <3>4. \A u \in Session : pending'[u] \subseteq
                               IF u = s THEN pending[s] \union batch[c] ELSE pending[u]
      BY <3>1 DEF Typed, TypeOK
    <3> QED
      BY <3>1, <3>2, <3>3, <3>4
  <2>2. \A d \in Importer : batch'[d] \subseteq batch[d]
    BY <2>1 DEF Typed, TypeOK
  <2>3. p \in table' \/ p \in rolledBack' \/ (\E u \in Session : p \in pending'[u])
        \/ \E d \in Importer : p \in batch'[d]
    OBVIOUS
  <2> QED
    BY <2>1, <2>2, <2>3
<1>5. ASSUME NEW c \in Importer, NEW t \in Thread, Send(t, c), p # PostOf(t, made[t])
      PROVE  Placed(p)
  BY <1>5 DEF Send, database, Typed, TypeOK
<1>6. UNCHANGED vars => UNCHANGED contents
  BY DEF vars, imports, database, contents
<1>7. (Return \/ (\E t \in Thread : ThreadPanics(t)) \/ \E c \in Importer : LoadFails(c))
      => Exit /\ UNCHANGED batch
  BY DEF Return, ThreadPanics, LoadFails, imports
<1> QED
  BY <1>1, <1>2, <1>3, <1>4, <1>5, <1>6, <1>7, QuietStep DEF Next, Step

LEMMA KnownStep ==
  ASSUME Typed, Known, [Next]_vars
  PROVE  Known'
<1>1. SUFFICES ASSUME Running', NEW p \in Post, Placed(p)'
               PROVE  (p[1] < team \/ Sent(p))'
  BY DEF Known, Post
<1>2. Running
  BY <1>1 DEF Next, Step, Fetch, FetchFails, TurnOff, CloseLines, AllTeams, NextTeam, TurnOn, Return,
        ThreadPanics, LoadFails, OpenFile, OpenFails, SeeClosed, BeginLoad, EndLoad, Send, loop,
        loading, vars, Running
<1>3. p[1] \in Nat /\ team \in Nat
  BY DEF Post, Typed, TypeOK
<1>4. CASE \E t \in Thread, c \in Importer : Send(t, c) /\ p = PostOf(t, made[t])
  <2>1. PICK t \in Thread, c \in Importer : Send(t, c) /\ p = PostOf(t, made[t])
    BY <1>4
  <2>2. /\ main' \in {"load", "wait"} /\ team' = team
        /\ made[t] \in Nat /\ made'[t] = made[t] + 1
    BY <1>2, <2>1 DEF Send, loop, Typed, TypeOK, Sessions, Running
  <2>3. made[t] \in 0 .. made'[t] - 1 /\ p = <<team', Start(NumChannels, NumThreads, t)
                  + made[t] \div PostsOfChannel, made[t] % PostsOfChannel>>
    BY <2>1, <2>2 DEF PostOf
  <2> QED
    BY <2>2, <2>3 DEF Sent, PostOf
<1>5. CASE Placed(p)
  <2>1. p[1] < team \/ Sent(p)
    BY <1>2, <1>5 DEF Known
  <2>2. CASE main' \in {"load", "wait"} /\ Sent(p)
    BY <2>2, SentStays
  <2>3. CASE team' \in Nat /\ team <= team' /\ p[1] < team
    BY <1>3, <2>3
  <2>4. team' = team \/ (NextTeam /\ team' = team + 1)
    BY DEF Next, Step, Fetch, FetchFails, TurnOff, CloseLines, AllTeams, NextTeam, TurnOn, Return,
        ThreadPanics, LoadFails, OpenFile, OpenFails, SeeClosed, BeginLoad, EndLoad, Send, loop,
        loading, vars
  <2>5. CASE Sent(p) /\ main' \notin {"load", "wait"}
    <3>1. NextTeam
      BY <1>1, <2>5 DEF Sent, Next, Step, Fetch, FetchFails, TurnOff, CloseLines, AllTeams, TurnOn,
        Return, ThreadPanics, LoadFails, OpenFile, OpenFails, SeeClosed, BeginLoad, EndLoad, Send,
        vars, Running
    <3>2. p[1] = team
      BY <2>5 DEF Sent, PostOf
    <3> QED
      BY <1>3, <3>1, <3>2 DEF NextTeam
  <2> QED
    BY <1>3, <2>1, <2>2, <2>3, <2>4, <2>5
<1> QED
  BY <1>1, <1>4, <1>5, OnlySent

LEMMA OnceStep ==
  ASSUME Typed, Known, NoPostTwice, [Next]_vars
  PROVE  NoPostTwice'
<1> USE DEF NoPostTwice
<1>1. CASE UNCHANGED contents
  BY <1>1 DEF contents
<1>2. CASE TurnOn
  <2>1. CASE UNCHANGED <<batch, rolledBack, pending, table>>
    BY <2>1
  <2>2. ASSUME NEW s \in Session,
               UNCHANGED <<batch, rolledBack>>, pending' = [pending EXCEPT ![s] = {}],
               table' = table \union pending[s]
        PROVE  NoPostTwice'
    <3>1. /\ \A u \in Session : pending'[u] \subseteq pending[u] 
          /\ \A u \in Session : pending'[u] \intersect pending[s] = {}
      BY <2>2 DEF Typed, TypeOK
    <3> QED
      BY <2>2, <3>1
  <2> QED
    BY <1>2, <2>1, <2>2, Committed
<1>3. CASE Exit /\ UNCHANGED batch
  BY <1>3 DEF Exit
<1>4. ASSUME NEW c \in Importer, EndLoad(c)
      PROVE  NoPostTwice'
  <2>1. PICK s \in Session :
          /\ batch' = [batch EXCEPT ![c] = {}]
          /\ table' = IF autocommit[s] THEN table \union batch[c] ELSE table
          /\ \/ /\ pending' = [pending EXCEPT ![s] = IF autocommit[s] THEN {}
                                                     ELSE pending[s] \union batch[c]]
                /\ UNCHANGED <<autocommit, rolledBack>>
             \/ /\ pending' = [pending EXCEPT ![s] = {}]
                /\ rolledBack' = IF autocommit[s] THEN rolledBack
                                 ELSE rolledBack \union (pending[s] \union batch[c])
                /\ autocommit' = [autocommit EXCEPT ![s] = TRUE]
    BY <1>4, Loaded
  <2>2. \A d \in Importer : batch'[d] = IF d = c THEN {} ELSE batch[d]
    BY <2>1 DEF Typed, TypeOK
  <2>3. CASE autocommit[s]
    <3>1. /\ table' = table \union batch[c] /\ rolledBack' = rolledBack
          /\ \A u \in Session : pending'[u] = IF u = s THEN {} ELSE pending[u]
      BY <2>1, <2>3 DEF Typed, TypeOK
    <3> QED
      BY <2>2, <3>1
  <2>4. CASE ~ autocommit[s]
    <3>1. table' = table
      BY <2>1, <2>4
    <3>2. CASE /\ rolledBack' = rolledBack
               /\ \A u \in Session : pending'[u] = IF u = s THEN pending[s] \union batch[c]
                                                   ELSE pending[u]
      <4>1. /\ \A d \in Importer : batch'[d] \intersect (table' \union rolledBack') = {}
            /\ \A d, e \in Importer : d # e => batch'[d] \intersect batch'[e] = {}
        BY <2>2, <3>1, <3>2
      <4>2. /\ \A u \in Session : pending'[u] \intersect (table' \union rolledBack') = {}
            /\ table' \intersect rolledBack' = {}
        BY <3>1, <3>2
      <4>3. \A u, v \in Session : u # v => pending'[u] \intersect pending'[v] = {}
        BY <3>2
      <4>4. \A d \in Importer, u \in Session : batch'[d] \intersect pending'[u] = {}
        BY <2>2, <3>2
      <4> QED
        BY <4>1, <4>2, <4>3, <4>4
    <3>3. CASE /\ rolledBack' = rolledBack \union (pending[s] \union batch[c])
               /\ \A u \in Session : pending'[u] = IF u = s THEN {} ELSE pending[u]
      BY <2>2, <3>1, <3>3
    <3>4. pending \in [Session -> SUBSET Post]
      BY DEF Typed, TypeOK
    <3>5. \/ pending' = [pending EXCEPT ![s] = pending[s] \union batch[c]]
             /\ rolledBack' = rolledBack
          \/ pending' = [pending EXCEPT ![s] = {}]
             /\ rolledBack' = rolledBack \union (pending[s] \union batch[c])
      BY <2>1, <2>4
    <3> QED
      <4>1. CASE /\ pending' = [pending EXCEPT ![s] = pending[s] \union batch[c]]
                 /\ rolledBack' = rolledBack
        BY <3>2, <3>4, <4>1
      <4>2. CASE /\ pending' = [pending EXCEPT ![s] = {}]
                 /\ rolledBack' = rolledBack \union (pending[s] \union batch[c])
        BY <3>3, <3>4, <4>2
      <4> QED
        BY <3>5, <4>1, <4>2
  <2> QED
    BY <2>3, <2>4
<1>5. ASSUME NEW c \in Importer, NEW t \in Thread, Send(t, c)
      PROVE  NoPostTwice'
  <2> DEFINE p == PostOf(t, made[t])
  <2>1. ~ Placed(p)
    BY <1>5, NextIsNew
  <2>2. /\ UNCHANGED <<pending, table, rolledBack>>
        /\ \A d \in Importer : batch'[d] = IF d = c THEN batch[c] \union {p} ELSE batch[d]
    BY <1>5 DEF Send, database, Typed, TypeOK
  <2> HIDE DEF p
  <2> QED
    BY <2>1, <2>2 DEF Placed, Stored
<1>6. UNCHANGED vars => UNCHANGED contents
  BY DEF vars, imports, database, contents
<1>7. (Return \/ (\E t \in Thread : ThreadPanics(t)) \/ \E c \in Importer : LoadFails(c))
      => Exit /\ UNCHANGED batch
  BY DEF Return, ThreadPanics, LoadFails, imports
<1> QED
  BY <1>1, <1>2, <1>3, <1>4, <1>5, <1>6, <1>7, QuietStep DEF Next, Step

(* No post is in two places: what a thread sends is nowhere yet, and the   *)
(* load of a file, the end of a session and a commit each move posts as a  *)
(* whole.                                                                  *)
THEOREM PostsOnce == Spec => []NoPostTwice
<1>1. Init => NoPostTwice
  BY DEF Init, NoPostTwice
<1>2. Init => Known
  BY DEF Init, Known, Placed, Stored
<1> QED
  BY <1>1, <1>2, TypedAlways, KnownStep, OnceStep, PTL DEF Spec

-----------------------------------------------------------------------------

(* A session that commits by itself has nothing pending, and an importer   *)
(* between two files has no lines.                                         *)
Empty ==
  /\ \A s \in Session : autocommit[s] => pending[s] = {}
  /\ \A c \in Importer : importer[c] \in {"open", "gone"} => batch[c] = {}

LEMMA EmptyStep ==
  ASSUME Typed, Empty, [Next]_vars
  PROVE  Empty'
<1> USE DEF Empty
<1>1. CASE UNCHANGED <<autocommit, pending, importer, batch>>
  BY <1>1
<1>2. CASE TurnOff
  <2>1. /\ UNCHANGED <<batch, pending>> /\ importer' = [c \in Importer |-> "open"]
        /\ \A c \in Importer : importer[c] = "gone"
    BY <1>2 DEF TurnOff, Typed, Sessions
  <2>2. \A s \in Session : autocommit'[s] => autocommit[s]
    BY <1>2 DEF TurnOff, Typed, TypeOK
  <2> QED
    BY <2>1, <2>2
<1>3. CASE TurnOn
  <2>1. UNCHANGED <<importer, batch>>
    BY <1>3 DEF TurnOn, imports
  <2>2. \A s \in Session : autocommit'[s] => pending'[s] = {}
    BY <1>3, Committed DEF Typed, TypeOK
  <2> QED
    BY <2>1, <2>2
<1>4. CASE Exit /\ UNCHANGED <<importer, batch>>
  BY <1>4 DEF Exit
<1>5. ASSUME NEW c \in Importer, OpenFile(c) \/ OpenFails(c) \/ SeeClosed(c) \/ BeginLoad(c)
      PROVE  Empty'
  <2>1. UNCHANGED <<autocommit, pending, batch>>
    BY <1>5 DEF OpenFile, OpenFails, SeeClosed, BeginLoad, database
  <2>2. \A d \in Importer : importer'[d] \in {"open", "gone"} => importer[d] \in {"open", "gone"}
    BY <1>5 DEF OpenFile, OpenFails, SeeClosed, BeginLoad, Typed, TypeOK
  <2> QED
    BY <2>1, <2>2
<1>6. ASSUME NEW c \in Importer, NEW t \in Thread, Send(t, c)
      PROVE  Empty'
  <2>1. /\ UNCHANGED <<autocommit, pending>>
        /\ \A d \in Importer : d # c => importer'[d] = importer[d] /\ batch'[d] = batch[d]
        /\ importer'[c] \in {"load", "receive"}
    BY <1>6 DEF Send, database, Typed, TypeOK
  <2> QED
    BY <2>1
<1>7. ASSUME NEW c \in Importer, EndLoad(c)
      PROVE  Empty'
  <2>1. /\ \A d \in Importer : d # c => importer'[d] = importer[d] /\ batch'[d] = batch[d]
        /\ batch'[c] = {}
    BY <1>7 DEF EndLoad, Typed, TypeOK
  <2>2. \A s \in Session : autocommit'[s] => pending'[s] = {}
    <3>1. PICK s \in Session :
            \/ /\ pending' = [pending EXCEPT ![s] = IF autocommit[s] THEN {}
                                                    ELSE pending[s] \union batch[c]]
               /\ UNCHANGED <<autocommit, rolledBack>>
            \/ /\ pending' = [pending EXCEPT ![s] = {}]
               /\ autocommit' = [autocommit EXCEPT ![s] = TRUE]
      BY <1>7, Loaded
    <3>2. CASE UNCHANGED autocommit /\ \A u \in Session : pending'[u] =
                 IF u # s THEN pending[u]
                 ELSE IF autocommit[s] THEN {} ELSE pending[s] \union batch[c]
      BY <3>2
    <3>3. CASE \A u \in Session : /\ pending'[u] = IF u # s THEN pending[u] ELSE {}
                                  /\ u # s => autocommit'[u] = autocommit[u]
      BY <3>3
    <3> QED
      BY <3>1, <3>2, <3>3 DEF Typed, TypeOK
  <2> QED
    BY <2>1, <2>2
<1>8. (Fetch \/ FetchFails \/ CloseLines \/ AllTeams \/ NextTeam \/ UNCHANGED vars)
      => UNCHANGED <<autocommit, pending, importer, batch>>
  BY DEF Fetch, FetchFails, CloseLines, AllTeams, NextTeam, vars, imports, database
<1>9. (Return \/ (\E t \in Thread : ThreadPanics(t)) \/ \E c \in Importer : LoadFails(c))
      => Exit /\ UNCHANGED <<importer, batch>>
  BY DEF Return, ThreadPanics, LoadFails, imports
<1> QED
  BY <1>1, <1>2, <1>3, <1>4, <1>5, <1>6, <1>7, <1>8, <1>9 DEF Next, Step

(* No post is lost: what is in the database stays, and what is in a file   *)
(* gets there.                                                             *)
LEMMA NoneLost ==
  ASSUME Typed, Empty, [Next]_vars, NEW p
  PROVE  (Stored(p) => Stored(p)') /\ (Placed(p) => Placed(p)')
<1> USE DEF Placed, Stored
<1>1. CASE UNCHANGED contents
  BY <1>1 DEF contents
<1>2. CASE TurnOn
  <2>1. CASE UNCHANGED <<batch, rolledBack, pending, table>>
    BY <2>1
  <2>2. ASSUME NEW s \in Session, UNCHANGED <<batch, rolledBack>>,
               pending' = [pending EXCEPT ![s] = {}], table' = table \union pending[s]
        PROVE  (Stored(p) => Stored(p)') /\ (Placed(p) => Placed(p)')
    <3>1. \A u \in Session : u # s => pending'[u] = pending[u]
      BY <2>2 DEF Typed, TypeOK
    <3>2. Stored(p) => Stored(p)'
      BY <2>2, <3>1
    <3> QED
      BY <2>2, <3>2
  <2> QED
    BY <1>2, <2>1, <2>2, Committed
<1>3. CASE Exit /\ UNCHANGED batch
  BY <1>3 DEF Exit
<1>4. ASSUME NEW c \in Importer, EndLoad(c)
      PROVE  (Stored(p) => Stored(p)') /\ (Placed(p) => Placed(p)')
  <2>1. PICK s \in Session :
          /\ batch' = [batch EXCEPT ![c] = {}]
          /\ table' = IF autocommit[s] THEN table \union batch[c] ELSE table
          /\ \/ /\ pending' = [pending EXCEPT ![s] = IF autocommit[s] THEN {}
                                                     ELSE pending[s] \union batch[c]]
                /\ UNCHANGED <<autocommit, rolledBack>>
             \/ /\ pending' = [pending EXCEPT ![s] = {}]
                /\ rolledBack' = IF autocommit[s] THEN rolledBack
                                 ELSE rolledBack \union (pending[s] \union batch[c])
                /\ autocommit' = [autocommit EXCEPT ![s] = TRUE]
    BY <1>4, Loaded
  <2>2. /\ \A d \in Importer : d # c => batch'[d] = batch[d]
        /\ \A u \in Session : u # s => pending'[u] = pending[u]
    BY <2>1 DEF Typed, TypeOK
  <2>3. CASE autocommit[s]
    <3>1. table' = table \union batch[c] /\ rolledBack' = rolledBack /\ pending[s] = {}
      BY <2>1, <2>3 DEF Empty
    <3> QED
      BY <2>2, <3>1
  <2>4. CASE ~ autocommit[s]
    <3>1. table' = table
      BY <2>1, <2>4
    <3>2. CASE rolledBack' = rolledBack /\ pending'[s] = pending[s] \union batch[c]
      BY <2>2, <3>1, <3>2
    <3>3. CASE rolledBack' = rolledBack \union (pending[s] \union batch[c])
      BY <2>2, <3>1, <3>3
    <3> QED
      BY <2>1, <2>4, <3>2, <3>3 DEF Typed, TypeOK
  <2> QED
    BY <2>3, <2>4
<1>5. ASSUME NEW c \in Importer, NEW t \in Thread, Send(t, c)
      PROVE  (Stored(p) => Stored(p)') /\ (Placed(p) => Placed(p)')
  <2>1. /\ UNCHANGED <<pending, table, rolledBack>>
        /\ \A d \in Importer : batch[d] \subseteq batch'[d]
    BY <1>5 DEF Send, database, Typed, TypeOK
  <2> QED
    BY <2>1
<1>6. UNCHANGED vars => UNCHANGED contents
  BY DEF vars, imports, database, contents
<1>7. (Return \/ (\E t \in Thread : ThreadPanics(t)) \/ \E c \in Importer : LoadFails(c))
      => Exit /\ UNCHANGED batch
  BY DEF Return, ThreadPanics, LoadFails, imports
<1> QED
  BY <1>1, <1>2, <1>3, <1>4, <1>5, <1>6, <1>7, QuietStep DEF Next, Step

(* When LoadPosts waits for its importers, the threads have sent all they  *)
(* had to.  What was sent is placed, and what is of earlier teams is in    *)
(* the database.                                                           *)
Whole ==
  /\ main = "wait" => \A t \in Thread : made[t] = PostsOfThread(t)
  /\ \A p \in Post : Sent(p) => Placed(p)
  /\ \A p \in Post : p[1] < team => Stored(p)

(* What counts as sent was sent already, or is sent now.                   *)
LEMMA SentBefore ==
  ASSUME Typed, [Next]_vars, NEW p, Sent(p)'
  PROVE  \/ Sent(p)
         \/ \E t \in Thread, c \in Importer : Send(t, c) /\ p = PostOf(t, made[t])
<1>1. PICK t \in Thread : \E n \in 0 .. made'[t] - 1 : p = (PostOf(t, n))'
  BY DEF Sent
<1>2. PICK n \in 0 .. made'[t] - 1 : p = (PostOf(t, n))'
  BY <1>1
<1>3. ~ TurnOff
  BY <1>2 DEF TurnOff
<1>4. team' = team /\ main \in {"load", "wait"}
  BY <1>3 DEF Sent, Next, Step, Fetch, FetchFails, CloseLines, AllTeams, NextTeam, TurnOn, Return,
        ThreadPanics, LoadFails, OpenFile, OpenFails, SeeClosed, BeginLoad, EndLoad, Send, loop,
        loading, vars
<1>5. p = PostOf(t, n)
  BY <1>2, <1>4 DEF PostOf
<1>6. CASE made' = made
  BY <1>2, <1>4, <1>5, <1>6 DEF Sent
<1>7. ASSUME NEW u \in Thread, NEW c \in Importer, Send(u, c)
      PROVE  Sent(p) \/ (u = t /\ n = made[t])
  <2>1. CASE u = t
    <3>1. made'[t] = made[t] + 1 /\ made[t] \in Nat
      BY <1>7, <2>1 DEF Send, Typed, TypeOK
    <3>2. n = made[t] \/ n \in 0 .. made[t] - 1
      BY <1>2, <3>1
    <3> QED
      BY <1>4, <1>5, <2>1, <3>2 DEF Sent
  <2>2. CASE u # t
    BY <1>2, <1>4, <1>5, <1>7, <2>2 DEF Send, Sent, Typed, TypeOK
  <2> QED
    BY <2>1, <2>2
<1>8. made' = made \/ \E u \in Thread, c \in Importer : Send(u, c)
  BY <1>3 DEF Next, Step, Fetch, FetchFails, CloseLines, AllTeams, NextTeam, TurnOn, Return,
        ThreadPanics, LoadFails, OpenFile, OpenFails, SeeClosed, BeginLoad, EndLoad,
        loading, vars
<1> QED
  BY <1>5, <1>6, <1>7, <1>8

LEMMA WholeStep ==
  ASSUME Typed, Empty, Whole, [Next]_vars
  PROVE  Whole'
<1>1. (main = "wait" => \A t \in Thread : made[t] = PostsOfThread(t))'
  <2>1. SUFFICES ASSUME main' = "wait", NEW t \in Thread
                 PROVE  made'[t] = PostsOfThread(t)
    BY DEF PostsOfThread
  <2>2. CASE main = "wait"
    <3>1. made[t] = PostsOfThread(t)
      BY <2>2 DEF Whole
    <3>2. \A u \in Thread : \A c \in Importer : ~ Send(u, c)
      BY <2>2, Numbers DEF Whole, Send
    <3> QED
      BY <2>1, <2>2, <3>1, <3>2 DEF Next, Step, Fetch, FetchFails, TurnOff, CloseLines, AllTeams,
        NextTeam, TurnOn, Return, ThreadPanics, LoadFails, OpenFile, OpenFails, SeeClosed,
        BeginLoad, EndLoad, loading, vars
  <2>3. CASE main # "wait"
    <3>1. CloseLines
      BY <2>1, <2>3 DEF Next, Step, Fetch, FetchFails, TurnOff, AllTeams,
        NextTeam, TurnOn, Return, ThreadPanics, LoadFails, OpenFile, OpenFails, SeeClosed,
        BeginLoad, EndLoad, Send, vars
    <3> QED
      BY <3>1 DEF CloseLines
  <2> QED
    BY <2>2, <2>3
<1>2. ASSUME NEW p \in Post, Sent(p)'
      PROVE  Placed(p)'
  <2>1. CASE Sent(p)
    BY <2>1, NoneLost DEF Whole
  <2>2. ASSUME NEW t \in Thread, NEW c \in Importer, Send(t, c), p = PostOf(t, made[t])
        PROVE  Placed(p)'
    <3>1. p \in batch'[c]
      BY <2>2 DEF Send, Typed, TypeOK
    <3> QED
      BY <3>1 DEF Placed
  <2> QED
    BY <1>2, <2>1, <2>2, SentBefore
<1>3. ASSUME NEW p \in Post, p[1] < team'
      PROVE  Stored(p)'
  <2>1. p[1] \in Nat /\ team \in Nat
    BY DEF Post, Typed, TypeOK
  <2>2. CASE p[1] < team
    BY <2>2, NoneLost DEF Whole
  <2>3. CASE ~(p[1] < team)
    <3>1. NextTeam
      BY <1>3, <2>3 DEF Next, Step, Fetch, FetchFails, TurnOff, CloseLines, AllTeams, TurnOn,
        Return, ThreadPanics, LoadFails, OpenFile, OpenFails, SeeClosed, BeginLoad, EndLoad, Send,
        loop, loading, vars
    <3>2. p[1] = team /\ main = "wait" /\ \A c \in Importer : importer[c] = "gone"
      BY <1>3, <2>1, <2>3, <3>1 DEF NextTeam
    <3>3. PICK t \in Thread : \E n \in 0 .. PostsOfThread(t) - 1 : p = PostOf(t, n)
      BY <3>2, PostsCovered
    <3>4. Sent(p)
      BY <3>2, <3>3 DEF Sent, Whole
    <3>5. Stored(p)
      BY <3>2, <3>4 DEF Whole, Placed, Empty
    <3> QED
      BY <3>5, NoneLost
  <2> QED
    BY <2>2, <2>3
<1> QED
  BY <1>1, <1>2, <1>3 DEF Whole, Post

(* Every post of a team that is through was loaded, whichever importers    *)
(* gave up: threads make all of them, a post that was sent stays until it  *)
(* is in the database, and LoadPosts goes on to the next team only when    *)
(* its importers are gone and their files empty.                           *)
THEOREM TeamsAreLoaded == Spec => []TeamsLoaded
<1>1. Init => Empty
  BY DEF Init, Empty
<1>2. Init => Whole
  <2>1. ASSUME NEW p \in Post
        PROVE  ~(p[1] < 1)
    BY DEF Post
  <2> QED
    BY <2>1 DEF Init, Whole, Sent
<1>3. Whole => TeamsLoaded
  BY DEF Whole, Stored, TeamsLoaded
<1> QED
  BY <1>1, <1>2, <1>3, TypedAlways, EmptyStep, WholeStep, PTL DEF Spec

=============================================================================
