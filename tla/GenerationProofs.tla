--------------------------- MODULE GenerationProofs ---------------------------
(***************************************************************************)
(* Proofs about BulkloadPipeline and Generation.                           *)
(*                                                                         *)
(* The users are sent without memberships if there are more emojis than    *)
(* the channel between the goroutines holds: when the first memberships    *)
(* are put back, all the emojis were sent, so the encoder has taken one of *)
(* them, and is done with the users before.  The emojis separate the users *)
(* from the memberships if there are any.                                  *)
(*                                                                         *)
(* All that Generation decides is decided before the first line is sent,   *)
(* so that what is proved of BulkloadPipeline holds whatever is generated. *)
(* Of what is decided: choices are taken in proportion to their weights,   *)
(* direct channels are numbered pairs of users, and teams and channels get *)
(* the members they are to have, one after the other.                      *)
(***************************************************************************)
EXTENDS Generation, SequenceTheorems, FiniteSetTheorems, WellFoundedInduction,
        TLAPS

USE PipelineAssumption

(* The encoder is busy with a line object that it has received.            *)
BusyWithLine == busy => taken > 0

Typed == TypeOK /\ BusyWithLine

(* What is restored of a user is a sequence of numbers.                    *)
LEMMA JoinsNumbers ==
  ASSUME DataTypeOK, NEW u \in 1 .. NumUsers
  PROVE  Joins(u) \in Seq(Nat)
<1>1. users[u] \in Seq(Team)
  BY DEF DataTypeOK
<1>2. ASSUME NEW t \in DOMAIN users[u]
      PROVE  Len(users[u][t].channels) \in Nat
  <2>1. users[u][t] \in Team
    BY <1>1, <1>2
  <2>2. users[u][t].channels \in Seq(Channel)
    BY <2>1 DEF Team
  <2> QED
    BY <2>2
<1>3. DOMAIN users[u] = 1 .. Len(users[u]) /\ Len(users[u]) \in Nat
  BY <1>1
<1> QED
  BY <1>2, <1>3 DEF Joins

(* Every send, receive and write keeps the state within its types.         *)
LEMMA StaysTyped == Spec => []Typed
<1>1. Init => Typed
  <2> SUFFICES ASSUME Init
               PROVE  Typed
    OBVIOUS
  <2>1. lines \in Seq(Line) /\ Len(lines) = 0
    BY DEF Init, Start
  <2>2. output \in Seq([line : Line, full : BOOLEAN])
    BY DEF Init, Start
  <2>3. todo \in Seq(Nat)
    BY DEF Init, Start
  <2>4. restored \in 0 .. NumUsers /\ direct = 0 /\ taken = 0 /\ DataTypeOK
    BY DEF Init, Start
  <2>5. /\ closed \in BOOLEAN /\ returned \in BOOLEAN
        /\ busy \in BOOLEAN /\ sawFull \in BOOLEAN /\ ~ busy
    BY DEF Init, Start
  <2> QED
    BY <2>1, <2>2, <2>3, <2>4, <2>5 DEF Typed, TypeOK, DataTypeOK, BusyWithLine
<1>2. Typed /\ [Next]_vars => Typed'
  <2> SUFFICES ASSUME Typed, [Next]_vars
               PROVE  Typed'
    OBVIOUS
  <2> USE DEF Typed, TypeOK, BusyWithLine, sender, encoder
  <2>h. ASSUME NEW k \in Kind
        PROVE  Plain(k) \in Line
    BY DEF Plain, Line
  <2>d. ASSUME UNCHANGED data
        PROVE  DataTypeOK' /\ UNCHANGED directChannels
    BY <2>d DEF data, DataTypeOK
  <2>l. Len(directChannels) \in Nat
    BY DEF DataTypeOK
  <2>0. CASE Generate
    <3>1. Len(directChannels') \in Nat
      BY <2>0 DEF Generate, DataTypeOK
    <3> QED
      BY <2>0, <3>1 DEF Generate
  <2>1. CASE SendHead
    BY <2>1, <2>h, <2>d, <2>l DEF SendHead, Send, Kind
  <2>2. CASE SendUser
    <3>1. [kind |-> "user", user |-> Len(lines) - FirstUser + 1, count |-> 0] \in Line
      BY <2>2 DEF SendUser, Line, Kind, FirstUser, FirstEmoji
    <3> QED
      BY <2>2, <3>1, <2>d, <2>l DEF SendUser, Send
  <2>3. CASE SendEmoji
    BY <2>3, <2>h, <2>d, <2>l DEF SendEmoji, Send, Kind
  <2>4. CASE Restore
    <3>1. restored + 1 \in 1 .. NumUsers
      BY <2>4 DEF Restore
    <3>2. Joins(restored + 1) \in Seq(Nat)
      BY <3>1, JoinsNumbers
    <3> QED
      BY <2>4, <3>1, <3>2, <2>d, <2>l DEF Restore
  <2>5. CASE SendMembers
    <3> DEFINE count == IF Head(todo) < ChunkSize THEN Head(todo) ELSE ChunkSize
               left  == Head(todo) - count
    <3>1. /\ Head(todo) \in Nat
          /\ Tail(todo) \in Seq(Nat)
      BY <2>5 DEF SendMembers
    <3>2. count \in Nat /\ left \in Nat
      BY <3>1
    <3>3. [kind |-> "members", user |-> restored, count |-> count] \in Line
      BY <3>2 DEF Line, Kind
    <3>4. <<left>> \o Tail(todo) \in Seq(Nat)
      BY <3>1, <3>2
    <3>5. /\ lines' = Append(lines, [kind |-> "members", user |-> restored, count |-> count])
          /\ todo' = IF left > 0 THEN <<left>> \o Tail(todo) ELSE Tail(todo)
          /\ UNCHANGED <<restored, direct, closed, returned, taken, busy, sawFull, output>>
          /\ UNCHANGED data
      BY <2>5 DEF SendMembers, Send
    <3>6. todo' \in Seq(Nat)
      BY <3>1, <3>4, <3>5
    <3> HIDE DEF count
    <3>7. lines' \in Seq(Line) /\ taken' \in 0 .. Len(lines')
      BY <3>3, <3>5
    <3> QED
      BY <3>5, <3>6, <3>7, <2>d, <2>l
  <2>6. CASE SkipTeam
    BY <2>6, <2>d, <2>l DEF SkipTeam
  <2>7. CASE SendDirect
    BY <2>7, <2>h, <2>d, <2>l DEF SendDirect, Send, Kind
  <2>8. CASE Close
    BY <2>8, <2>d, <2>l DEF Close
  <2>9. CASE Return
    BY <2>9, <2>d, <2>l DEF Return
  <2>10. CASE Receive
    <3>1. Full(lines[taken + 1]) \in BOOLEAN
      BY DEF Full
    <3> QED
      BY <2>10, <3>1, <2>d, <2>l DEF Receive
  <2>11. CASE Encode
    <3>1. PICK full \in {sawFull, Full(lines[taken])} :
            output' = Append(output, [line |-> lines[taken], full |-> full])
      BY <2>11 DEF Encode
    <3>2. taken \in DOMAIN lines
      BY <2>11 DEF Encode
    <3>3. full \in BOOLEAN
      BY <3>1 DEF Full
    <3>4. [line |-> lines[taken], full |-> full] \in [line : Line, full : BOOLEAN]
      BY <3>2, <3>3
    <3>5. output' \in Seq([line : Line, full : BOOLEAN])
      BY <3>1, <3>4
    <3> QED
      BY <2>11, <3>5, <2>d, <2>l DEF Encode
  <2>12. CASE UNCHANGED vars
    BY <2>12, <2>d, <2>l DEF vars
  <2> QED
    BY <2>0, <2>1, <2>2, <2>3, <2>4, <2>5, <2>6, <2>7, <2>8, <2>9, <2>10, <2>11, <2>12
    DEF Next, Sender, Encoder
<1> QED
  BY <1>1, <1>2, PTL DEF Spec

(* The state stays within its types, through every send of either kind.    *)
THEOREM TypeCorrect == Spec => []TypeOK
  BY StaysTyped, PTL DEF Typed

(* Users come before the emojis, and from the first user that has its      *)
(* memberships back the emojis are all sent: then the encoder, at most     *)
(* Capacity lines behind, is past the users.                               *)
UsersFirst ==
  \A k \in DOMAIN lines :
    lines[k].kind = "user" => k <= FirstEmoji /\ lines[k].user > 0

RestoredLast == restored > 0 => Len(lines) >= FirstMember

EncoderBehind == Len(lines) - taken <= Capacity

BusyPlain == busy /\ lines[taken].kind = "user" => ~ sawFull

(* A line object the encoder has yet to receive or to encode holds no      *)
(* memberships if it is a user's.                                          *)
LEMMA PlainAhead ==
  ASSUME NumEmoji > Capacity, Typed, UsersFirst, RestoredLast, EncoderBehind,
         NEW k \in DOMAIN lines, k >= taken
  PROVE  ~ Full(lines[k])
<1> SUFFICES ASSUME Full(lines[k])
             PROVE  FALSE
  OBVIOUS
<1> USE DEF Typed, TypeOK
<1>1. lines[k].kind = "user" /\ lines[k].user <= restored
  BY DEF Full
<1>2. k <= FirstEmoji /\ lines[k].user > 0
  BY <1>1 DEF UsersFirst
<1>3. restored > 0
  <2>1. lines[k].user \in Nat
    <3>1. lines[k] \in Line
      OBVIOUS
    <3> QED
      BY <3>1 DEF Line
  <2> QED
    BY <1>1, <1>2, <2>1
<1>4. Len(lines) >= FirstMember /\ Len(lines) - taken <= Capacity
  BY <1>3 DEF RestoredLast, EncoderBehind
<1> QED
  BY <1>2, <1>4 DEF FirstMember, FirstEmoji, FirstUser

(* With more emojis than the channel holds, no user line comes with        *)
(* memberships, however the two goroutines interleave.                     *)
THEOREM UsersPlain == NumEmoji > Capacity => (Spec => []PlainUserLines)
<1> SUFFICES ASSUME NumEmoji > Capacity
             PROVE  Spec => []PlainUserLines
  OBVIOUS
<1>1. Init => UsersFirst /\ RestoredLast /\ EncoderBehind /\ BusyPlain /\ PlainUserLines
  BY DEF Init, Start, UsersFirst, RestoredLast, EncoderBehind, BusyPlain, PlainUserLines
<1>2. ASSUME Typed, Typed', UsersFirst, RestoredLast, EncoderBehind, BusyPlain,
             PlainUserLines, [Next]_vars
      PROVE  /\ UsersFirst' /\ RestoredLast' /\ EncoderBehind'
             /\ BusyPlain' /\ PlainUserLines'
  <2> USE <1>2 DEF Typed, TypeOK, BusyWithLine, sender, encoder
  <2>s. ASSUME NEW line \in Line, Send(line), UNCHANGED encoder,
               line.kind = "user" => Len(lines) < FirstEmoji /\ line.user > 0
        PROVE  UsersFirst' /\ EncoderBehind' /\ BusyPlain' /\ PlainUserLines'
    <3>1. /\ lines' = Append(lines, line)
          /\ Len(lines') = Len(lines) + 1
          /\ Len(lines) - taken < Capacity
      BY <2>s DEF Send
    <3>2. UsersFirst'
      <4> SUFFICES ASSUME NEW k \in DOMAIN lines', lines'[k].kind = "user"
                   PROVE  k <= FirstEmoji /\ lines'[k].user > 0
        BY DEF UsersFirst, FirstEmoji, FirstUser
      <4>1. CASE k = Len(lines) + 1
        BY <3>1, <2>s, <4>1 DEF FirstEmoji, FirstUser
      <4>2. CASE k \in DOMAIN lines
        <5>1. lines'[k] = lines[k]
          BY <3>1, <4>2
        <5>2. lines[k].kind = "user"
          BY <5>1
        <5> QED
          BY <4>2, <5>1, <5>2, <1>2, Zenon DEF UsersFirst
      <4>3. /\ DOMAIN lines' = 1 .. Len(lines) + 1
            /\ DOMAIN lines = 1 .. Len(lines)
            /\ Len(lines) \in Nat
        BY <3>1
      <4>4. k = Len(lines) + 1 \/ k \in DOMAIN lines
        <5>1. k \in 1 .. Len(lines) + 1
          BY <4>3
        <5> HIDE <1>2 DEF Typed, TypeOK
        <5> QED
          BY <5>1, <4>3
      <4> QED
        BY <4>1, <4>2, <4>4, Zenon
    <3>3. EncoderBehind'
      BY <3>1, <2>s DEF EncoderBehind
    <3>4. BusyPlain'
      BY <3>1, <2>s DEF BusyPlain
    <3>5. PlainUserLines'
      BY <2>s DEF PlainUserLines
    <3> QED
      BY <3>2, <3>3, <3>4, <3>5
  <2>h. ASSUME NEW k \in Kind \ {"user"}
        PROVE  Plain(k) \in Line /\ Plain(k).kind # "user"
    BY DEF Plain, Line
  <2>q. ASSUME UNCHANGED <<lines, encoder>>
        PROVE  UsersFirst' /\ EncoderBehind' /\ BusyPlain' /\ PlainUserLines'
    BY <2>q DEF UsersFirst, EncoderBehind, BusyPlain, PlainUserLines, FirstEmoji, FirstUser
  <2>r. ASSUME UNCHANGED restored, Len(lines') >= Len(lines)
        PROVE  RestoredLast'
    BY <2>r DEF RestoredLast, FirstMember, FirstEmoji, FirstUser
  <2>0. CASE Generate
    BY <2>0, <2>q, <2>r DEF Generate
  <2>1. CASE SendHead
    <3>1. Plain("head") \in Line /\ Plain("head").kind # "user"
      BY <2>h DEF Kind
    <3> QED
      BY <2>1, <3>1, <2>s, <2>r DEF SendHead, Send
  <2>2. CASE SendUser
    <3> DEFINE line == [kind |-> "user", user |-> Len(lines) - FirstUser + 1, count |-> 0]
    <3>a. Len(lines) >= FirstUser /\ Len(lines) < FirstEmoji
      BY <2>2 DEF SendUser, FirstUser, FirstEmoji
    <3>b. Len(lines) - FirstUser + 1 \in 1 .. NumUsers
      BY <3>a DEF FirstUser, FirstEmoji
    <3>c. line \in Line /\ line.user > 0
      <4>1. "user" \in Kind /\ line.user \in 0 .. NumUsers /\ line.user > 0
        BY <3>b DEF Kind
      <4> QED
        BY <4>1 DEF Line
    <3>1. line \in Line /\ Len(lines) < FirstEmoji /\ line.user > 0
      BY <3>a, <3>c
    <3>2. Send(line) /\ UNCHANGED encoder /\ UNCHANGED restored
      BY <2>2 DEF SendUser
    <3> HIDE DEF line
    <3> QED
      BY <3>1, <3>2, <2>s, <2>r DEF Send
  <2>3. CASE SendEmoji
    <3>1. Plain("emoji") \in Line /\ Plain("emoji").kind # "user"
      BY <2>h DEF Kind
    <3> QED
      BY <2>3, <3>1, <2>s, <2>r DEF SendEmoji, Send
  <2>4. CASE Restore
    BY <2>4, <2>q DEF Restore, RestoredLast, FirstMember, FirstEmoji, FirstUser
  <2>5. CASE SendMembers
    <3>1. PICK count \in Nat :
            /\ Send([kind |-> "members", user |-> restored, count |-> count])
            /\ UNCHANGED encoder /\ UNCHANGED restored
      <4>1. Head(todo) \in Nat
        BY <2>5 DEF SendMembers
      <4> QED
        BY <2>5, <4>1 DEF SendMembers
    <3> DEFINE line == [kind |-> "members", user |-> restored, count |-> count]
    <3>2. line \in Line /\ line.kind # "user"
      BY DEF Line, Kind
    <3>3. Send(line)
      BY <3>1
    <3> HIDE DEF line
    <3>4. UsersFirst' /\ EncoderBehind' /\ BusyPlain' /\ PlainUserLines'
      BY <3>1, <3>2, <3>3, <2>s
    <3>5. RestoredLast'
      BY <3>1, <3>2, <3>3, <2>r DEF Send
    <3> QED
      BY <3>4, <3>5
  <2>6. CASE SkipTeam
    BY <2>6, <2>q, <2>r DEF SkipTeam
  <2>7. CASE SendDirect
    <3>1. Plain("direct") \in Line /\ Plain("direct").kind # "user"
      BY <2>h DEF Kind
    <3> QED
      BY <2>7, <3>1, <2>s, <2>r DEF SendDirect, Send
  <2>8. CASE Close
    BY <2>8, <2>q, <2>r DEF Close
  <2>9. CASE Return
    BY <2>9, <2>q, <2>r DEF Return
  <2>10. CASE Receive
    <3>1. /\ taken + 1 \in DOMAIN lines
          /\ taken' = taken + 1
          /\ sawFull' = Full(lines[taken + 1])
          /\ UNCHANGED <<sender, output>>
      BY <2>10 DEF Receive
    <3>2. ~ Full(lines[taken + 1])
      BY <3>1, <1>2, PlainAhead
    <3> QED
      BY <3>1, <3>2, <2>r
      DEF UsersFirst, EncoderBehind, BusyPlain, PlainUserLines, FirstEmoji, FirstUser
  <2>11. CASE Encode
    <3>1. /\ busy /\ ~ busy'
          /\ taken \in DOMAIN lines
          /\ UNCHANGED <<sender, taken, sawFull>>
      BY <2>11 DEF Encode
    <3>2. PICK full \in {sawFull, Full(lines[taken])} :
            output' = Append(output, [line |-> lines[taken], full |-> full])
      BY <2>11 DEF Encode
    <3>3. lines[taken].kind = "user" => ~ full
      BY <3>1, <3>2, <1>2, PlainAhead DEF BusyPlain
    <3>4. PlainUserLines'
      <4> SUFFICES ASSUME NEW k \in DOMAIN output', output'[k].line.kind = "user"
                   PROVE  ~ output'[k].full
        BY DEF PlainUserLines
      <4>1. CASE k = Len(output) + 1
        <5>1. output'[k] = [line |-> lines[taken], full |-> full]
          BY <3>2, <4>1
        <5> QED
          BY <3>3, <5>1
      <4>2. CASE k \in DOMAIN output
        <5>1. output'[k] = output[k]
          BY <3>2, <4>2
        <5> QED
          BY <4>2, <5>1, <1>2 DEF PlainUserLines
      <4>3. DOMAIN output' = 1 .. Len(output) + 1 /\ DOMAIN output = 1 .. Len(output)
        BY <3>2
      <4> QED
        BY <4>1, <4>2, <4>3
    <3>5. UsersFirst' /\ EncoderBehind' /\ BusyPlain'
      BY <3>1 DEF UsersFirst, EncoderBehind, BusyPlain, FirstEmoji, FirstUser
    <3> QED
      BY <3>1, <3>4, <3>5, <2>r
  <2>12. CASE UNCHANGED vars
    BY <2>12, <2>q, <2>r DEF vars
  <2> QED
    BY <2>0, <2>1, <2>2, <2>3, <2>4, <2>5, <2>6, <2>7, <2>8, <2>9, <2>10, <2>11, <2>12
    DEF Next, Sender, Encoder
<1> QED
  BY <1>1, <1>2, StaysTyped, PTL DEF Spec

-----------------------------------------------------------------------------

(* What line object k can be: the users and the emojis have places of      *)
(* their own, and memberships come after them.                             *)
InPlace(k, line) ==
  /\ line.kind = "members" => k > FirstMember /\ line.user \in 1 .. NumUsers
  /\ k \in FirstUser + 1 .. FirstEmoji => line.kind = "user" /\ line.user = k - FirstUser
  /\ k \in FirstEmoji + 1 .. FirstMember => line.kind = "emoji"

Layout == \A k \in DOMAIN lines : InPlace(k, lines[k])

(* Memberships are sent once the lines before them are.                    *)
MembersLate == todo # <<>> => Len(lines) >= FirstMember /\ restored > 0

(* What is written is what was sent, in that order.                        *)
InOrder ==
  /\ Len(output) = IF busy THEN taken - 1 ELSE taken
  /\ \A k \in DOMAIN output : output[k].line = lines[k]

LEMMA LinesInOrder == Spec => [](Layout /\ MembersLate /\ InOrder)
<1> DEFINE Inv == Layout /\ MembersLate /\ InOrder
<1> USE DEF Typed, TypeOK, BusyWithLine
<1>1. Init => Inv
  BY DEF Init, Start, Layout, MembersLate, InOrder
<1>n. FirstUser \in Nat /\ FirstEmoji \in Nat /\ FirstMember \in Nat
      /\ FirstUser <= FirstEmoji /\ FirstEmoji <= FirstMember
  BY DEF FirstUser, FirstEmoji, FirstMember
<1>k. ASSUME NEW n \in Nat, NEW k \in 1 .. n + 1
      PROVE  k = n + 1 \/ k \in 1 .. n
  OBVIOUS
<1>2. ASSUME Typed, Typed', Inv, [Next]_vars
      PROVE  Inv'
  <2> USE <1>2
  <2>f. FirstUser' = FirstUser /\ FirstEmoji' = FirstEmoji /\ FirstMember' = FirstMember
    BY DEF FirstUser, FirstEmoji, FirstMember
  <2>s. ASSUME NEW line, Send(line), UNCHANGED encoder, InPlace(Len(lines) + 1, line),
               todo' # <<>> => todo # <<>> /\ restored' = restored
        PROVE  Inv'
    <3>1. /\ Len(lines) \in Nat /\ Len(lines') = Len(lines) + 1
          /\ DOMAIN lines' = 1 .. Len(lines) + 1 /\ DOMAIN lines = 1 .. Len(lines)
          /\ \A k \in 1 .. Len(lines) : lines'[k] = lines[k]
          /\ lines'[Len(lines) + 1] = line
      <4>1. lines \in Seq(Line) /\ lines' \in Seq(Line) /\ lines' = Append(lines, line)
        BY <2>s DEF Send
      <4> HIDE DEF Typed, TypeOK
      <4> HIDE <1>2
      <4> QED
        BY <4>1
    <3>2. Layout'
      <4>1. ASSUME NEW k \in 1 .. Len(lines) + 1
            PROVE  InPlace(k, lines'[k])
        <5>1. CASE k = Len(lines) + 1
          BY <2>s, <3>1, <5>1
        <5>2. CASE k \in 1 .. Len(lines)
          <6>1. k \in DOMAIN lines /\ lines'[k] = lines[k]
            BY <3>1, <5>2
          <6>2. Layout
            OBVIOUS
          <6> HIDE DEF Typed, TypeOK
          <6> HIDE <1>2
          <6> QED
            BY <6>1, <6>2 DEF Layout
        <5> QED
          BY <1>k, <3>1, <5>1, <5>2
      <4>2. \A k \in DOMAIN lines' : InPlace(k, lines'[k])
        BY <3>1, <4>1
      <4>3. Layout' <=> \A k \in DOMAIN lines' : InPlace(k, lines'[k])
        <5> HIDE DEF Typed, TypeOK
        <5> HIDE <1>2
        <5> QED
          BY <2>f DEF Layout, InPlace
      <4> QED
        BY <4>2, <4>3
    <3>3. MembersLate'
      BY <2>s, <3>1, <1>n, <2>f DEF MembersLate
    <3>4. InOrder'
      <4>1. UNCHANGED <<output, busy, taken>> /\ taken <= Len(lines) /\ taken \in Nat
        BY <2>s DEF encoder
      <4>2. Len(output) <= Len(lines) /\ Len(output) \in Nat
        BY <4>1, <3>1 DEF InOrder
      <4>3. \A k \in DOMAIN output : k \in 1 .. Len(lines)
        BY <4>2, <3>1
      <4> QED
        BY <3>1, <4>1, <4>3 DEF InOrder
    <3> QED
      BY <3>2, <3>3, <3>4
  <2>q. ASSUME UNCHANGED <<lines, encoder>>, MembersLate'
        PROVE  Inv'
    BY <2>q, <2>f DEF Layout, InPlace, InOrder, encoder
  <2>0. CASE Generate
    BY <2>0, <2>q, <2>f DEF Generate, sender, encoder, MembersLate
  <2>1. CASE SendHead
    <3>1. InPlace(Len(lines) + 1, Plain("head"))
      BY <2>1, <1>n DEF SendHead, InPlace, Plain
    <3> QED
      BY <2>1, <3>1, <2>s DEF SendHead
  <2>2. CASE SendUser
    <3> DEFINE line == [kind |-> "user", user |-> Len(lines) - FirstUser + 1, count |-> 0]
    <3>1. Len(lines) >= FirstUser /\ Len(lines) < FirstEmoji /\ Len(lines) \in Nat
      BY <2>2, <1>n DEF SendUser
    <3>2. line.kind = "user" /\ line.user = Len(lines) + 1 - FirstUser
      BY <3>1, <1>n
    <3>3. Send(line) /\ UNCHANGED <<todo, restored, encoder>>
      BY <2>2 DEF SendUser
    <3> HIDE DEF line
    <3>4. InPlace(Len(lines) + 1, line)
      BY <3>1, <3>2, <1>n DEF InPlace
    <3> QED
      BY <3>3, <3>4, <2>s
  <2>3. CASE SendEmoji
    <3>1. InPlace(Len(lines) + 1, Plain("emoji"))
      BY <2>3, <1>n DEF SendEmoji, InPlace, Plain
    <3> QED
      BY <2>3, <3>1, <2>s DEF SendEmoji
  <2>4. CASE Restore
    BY <2>4, <2>q, <2>f DEF Restore, MembersLate
  <2>5. CASE SendMembers
    <3>1. PICK count \in Int : Send([kind |-> "members", user |-> restored, count |-> count])
      <4>1. Head(todo) \in Nat
        BY <2>5, SMTT(30) DEF SendMembers
      <4> QED
        BY <2>5, <4>1 DEF SendMembers
    <3> DEFINE line == [kind |-> "members", user |-> restored, count |-> count]
    <3>2. /\ Len(lines) >= FirstMember /\ restored \in 1 .. NumUsers
          /\ UNCHANGED <<restored, encoder>> /\ todo # <<>>
      BY <2>5 DEF SendMembers, MembersLate
    <3>3. line.kind = "members" /\ line.user = restored /\ Send(line)
      BY <3>1
    <3> HIDE DEF line
    <3>4. InPlace(Len(lines) + 1, line)
      BY <3>2, <3>3, <1>n DEF InPlace
    <3> QED
      BY <3>2, <3>3, <3>4, <2>s
  <2>6. CASE SkipTeam
    BY <2>6, <2>q, <2>f DEF SkipTeam, MembersLate
  <2>7. CASE SendDirect
    <3>1. InPlace(Len(lines) + 1, Plain("direct"))
      BY <2>7, <1>n DEF SendDirect, MembersSent, InPlace, Plain
    <3> QED
      BY <2>7, <3>1, <2>s DEF SendDirect
  <2>8. CASE Close \/ Return
    BY <2>8, <2>q, <2>f DEF Close, Return, MembersLate
  <2>9. CASE Receive
    <3>1. UNCHANGED <<lines, todo, restored, output>> /\ ~ busy /\ busy' /\ taken' = taken + 1
      BY <2>9 DEF Receive, sender
    <3> QED
      BY <3>1, <2>f DEF Layout, InPlace, MembersLate, InOrder
  <2>10. CASE Encode
    <3>1. PICK full \in BOOLEAN : output' = Append(output, [line |-> lines[taken], full |-> full])
      BY <2>10 DEF Encode, Full
    <3>2. /\ UNCHANGED <<lines, todo, restored, taken>> /\ busy /\ ~ busy'
      BY <2>10 DEF Encode, sender
    <3>3. Layout' /\ MembersLate'
      BY <3>2, <2>f DEF Layout, InPlace, MembersLate
    <3>4. Len(output) = taken - 1 /\ taken \in Nat
      BY <3>2 DEF InOrder
    <3>5. InOrder'
      <4>1. /\ Len(output') = taken /\ output'[taken] = [line |-> lines[taken], full |-> full]
            /\ \A k \in DOMAIN output : output'[k] = output[k]
            /\ DOMAIN output' = 1 .. taken /\ DOMAIN output = 1 .. taken - 1
        BY <3>1, <3>4
      <4>2. output'[taken].line = lines[taken]
        BY <4>1
      <4>3. \A k \in 1 .. taken : k = taken \/ k \in 1 .. taken - 1
        BY <3>4
      <4> QED
        BY <3>2, <4>1, <4>2, <4>3 DEF InOrder
    <3> QED
      BY <3>3, <3>5
  <2>11. CASE UNCHANGED vars
    BY <2>11, <2>q, <2>f DEF vars, sender, encoder, MembersLate
  <2> QED
    BY <2>0, <2>1, <2>2, <2>3, <2>4, <2>5, <2>6, <2>7, <2>8, <2>9, <2>10, <2>11
    DEF Next, Sender, Encoder
<1> QED
  BY <1>1, <1>2, StaysTyped, PTL DEF Spec

(* With any emoji at all, a line of another type stands between the line   *)
(* that creates a user and those with its memberships (bulkload.go, lines  *)
(* 687 to 690): the emojis have their places between all users and all     *)
(* memberships.                                                            *)
THEOREM MembersBehindBarrier == NumEmoji > 0 => (Spec => []Barrier)
<1> SUFFICES ASSUME NumEmoji > 0
             PROVE  Spec => []Barrier
  OBVIOUS
<1>1. ASSUME Typed, Layout, InOrder
      PROVE  Barrier
  <2> SUFFICES ASSUME NEW k \in DOMAIN output, output[k].line.kind = "members"
               PROVE  \E c \in 1 .. k - 1 :
                        /\ output[c].line.kind = "user"
                        /\ output[c].line.user = output[k].line.user
                        /\ \E b \in c + 1 .. k - 1 :
                             output[b].line.kind \notin {"user", "members"}
    BY DEF Barrier
  <2> DEFINE u == output[k].line.user
             c == FirstUser + u
             b == FirstEmoji + 1
  <2>1. /\ DOMAIN output = 1 .. Len(output) /\ Len(output) \in Nat
        /\ Len(output) <= Len(lines) /\ DOMAIN lines = 1 .. Len(lines)
    BY <1>1 DEF Typed, TypeOK, InOrder
  <2>2. \A j \in DOMAIN output : output[j].line = lines[j] /\ InPlace(j, lines[j])
    BY <1>1, <2>1 DEF InOrder, Layout
  <2>3. k > FirstMember /\ u \in 1 .. NumUsers
    BY <2>2 DEF InPlace
  <2> HIDE DEF u
  <2>4. /\ c \in 1 .. k - 1 /\ b \in c + 1 .. k - 1
        /\ c \in FirstUser + 1 .. FirstEmoji /\ b \in FirstEmoji + 1 .. FirstMember
        /\ c - FirstUser = u
    BY <2>1, <2>3 DEF FirstUser, FirstEmoji, FirstMember
  <2>5. c \in DOMAIN output /\ b \in DOMAIN output
    BY <2>1, <2>4
  <2> HIDE DEF c, b
  <2>6. /\ output[c].line.kind = "user" /\ output[c].line.user = u
        /\ output[b].line.kind = "emoji"
    BY <2>2, <2>4, <2>5 DEF InPlace
  <2> QED
    BY <2>4, <2>6 DEF u
<1> QED
  BY <1>1, LinesInOrder, StaysTyped, PTL

-----------------------------------------------------------------------------

(* A set of numbers with zero, and with the successor of each of its       *)
(* numbers, has them all: the least number it lacks would have a           *)
(* predecessor.                                                            *)
LEMMA Induction ==
  ASSUME NEW S, 0 \in S, \A n \in Nat : n \in S => n + 1 \in S
  PROVE  Nat \subseteq S
<1> DEFINE T == {n \in Nat : n \notin S}
           R == OpToRel(<, Nat)
<1>1. SUFFICES ASSUME T # {}
               PROVE  FALSE
  OBVIOUS
<1>2. IsWellFoundedOn(R, Nat)
  BY NatLessThanWellFounded
<1>3. T \subseteq Nat
  OBVIOUS
<1>4. PICK x \in T : \A y \in T : <<y, x>> \notin R
  <2> HIDE DEF T, R
  <2> QED
    BY <1>1, <1>2, <1>3, WFMin
<1>5. x \in Nat /\ x # 0
  OBVIOUS
<1>6. x - 1 \in Nat /\ (x - 1 \in S => x \in S)
  BY <1>5
<1>7. <<x - 1, x>> \in R
  BY <1>5, <1>6 DEF OpToRel
<1>8. x \notin S /\ x - 1 \notin T
  <2> HIDE DEF R
  <2> QED
    BY <1>4, <1>7
<1> QED
  BY <1>6, <1>8

(* From f[i] on, f adds up the first n elements of s.                      *)
Adds(f, i, s, n) ==
  /\ f[i] \in Int
  /\ \A m \in 1 .. n : s[m] \in Int /\ f[i + m] = f[i + m - 1] + s[m]

(* A sum grows element by element: there is a function that satisfies the  *)
(* equation in the definition of Total.                                    *)
LEMMA TotalUnfolds ==
  ASSUME NEW s \in Seq(Int)
  PROVE  \E f : Total(s) = f[Len(s)] /\ f[0] = 0 /\ Adds(f, 0, s, Len(s))
<1> DEFINE Step(g, n) == IF n = 0 THEN 0 ELSE g[n - 1] + s[n]
           Defined == {n \in Nat : \E g : g = [m \in 0 .. n |-> Step(g, m)]}
<1>1. 0 \in Defined
  <2>1. [m \in 0 .. 0 |-> 0] = [m \in 0 .. 0 |-> Step([k \in 0 .. 0 |-> 0], m)]
    OBVIOUS
  <2> QED
    BY <2>1
<1>2. ASSUME NEW n \in Nat, n \in Defined
      PROVE  n + 1 \in Defined
  <2>1. PICK g : g = [m \in 0 .. n |-> Step(g, m)]
    BY <1>2
  <2> DEFINE h == [m \in 0 .. n + 1 |-> IF m = n + 1 THEN Step(g, m) ELSE g[m]]
  <2>2. \A m \in 0 .. n + 1 : h[m] = Step(h, m)
    <3>1. ASSUME NEW m \in 0 .. n + 1
          PROVE  h[m] = Step(h, m)
      <4>1. CASE m = 0
        BY <2>1, <4>1
      <4>2. CASE m = n + 1
        BY <2>1, <4>2
      <4>3. CASE m \in 1 .. n
        <5>1. h[m] = g[m] /\ h[m - 1] = g[m - 1]
          BY <4>3
        <5>2. g[m] = Step(g, m)
          BY <2>1, <4>3
        <5> QED
          BY <4>3, <5>1, <5>2
      <4> QED
        BY <4>1, <4>2, <4>3
    <3> QED
      BY <3>1
  <2>3. h = [m \in 0 .. n + 1 |-> Step(h, m)]
    BY <2>2
  <2> HIDE DEF h
  <2> HIDE DEF Step
  <2>4. \E next : next = [m \in 0 .. n + 1 |-> Step(next, m)]
    BY <2>3, Zenon
  <2>5. n + 1 \in Nat
    OBVIOUS
  <2> QED
    BY <2>4, <2>5, Zenon
<1>3. Len(s) \in Nat
  OBVIOUS
<1> HIDE DEF Step, Defined
<1>4. Nat \subseteq Defined
  BY <1>1, <1>2, Induction
<1>5. \E g : g = [m \in 0 .. Len(s) |-> Step(g, m)]
  BY <1>3, <1>4 DEF Defined
<1> DEFINE f == CHOOSE g : g = [m \in 0 .. Len(s) |-> Step(g, m)]
<1>6. Total(s) = f[Len(s)]
  BY Zenon DEF Total, Step
<1>7. f = [m \in 0 .. Len(s) |-> Step(f, m)]
  BY <1>5, Zenon
<1> HIDE DEF f
<1>8. \A m \in 0 .. Len(s) : f[m] = Step(f, m)
  BY <1>7
<1>9. f[0] = 0 /\ \A m \in 1 .. Len(s) : f[m] = f[m - 1] + s[m]
  BY <1>3, <1>8 DEF Step
<1>10. Adds(f, 0, s, Len(s))
  BY <1>9 DEF Adds
<1> QED
  BY <1>6, <1>9, <1>10

(* Sums of the same numbers keep their distance.                           *)
LEMMA SameSteps ==
  \A n, i, j, s, f, g :
    /\ n \in Nat /\ i \in Nat /\ j \in Nat
    /\ Adds(f, i, s, n) /\ Adds(g, j, s, n)
    => f[i + n] \in Int /\ g[j + n] \in Int /\ g[j + n] - g[j] = f[i + n] - f[i]
<1> SUFFICES ASSUME NEW n \in Nat, NEW i \in Nat, NEW j \in Nat, NEW s, NEW f, NEW g,
                    Adds(f, i, s, n), Adds(g, j, s, n)
             PROVE  f[i + n] \in Int /\ g[j + n] \in Int /\ g[j + n] - g[j] = f[i + n] - f[i]
  OBVIOUS
<1> DEFINE d == g[j] - f[i]
<1>d. d \in Int /\ f[i] \in Int /\ g[j] \in Int /\ g[j] = f[i] + d
  BY DEF Adds
<1> HIDE DEF d
<1> DEFINE S == {m \in Nat : m <= n => f[i + m] \in Int /\ g[j + m] = f[i + m] + d}
<1>1. 0 \in S
  BY <1>d
<1>2. ASSUME NEW m \in Nat, m \in S
      PROVE  m + 1 \in S
  <2>1. CASE m + 1 > n
    BY <2>1
  <2>2. CASE m + 1 <= n
    <3>1. f[i + m] \in Int /\ g[j + m] = f[i + m] + d
      BY <1>2, <2>2
    <3>2. m + 1 \in 1 .. n /\ i + (m + 1) - 1 = i + m /\ j + (m + 1) - 1 = j + m
      BY <2>2
    <3>3. /\ f[i + (m + 1)] = f[i + m] + s[m + 1]
          /\ g[j + (m + 1)] = g[j + m] + s[m + 1]
          /\ s[m + 1] \in Int
      BY <3>2 DEF Adds
    <3> QED
      BY <1>d, <3>1, <3>3
  <2> QED
    BY <2>1, <2>2
<1> HIDE DEF S
<1>3. Nat \subseteq S
  BY <1>1, <1>2, Induction
<1>4. n \in S
  BY <1>3
<1> QED
  BY <1>4, <1>d DEF S

(* The sums of no number, of numbers that are all zero, and of one number  *)
(* more, at the end or at the beginning.                                   *)
LEMMA TotalEmpty == Total(<<>>) = 0
<1>1. <<>> \in Seq(Int) /\ Len(<<>>) = 0
  OBVIOUS
<1> QED
  BY <1>1, TotalUnfolds

LEMMA TotalInt ==
  ASSUME NEW s \in Seq(Int)
  PROVE  Total(s) \in Int
<1>1. PICK f : Total(s) = f[Len(s)] /\ f[0] = 0 /\ Adds(f, 0, s, Len(s))
  BY TotalUnfolds
<1>2. /\ Len(s) \in Nat /\ 0 \in Nat /\ 0 \in Int
      /\ Len(s) = 0 + Len(s) /\ f[0] = f[0] + 0
  BY <1>1
<1>3. f[Len(s)] \in Int
  BY <1>1, <1>2, SameSteps
<1> QED
  BY <1>1, <1>2, <1>3

LEMMA TotalZero ==
  ASSUME NEW s \in Seq(Int), \A n \in 1 .. Len(s) : s[n] = 0
  PROVE  Total(s) = 0
<1>1. PICK f : Total(s) = f[Len(s)] /\ f[0] = 0 /\ Adds(f, 0, s, Len(s))
  BY TotalUnfolds
<1> DEFINE zero == [n \in Nat |-> 0]
<1>2. /\ Len(s) \in Nat /\ 0 \in Nat /\ 0 \in Int /\ Len(s) = 0 + Len(s)
      /\ zero[0] \in Int /\ zero[Len(s)] = 0 /\ f[0] = zero[0] + 0
  BY <1>1
<1>3. Adds(zero, 0, s, Len(s))
  BY DEF Adds
<1> HIDE DEF zero
<1>4. f[Len(s)] = zero[Len(s)] + 0
  BY <1>1, <1>2, <1>3, SameSteps
<1> QED
  BY <1>1, <1>2, <1>4

LEMMA TotalAppend ==
  ASSUME NEW s \in Seq(Int), NEW x \in Int
  PROVE  Total(Append(s, x)) = Total(s) + x
<1> DEFINE t == Append(s, x)
<1>1. /\ t \in Seq(Int) /\ Len(s) \in Nat /\ Len(t) = Len(s) + 1 /\ Len(s) = 0 + Len(s)
      /\ \A n \in 1 .. Len(s) : t[n] = s[n]
      /\ t[Len(s) + 1] = x
  OBVIOUS
<1> HIDE DEF t
<1>2. PICK f : Total(s) = f[Len(s)] /\ f[0] = 0 /\ Adds(f, 0, s, Len(s))
  BY TotalUnfolds
<1>3. PICK g : Total(t) = g[Len(t)] /\ g[0] = 0 /\ Adds(g, 0, t, Len(t))
  BY <1>1, TotalUnfolds
<1>4. Adds(g, 0, s, Len(s))
  <2>1. g[0] \in Int
    BY <1>3
  <2>2. ASSUME NEW m \in 1 .. Len(s)
        PROVE  s[m] \in Int /\ g[0 + m] = g[0 + m - 1] + s[m]
    <3>1. m \in 1 .. Len(t) /\ t[m] = s[m]
      BY <1>1
    <3> QED
      BY <1>3, <3>1 DEF Adds
  <2> QED
    BY <2>1, <2>2 DEF Adds
<1>5. g[Len(s)] = f[Len(s)] + 0 /\ f[Len(s)] \in Int
  <2>1. g[0] = f[0] + 0
    BY <1>2, <1>3
  <2>2. Len(s) \in Nat /\ 0 \in Nat /\ 0 \in Int /\ Len(s) = 0 + Len(s)
    BY <1>1
  <2> QED
    BY <1>2, <1>4, <2>1, <2>2, SameSteps
<1>6. g[Len(s) + 1] = g[Len(s)] + x
  BY <1>1, <1>3 DEF Adds
<1> QED
  BY <1>1, <1>2, <1>3, <1>5, <1>6 DEF t

LEMMA TotalHead ==
  ASSUME NEW s \in Seq(Int), s # <<>>
  PROVE  Total(s) = Head(s) + Total(Tail(s))
<1> DEFINE t == Tail(s)
<1>1. /\ t \in Seq(Int) /\ Len(t) \in Nat /\ Len(s) = 1 + Len(t) /\ Len(t) = 0 + Len(t)
      /\ \A n \in 1 .. Len(t) : t[n] = s[n + 1]
      /\ Head(s) = s[1] /\ Head(s) \in Int
  OBVIOUS
<1> HIDE DEF t
<1>2. PICK f : Total(t) = f[Len(t)] /\ f[0] = 0 /\ Adds(f, 0, t, Len(t))
  BY <1>1, TotalUnfolds
<1>3. PICK g : Total(s) = g[Len(s)] /\ g[0] = 0 /\ Adds(g, 0, s, Len(s))
  BY TotalUnfolds
<1>4. g[1] = f[0] + Head(s)
  BY <1>1, <1>2, <1>3 DEF Adds
<1>5. Adds(g, 1, t, Len(t))
  <2>1. ASSUME NEW m \in 1 .. Len(t)
        PROVE  t[m] \in Int /\ g[1 + m] = g[1 + m - 1] + t[m]
    <3>1. m + 1 \in 1 .. Len(s) /\ t[m] = s[m + 1]
      BY <1>1
    <3>2. s[m + 1] \in Int /\ g[0 + (m + 1)] = g[0 + (m + 1) - 1] + s[m + 1]
      BY <1>3, <3>1 DEF Adds
    <3> QED
      BY <3>1, <3>2
  <2>2. g[1] \in Int
    BY <1>1, <1>2, <1>4
  <2> QED
    BY <2>1, <2>2 DEF Adds
<1>6. g[Len(s)] = f[Len(t)] + Head(s) /\ f[Len(t)] \in Int
  <2>1. /\ Len(t) \in Nat /\ 0 \in Nat /\ 1 \in Nat /\ Head(s) \in Int
        /\ Len(t) = 0 + Len(t) /\ Len(s) = 1 + Len(t)
    BY <1>1
  <2> QED
    BY <1>2, <1>4, <1>5, <2>1, SameSteps
<1> QED
  BY <1>1, <1>2, <1>3, <1>6 DEF t

-----------------------------------------------------------------------------

(* Memberships are put back once the emojis are sent, and only those put   *)
(* back are on lines.                                                      *)
PutBackLate == restored > 0 => lines # <<>>
OnlyRestored == \A k \in DOMAIN lines : lines[k].kind = "members" => lines[k].user <= restored

(* What is in a sequence that has one element more.                        *)
LEMMA AppendParts ==
  ASSUME NEW S, NEW s \in Seq(S), NEW x \in S
  PROVE  /\ Append(s, x) # <<>> /\ Len(s) \in Nat
         /\ DOMAIN s = 1 .. Len(s) /\ DOMAIN Append(s, x) = 1 .. Len(s) + 1
         /\ \A k \in 1 .. Len(s) : Append(s, x)[k] = s[k]
         /\ Append(s, x)[Len(s) + 1] = x
<1>1. Len(s) \in Nat /\ DOMAIN s = 1 .. Len(s)
  OBVIOUS
<1>2. Append(s, x) # <<>> /\ DOMAIN Append(s, x) = 1 .. Len(s) + 1
  <2>1. Append(s, x) \in Seq(S) /\ Len(Append(s, x)) = Len(s) + 1
    OBVIOUS
  <2> QED
    BY <1>1, <2>1
<1>3. \A k \in 1 .. Len(s) : Append(s, x)[k] = s[k]
  OBVIOUS
<1>4. Append(s, x)[Len(s) + 1] = x
  OBVIOUS
<1> QED
  BY <1>1, <1>2, <1>3, <1>4

(* One element more at the end, or at the beginning.                       *)
LEMMA AppendAsFunction ==
  ASSUME NEW s \in Seq(Int), NEW x \in Int
  PROVE  Append(s, x) = [k \in 1 .. Len(s) + 1 |-> IF k = Len(s) + 1 THEN x ELSE s[k]]
<1> DEFINE t == [k \in 1 .. Len(s) + 1 |-> IF k = Len(s) + 1 THEN x ELSE s[k]]
<1>1. Len(s) \in Nat /\ \A k \in 1 .. Len(s) : s[k] \in Int
  OBVIOUS
<1>2. \A k \in 1 .. Len(s) + 1 : (IF k = Len(s) + 1 THEN x ELSE s[k]) \in Int
  BY <1>1
<1>3. t \in Seq(Int) /\ Len(t) = Len(s) + 1 /\ t[Len(s) + 1] = x
      /\ \A k \in 1 .. Len(s) : t[k] = s[k]
  BY <1>1, <1>2
<1>4. /\ Append(s, x) \in Seq(Int) /\ Len(Append(s, x)) = Len(s) + 1
      /\ Append(s, x)[Len(s) + 1] = x
      /\ \A k \in 1 .. Len(s) : Append(s, x)[k] = s[k]
  BY AppendProperties
<1> HIDE DEF t
<1>5. \A k \in 1 .. Len(s) + 1 : Append(s, x)[k] = t[k]
  BY <1>1, <1>3, <1>4
<1>6. Append(s, x) = t
  BY <1>3, <1>4, <1>5, SeqEqual
<1> QED
  BY <1>6 DEF t

LEMMA PrependParts ==
  ASSUME NEW x \in Int, NEW t \in Seq(Int)
  PROVE  /\ <<x>> \o t \in Seq(Int) /\ <<x>> \o t # <<>>
         /\ Head(<<x>> \o t) = x
         /\ Tail(<<x>> \o t) = t
<1> DEFINE s == <<x>> \o t
<1>1. <<x>> \in Seq(Int) /\ Len(<<x>>) = 1 /\ <<x>>[1] = x /\ Len(t) \in Nat
  OBVIOUS
<1>2. s \in Seq(Int) /\ Len(s) = 1 + Len(t)
      /\ \A k \in 1 .. 1 + Len(t) : s[k] = IF k <= 1 THEN <<x>>[k] ELSE t[k - 1]
  BY <1>1, ConcatProperties
<1> HIDE DEF s
<1>3. s # <<>> /\ Head(s) = x
  BY <1>1, <1>2
<1>4. Tail(s) \in Seq(Int) /\ Len(Tail(s)) = Len(t)
      /\ \A k \in 1 .. Len(Tail(s)) : Tail(s)[k] = s[k + 1]
  BY <1>1, <1>2, <1>3, HeadTailProperties
<1>5. ASSUME NEW k \in 1 .. Len(t)
      PROVE  Tail(s)[k] = t[k]
  <2>1. k + 1 \in 1 .. 1 + Len(t) /\ ~ (k + 1 <= 1) /\ (k + 1) - 1 = k
    BY <1>1
  <2>2. Tail(s)[k] = s[k + 1]
    BY <1>4, Zenon
  <2>3. s[k + 1] = t[(k + 1) - 1]
    BY <1>2, <2>1, Zenon
  <2> QED
    BY <2>1, <2>2, <2>3, Zenon
<1>6. Tail(s) = t
  BY <1>4, <1>5, SeqEqual
<1> QED
  BY <1>2, <1>3, <1>6 DEF s

(* What a line sent adds to the memberships of a user.                     *)
LEMMA OnLinesGrows ==
  ASSUME TypeOK, NEW line \in Line, lines' = Append(lines, line), NEW u
  PROVE  /\ OnLines(u) \in Seq(Int)
         /\ OnLines(u)' =
              Append(OnLines(u), IF line.kind = "members" /\ line.user = u THEN line.count ELSE 0)
<1> DEFINE Count(k) == IF lines[k].kind = "members" /\ lines[k].user = u THEN lines[k].count ELSE 0
           last == IF line.kind = "members" /\ line.user = u THEN line.count ELSE 0
<1>1. /\ lines \in Seq(Line) /\ Len(lines) \in Nat /\ DOMAIN lines = 1 .. Len(lines)
      /\ Len(lines') = Len(lines) + 1 /\ DOMAIN lines' = 1 .. Len(lines) + 1
      /\ \A k \in 1 .. Len(lines) : lines'[k] = lines[k]
      /\ lines'[Len(lines) + 1] = line
  BY DEF TypeOK
<1>2. \A k \in 1 .. Len(lines) : Count(k) \in Int
  <2> SUFFICES ASSUME NEW k \in 1 .. Len(lines)
               PROVE  Count(k) \in Int
    OBVIOUS
  <2>1. lines[k] \in Line
    BY <1>1
  <2>2. lines[k].count \in Int
    BY <2>1 DEF Line
  <2> QED
    BY <2>2
<1>3. OnLines(u) = [k \in 1 .. Len(lines) |-> Count(k)]
  BY <1>1 DEF OnLines
<1>4. OnLines(u)' = [k \in 1 .. Len(lines) + 1 |->
                      IF lines'[k].kind = "members" /\ lines'[k].user = u THEN lines'[k].count ELSE 0]
  BY <1>1 DEF OnLines
<1>5. \A k \in 1 .. Len(lines) + 1 : k = Len(lines) + 1 \/ k \in 1 .. Len(lines)
  BY <1>1
<1>6. OnLines(u)' = [k \in 1 .. Len(lines) + 1 |-> IF k = Len(lines) + 1 THEN last ELSE Count(k)]
  BY <1>1, <1>4, <1>5
<1> HIDE DEF Count, last
<1>7. OnLines(u) \in Seq(Int) /\ Len(OnLines(u)) = Len(lines)
      /\ \A k \in 1 .. Len(lines) : OnLines(u)[k] = Count(k)
  BY <1>1, <1>2, <1>3
<1>9. last \in Int
  BY DEF last, Line
<1>8. OnLines(u)' = Append(OnLines(u), last)
  <2>2. Append(OnLines(u), last) =
          [k \in 1 .. Len(lines) + 1 |-> IF k = Len(lines) + 1 THEN last ELSE OnLines(u)[k]]
    BY <1>7, <1>9, AppendAsFunction
  <2> QED
    BY <1>1, <1>5, <1>6, <1>7, <2>2
<1> QED
  BY <1>7, <1>8 DEF last

(* No membership is lost or sent twice (bulkload.go, lines 724 to 770): of *)
(* a user whose memberships were put back, those on lines and those to be  *)
(* sent are all there are, however large a chunk is.                       *)
THEOREM MembershipsSent == Spec => []MembershipsAddUp
<1> DEFINE Inv == MembershipsAddUp /\ PutBackLate /\ OnlyRestored
<1>1. Init => Inv
  BY DEF Init, Start, MembershipsAddUp, PutBackLate, OnlyRestored
<1>c. ChunkSize \in Nat \ {0} /\ FirstMember \in Nat \ {0}
  BY DEF FirstMember, FirstEmoji, FirstUser
<1>k. ASSUME NEW n \in Nat, NEW k \in 1 .. n + 1
      PROVE  k = n + 1 \/ k \in 1 .. n
  OBVIOUS
<1>2. ASSUME Typed, Typed', MembersLate, Inv, [Next]_vars
      PROVE  Inv'
  <2>i. MembershipsAddUp /\ PutBackLate /\ OnlyRestored
    BY <1>2
  <2>t. /\ todo \in Seq(Int) /\ todo \in Seq(Nat) /\ restored \in Nat
        /\ restored \in 0 .. NumUsers /\ lines \in Seq(Line)
    BY <1>2 DEF Typed, TypeOK
  <2>j. \A u \in 1 .. NumUsers : Joins(u) \in Seq(Int)
    BY <1>2, JoinsNumbers DEF Typed, TypeOK
  <2>s. ASSUME NEW line \in Line, Send(line), UNCHANGED <<data, restored>>,
               line.count <= ChunkSize, line.kind = "members" => line.user = restored,
               NEW left \in Seq(Int), todo' = left,
               Total(todo) = Total(left) + IF line.kind = "members" THEN line.count ELSE 0
        PROVE  Inv'
    <3>1. /\ lines' = Append(lines, line) /\ lines' # <<>> /\ Len(lines) \in Nat
          /\ DOMAIN lines = 1 .. Len(lines) /\ DOMAIN lines' = 1 .. Len(lines) + 1
          /\ \A k \in 1 .. Len(lines) : lines'[k] = lines[k]
          /\ lines'[Len(lines) + 1] = line
      <4>1. lines' = Append(lines, line)
        BY <2>s DEF Send
      <4>2. lines \in Seq(Line) /\ line \in Line
        BY <2>t, <2>s
      <4> DEFINE v == Append(lines, line)
      <4>3. /\ v # <<>> /\ Len(lines) \in Nat
            /\ DOMAIN lines = 1 .. Len(lines) /\ DOMAIN v = 1 .. Len(lines) + 1
            /\ \A k \in 1 .. Len(lines) : v[k] = lines[k]
            /\ v[Len(lines) + 1] = line
        BY <4>2, AppendParts
      <4> HIDE DEF v
      <4>4. lines' = v
        BY <4>1 DEF v
      <4> QED
        BY <4>1, <4>3, <4>4
    <3>2. \A k \in DOMAIN lines' : k = Len(lines) + 1 \/ k \in DOMAIN lines
      BY <1>k, <3>1
    <3>3. ASSUME NEW u \in 1 .. restored
          PROVE  Total(Joins(u)) = Total(OnLines(u)') + IF u = restored THEN Total(left) ELSE 0
      <4> DEFINE more == IF line.kind = "members" /\ line.user = u THEN line.count ELSE 0
      <4>1. more \in Int /\ (u # restored => more = 0)
            /\ (u = restored => Total(todo) = Total(left) + more)
        BY <2>s DEF Line
      <4>2. OnLines(u) \in Seq(Int) /\ OnLines(u)' = Append(OnLines(u), more)
        BY <1>2, <2>s, <3>1, OnLinesGrows DEF Typed
      <4> HIDE DEF more
      <4>3. Total(OnLines(u)') = Total(OnLines(u)) + more /\ Total(OnLines(u)) \in Int
        BY <4>1, <4>2, TotalAppend, TotalInt
      <4>4. Total(left) \in Int
        BY <2>s, TotalInt
      <4>5. Total(Joins(u)) = Total(OnLines(u)) + IF u = restored THEN Total(todo) ELSE 0
        BY <2>i DEF MembershipsAddUp
      <4>6. CASE u = restored
        <5>1. \A a, b, c \in Int : a + (b + c) = (a + c) + b
          OBVIOUS
        <5>2. Total(Joins(u)) = Total(OnLines(u)) + (Total(left) + more)
          BY <4>1, <4>5, <4>6
        <5> QED
          BY <4>1, <4>3, <4>4, <4>6, <5>1, <5>2
      <4>7. CASE u # restored
        <5>1. \A a \in Int : a + 0 = a
          OBVIOUS
        <5>2. Total(OnLines(u)') = Total(OnLines(u)) /\ Total(Joins(u)) = Total(OnLines(u))
          BY <4>1, <4>3, <4>5, <4>7, <5>1, Zenon
        <5> QED
          BY <4>3, <4>7, <5>1, <5>2, Zenon
      <4> QED
        BY <4>6, <4>7
    <3>4. \A u : Joins(u)' = Joins(u)
      BY <2>s DEF Joins, data
    <3>5. MembershipsAddUp'
      <4>1. \A k \in DOMAIN lines' : lines'[k].count <= ChunkSize
        BY <2>s, <2>i, <3>1, <3>2 DEF MembershipsAddUp
      <4>2. restored' = restored /\ todo' = left
        BY <2>s
      <4> QED
        BY <3>3, <3>4, <4>1, <4>2 DEF MembershipsAddUp
    <3>6. OnlyRestored'
      BY <2>s, <2>i, <2>t, <3>1, <3>2 DEF OnlyRestored
    <3> QED
      BY <3>1, <3>5, <3>6 DEF PutBackLate
  <2>p. ASSUME NEW kind \in {"head", "user", "emoji", "direct"}, NEW user \in 0 .. NumUsers,
               Send([kind |-> kind, user |-> user, count |-> 0]),
               UNCHANGED <<data, restored, todo>>
        PROVE  Inv'
    <3> HIDE DEF Inv
    <3> DEFINE line == [kind |-> kind, user |-> user, count |-> 0]
    <3>1. line \in Line /\ line.kind # "members" /\ line.count <= ChunkSize /\ line.count = 0
      BY <1>c DEF Line, Kind
    <3>2. Send(line)
      BY <2>p
    <3> HIDE DEF line
    <3>3. Total(todo) \in Int
      BY <2>t, TotalInt
    <3>4. Total(todo) = Total(todo) + IF line.kind = "members" THEN line.count ELSE 0
      BY <3>1, <3>3
    <3> QED
      BY <2>p, <2>s, <2>t, <3>1, <3>2, <3>4
  <2>q. ASSUME UNCHANGED <<users, lines, restored, todo>>
        PROVE  Inv'
    BY <2>i, <2>q DEF MembershipsAddUp, PutBackLate, OnlyRestored, Joins, OnLines
  <2>0. CASE Generate
    <3>1. lines = <<>> /\ lines' = <<>> /\ restored = 0 /\ restored' = 0
      BY <2>0, <2>i, <2>t DEF Generate, sender, PutBackLate
    <3> QED
      BY <3>1 DEF MembershipsAddUp, PutBackLate, OnlyRestored
  <2>1. CASE SendHead
    BY <2>1, <2>p DEF SendHead, Plain
  <2>2. CASE SendUser
    <3>1. Len(lines) - FirstUser + 1 \in 0 .. NumUsers
      BY <2>2 DEF SendUser, FirstEmoji, FirstUser
    <3> QED
      BY <2>2, <2>p, <3>1 DEF SendUser
  <2>3. CASE SendEmoji
    BY <2>3, <2>p DEF SendEmoji, Plain
  <2>4. CASE Restore
    <3> DEFINE new == restored + 1
    <3>1. /\ lines' = lines /\ users' = users /\ restored' = new /\ todo' = Joins(new)
          /\ todo = <<>> /\ new \in 1 .. NumUsers /\ restored \in Nat /\ lines # <<>>
      <4>1. /\ lines' = lines /\ users' = users /\ restored' = new /\ todo' = Joins(new)
            /\ todo = <<>> /\ restored < NumUsers /\ Len(lines) >= FirstMember
        BY <2>4 DEF Restore, data
      <4>2. new \in 1 .. NumUsers
        BY <2>t, <4>1
      <4>3. lines # <<>>
        BY <1>c, <4>1
      <4> QED
        BY <2>t, <4>1, <4>2, <4>3
    <3>2. \A u : Joins(u)' = Joins(u) /\ OnLines(u)' = OnLines(u)
      BY <3>1 DEF Joins, OnLines
    <3>3. Total(OnLines(new)) = 0
      <4>1. \A k \in DOMAIN lines : ~ (lines[k].kind = "members" /\ lines[k].user = new)
        <5> SUFFICES ASSUME NEW k \in DOMAIN lines, lines[k].kind = "members"
                     PROVE  lines[k].user # new
          OBVIOUS
        <5>1. lines[k].user <= restored
          BY <2>i DEF OnlyRestored
        <5>2. lines[k].user \in Nat
          <6>1. lines[k] \in Line
            BY <2>t
          <6> QED
            BY <6>1 DEF Line
        <5> QED
          BY <2>t, <5>1, <5>2
      <4>2. OnLines(new) = [k \in 1 .. Len(lines) |-> 0] /\ Len(lines) \in Nat
        BY <4>1 DEF OnLines
      <4>3. /\ OnLines(new) \in Seq(Int)
            /\ \A k \in 1 .. Len(OnLines(new)) : OnLines(new)[k] = 0
        BY <4>2
      <4> QED
        BY <4>3, TotalZero
    <3>4. ASSUME NEW u \in 1 .. new
          PROVE  Total(Joins(u)) = Total(OnLines(u)) + IF u = new THEN Total(Joins(new)) ELSE 0
      <4>1. CASE u = new
        <5>1. Total(Joins(new)) \in Int
          BY <2>j, <3>1, TotalInt, Zenon
        <5> HIDE DEF new
        <5>2. \A a \in Int : a = 0 + a
          OBVIOUS
        <5> QED
          BY <3>3, <4>1, <5>1, <5>2, Zenon
      <4>2. CASE u # new
        <5>1. u \in 1 .. restored
          BY <2>t, <4>2
        <5>2. Total(Joins(u)) = Total(OnLines(u)) + IF u = restored THEN Total(todo) ELSE 0
          BY <2>i, <5>1 DEF MembershipsAddUp
        <5>3. Total(todo) = 0
          BY <3>1, TotalEmpty
        <5> QED
          BY <4>2, <5>2, <5>3
      <4> QED
        BY <4>1, <4>2
    <3> HIDE DEF new
    <3>5. MembershipsAddUp'
      BY <2>i, <3>1, <3>2, <3>4 DEF MembershipsAddUp
    <3>6. OnlyRestored'
      <4> SUFFICES ASSUME NEW k \in DOMAIN lines, lines[k].kind = "members"
                   PROVE  lines[k].user <= restored + 1
        BY <3>1 DEF OnlyRestored, new
      <4>1. lines[k] \in Line
        BY <2>t
      <4>2. lines[k].user \in Nat
        BY <4>1 DEF Line
      <4>3. lines[k].user <= restored
        BY <2>i DEF OnlyRestored
      <4> QED
        BY <2>t, <4>2, <4>3
    <3> QED
      BY <3>1, <3>5, <3>6 DEF PutBackLate
  <2>5. CASE SendMembers
    <3> DEFINE count == IF Head(todo) < ChunkSize THEN Head(todo) ELSE ChunkSize
               line  == [kind |-> "members", user |-> restored, count |-> count]
               left  == Head(todo) - count
               rest  == IF left > 0 THEN <<left>> \o Tail(todo) ELSE Tail(todo)
    <3>1. Head(todo) \in Nat /\ Tail(todo) \in Seq(Int) /\ todo # <<>>
      <4> HIDE DEF count, line, left, rest
      <4>1. todo # <<>>
        BY <2>5 DEF SendMembers
      <4>2. Head(todo) \in Nat
        BY <2>t, <4>1
      <4>3. Tail(todo) \in Seq(Int)
        BY <2>t, <4>1
      <4> QED
        BY <4>1, <4>2, <4>3
    <3>2. count \in Nat /\ left \in Nat /\ count <= ChunkSize /\ Head(todo) = count + left
      <4>1. \A h, c \in Nat : LET k == IF h < c THEN h ELSE c
                              IN  k \in Nat /\ h - k \in Nat /\ k <= c /\ h = k + (h - k)
        OBVIOUS
      <4> QED
        BY <1>c, <3>1, <4>1
    <3>3. Send(line) /\ todo' = rest /\ UNCHANGED <<data, restored>>
      BY <2>5 DEF SendMembers
    <3>4. line \in Line /\ line.kind = "members" /\ line.user = restored /\ line.count = count
      BY <2>t, <3>2 DEF Line, Kind
    <3> HIDE DEF count, line, left
    <3>5. rest \in Seq(Int) /\ Total(rest) = left + Total(Tail(todo))
      <4>1. CASE left > 0
        <5> DEFINE s == <<left>> \o Tail(todo)
        <5>1. s \in Seq(Int) /\ s # <<>> /\ Head(s) = left /\ Tail(s) = Tail(todo)
          <6>1. left \in Int /\ Tail(todo) \in Seq(Int)
            BY <3>1, <3>2
          <6> QED
            BY <6>1, PrependParts, Zenon
        <5> HIDE DEF s
        <5>2. Total(s) = Head(s) + Total(Tail(s))
          BY <5>1, TotalHead
        <5> QED
          BY <4>1, <5>1, <5>2 DEF s
      <4>2. CASE ~ (left > 0)
        <5>1. left = 0
          BY <3>2, <4>2
        <5>2. Total(Tail(todo)) \in Int
          BY <3>1, TotalInt
        <5> QED
          BY <3>1, <4>2, <5>1, <5>2
      <4> QED
        BY <4>1, <4>2
    <3> HIDE DEF rest
    <3>6. Total(todo) = Head(todo) + Total(Tail(todo)) /\ Total(Tail(todo)) \in Int
      BY <2>t, <3>1, TotalHead, TotalInt
    <3>7. Total(todo) = Total(rest) + count
      <4>1. \A a, b, c \in Int : (a + b) + c = (b + c) + a
        OBVIOUS
      <4> QED
        BY <3>2, <3>5, <3>6, <4>1
    <3> QED
      BY <2>s, <3>2, <3>3, <3>4, <3>5, <3>7
  <2>6. CASE SkipTeam
    <3>1. /\ todo # <<>> /\ Head(todo) = 0 /\ todo' = Tail(todo) /\ Tail(todo) \in Seq(Int)
          /\ UNCHANGED <<users, lines, restored>>
      <4>1. /\ todo # <<>> /\ Head(todo) = 0 /\ todo' = Tail(todo)
            /\ UNCHANGED <<users, lines, restored>>
        BY <2>6 DEF SkipTeam, data
      <4> QED
        BY <2>t, <4>1
    <3>2. Total(todo) = Total(Tail(todo))
      <4>1. Total(Tail(todo)) \in Int /\ Total(todo) = Head(todo) + Total(Tail(todo))
        BY <2>t, <3>1, TotalHead, TotalInt
      <4>2. \A a \in Int : 0 + a = a
        OBVIOUS
      <4> QED
        BY <3>1, <4>1, <4>2, Zenon
    <3> QED
      BY <2>i, <3>1, <3>2 DEF MembershipsAddUp, PutBackLate, OnlyRestored, Joins, OnLines
  <2>7. CASE SendDirect
    BY <2>7, <2>p DEF SendDirect, Plain
  <2>8. CASE Close \/ Return
    BY <2>8, <2>q DEF Close, Return, data
  <2>9. CASE Receive
    BY <2>9, <2>q DEF Receive, sender, data
  <2>10. CASE Encode
    BY <2>10, <2>q DEF Encode, sender, data
  <2>11. CASE UNCHANGED vars
    BY <2>11, <2>q DEF vars, sender, data
  <2> QED
    BY <1>2, <2>0, <2>1, <2>2, <2>3, <2>4, <2>5, <2>6, <2>7, <2>8, <2>9, <2>10, <2>11
    DEF Next, Sender, Encoder
<1> QED
  BY <1>1, <1>2, LinesInOrder, StaysTyped, PTL DEF Spec

-----------------------------------------------------------------------------
(* Generation.                                                             *)

USE GenerationAssumption

(* Nothing is sent while there is something left to decide.                *)
NothingSent == phase # "lines" => lines = <<>> /\ direct = 0

(* A function on the first numbers is a sequence.                          *)
LEMMA FunctionIsSeq ==
  ASSUME NEW S, NEW n \in Nat, NEW s \in [1 .. n -> S]
  PROVE  s \in Seq(S)
  BY SeqDef

(* A team that is added is one, and its users are users.                   *)
OwnTypeOK ==
  /\ phase \in Phase
  /\ done \in Seq(0 .. NumTeams - 1)
  /\ inTeam \subseteq User
  /\ channel \in 0 .. NumChannels

GenInv == DataTypeOK /\ OwnTypeOK /\ NothingSent

(* Of the class of a team or channel, whatever its number.                 *)
LEMMA VolumeIsOne ==
  ASSUME NEW n, NEW h, NEW m
  PROVE  VolumeOf(n, h, m) \in Volume
  BY DEF VolumeOf, Volume

(* Adding a channel to one of a user's teams leaves it a list of teams.    *)
LEMMA ChannelAdded ==
  ASSUME NEW s \in Seq(Team), NEW t, NEW c \in Channel
  PROVE  [s EXCEPT ![t].channels = Append(@, c)] \in Seq(Team)
<1> DEFINE e == [s[t] EXCEPT !.channels = Append(@, c)]
           r == [s EXCEPT ![t] = e]
<1>1. s \in [1 .. Len(s) -> Team] /\ Len(s) \in Nat
  OBVIOUS
<1>2. ASSUME t \in 1 .. Len(s)
      PROVE  e \in Team
  <2>1. s[t] \in Team
    BY <1>1, <1>2
  <2>2. s[t].channels \in Seq(Channel)
    BY <2>1 DEF Team
  <2>3. Append(s[t].channels, c) \in Seq(Channel)
    <3> DEFINE q == s[t].channels
    <3>1. q \in Seq(Channel)
      BY <2>2
    <3> HIDE DEF q
    <3>2. Append(q, c) \in Seq(Channel)
      BY <3>1
    <3> QED
      BY <3>2 DEF q
  <2> QED
    BY <2>1, <2>3 DEF Team
<1> HIDE DEF e
<1>3. r \in [1 .. Len(s) -> Team]
  BY <1>1, <1>2
<1>4. r \in Seq(Team)
  BY <1>1, <1>3, SeqDef
<1> QED
  BY <1>4 DEF e

(* No negative number of direct channels is asked for.                     *)
LEMMA MaxDirectNat ==
  ASSUME NEW n \in Nat
  PROVE  MaxDirect(n) \in Nat
<1>1. n \div 2 \in Nat /\ (n = 0 => n \div 2 = 0)
  OBVIOUS
<1>2. CASE n = 0
  BY <1>1, <1>2 DEF MaxDirect
<1>3. CASE n > 0
  <2> DEFINE h == n \div 2
             p == n - 1
  <2>1. h \in Nat /\ p \in Nat
    BY <1>1, <1>3
  <2> HIDE DEF h, p
  <2>2. h * p \in Nat
    BY <2>1
  <2> QED
    BY <2>2 DEF h, p, MaxDirect
<1> QED
  BY <1>2, <1>3

(* A root, rounded down, is a number.                                      *)
LEMMA RootNat ==
  ASSUME NEW m \in Int
  PROVE  Root(m) \in Nat
<1>1. IsFiniteSet(1 .. m)
  BY FS_Interval
<1>2. IsFiniteSet({q \in 1 .. m : q * q <= m})
  BY <1>1, FS_Subset
<1> QED
  BY <1>2, FS_CardinalityType DEF Root

(* The users of a direct channel are given by numbers.                     *)
LEMMA PairOfNumbers ==
  ASSUME NEW n \in Nat, NEW k \in Int
  PROVE  DirectPair(n, k)[1] \in Int /\ DirectPair(n, k)[2] \in Int
<1> DEFINE m == 4 * n * (n - 1) - 8 * k - 7
           i == n - 2 - (Root(m) - 1) \div 2
           j == k + i + 1 - (n * (n - 1)) \div 2 + ((n - i) * (n - i - 1)) \div 2
<1>1. m \in Int
  OBVIOUS
<1>2. Root(m) \in Int
  BY <1>1, RootNat
<1>3. i \in Int
  <2> HIDE DEF m
  <2> QED
    BY <1>2
<1>4. j \in Int
  <2> HIDE DEF i
  <2>1. (n * (n - 1)) \div 2 \in Int /\ ((n - i) * (n - i - 1)) \div 2 \in Int
    BY <1>3
  <2> QED
    BY <1>3, <2>1
<1>5. DirectPair(n, k) = <<i, j>>
  BY DEF DirectPair
<1> QED
  BY <1>3, <1>4, <1>5

(* Every decision keeps the data within its types, and sends nothing.      *)
LEMMA StaysDecided == GenSpec => []GenInv
<1>1. GenInit => GenInv
  BY DEF GenInit, Start, GenInv, DataTypeOK, OwnTypeOK, NothingSent, User, Phase
<1>2. ASSUME GenInv, [GenNext]_allVars
      PROVE  GenInv'
  <2> USE <1>2 DEF GenInv
  <2>1. CASE AddTeam
    <3>1. PICK team \in (0 .. NumTeams - 1) \ ToSet(done) :
            LET volume == VolumeOf(Len(done), NumHigh, NumMid)
                entry  == [team |-> team, weight |-> TeamWeight[volume], channels |-> <<>>]
            IN  \E chosen \in kSubset(InTeam[volume], User) :
                  /\ done' = Append(done, team)
                  /\ inTeam' = chosen
                  /\ users' = [u \in User |-> IF u \in chosen THEN Append(users[u], entry)
                                                              ELSE users[u]]
      BY <2>1 DEF AddTeam
    <3> DEFINE volume == VolumeOf(Len(done), NumHigh, NumMid)
               entry  == [team |-> team, weight |-> TeamWeight[volume], channels |-> <<>>]
    <3>2. PICK chosen \in kSubset(InTeam[volume], User) :
            /\ done' = Append(done, team)
            /\ inTeam' = chosen
            /\ users' = [u \in User |-> IF u \in chosen THEN Append(users[u], entry)
                                                        ELSE users[u]]
      BY <3>1
    <3>3. volume \in Volume
      BY VolumeIsOne
    <3> HIDE DEF volume
    <3>4. TeamWeight[volume] \in Nat /\ team \in Nat /\ <<>> \in Seq(Channel)
      BY <3>3, GenerationAssumption
    <3>5. entry \in Team
      BY <3>4 DEF Team
    <3> HIDE DEF entry
    <3>6. users' \in [1 .. NumUsers -> Seq(Team)]
      <4>1. ASSUME NEW u \in User
            PROVE  users[u] \in Seq(Team) /\ Append(users[u], entry) \in Seq(Team)
        BY <3>5, <4>1 DEF DataTypeOK, User
      <4> QED
        BY <3>2, <4>1 DEF User
    <3>7. directChannels' = directChannels /\ lines' = lines /\ direct' = direct
          /\ phase = "teams" /\ phase' = "channels" /\ channel' = 0
      BY <2>1 DEF AddTeam, sender
    <3>8. chosen \subseteq User
      BY DEF kSubset
    <3>9. done' \in Seq(0 .. NumTeams - 1)
      BY <3>2 DEF OwnTypeOK
    <3>10. DataTypeOK'
      BY <3>6, <3>7 DEF DataTypeOK
    <3>11. inTeam' \subseteq User' /\ channel' \in 0 .. NumChannels /\ phase' \in Phase
      BY <3>2, <3>7, <3>8, GenerationAssumption DEF Phase, User
    <3>12. OwnTypeOK'
      BY <3>9, <3>11 DEF OwnTypeOK
    <3>13. NothingSent'
      BY <3>7 DEF NothingSent
    <3> QED
      BY <3>10, <3>12, <3>13
  <2>2. CASE AddChannel
    <3>1. PICK chosen \in kSubset(NumToAddChannel, inTeam) :
            users' = [u \in User |->
                       IF u \in chosen
                         THEN [users[u] EXCEPT ![Len(users[u])].channels = Append(@, NextChannel)]
                         ELSE users[u]]
      BY <2>2 DEF AddChannel
    <3>2. NextChannel \in Channel
      <4>1. VolumeOf(channel, NumHighCh, NumMidCh) \in Volume
        BY VolumeIsOne
      <4>2. channel \in Nat
        BY DEF OwnTypeOK
      <4> QED
        BY <4>1, <4>2, GenerationAssumption DEF NextChannel, Channel
    <3>3. users' \in [1 .. NumUsers -> Seq(Team)]
      <4>1. ASSUME NEW u \in User
            PROVE  /\ users[u] \in Seq(Team)
                   /\ [users[u] EXCEPT ![Len(users[u])].channels = Append(@, NextChannel)]
                        \in Seq(Team)
        <5>1. users[u] \in Seq(Team)
          BY DEF DataTypeOK, User
        <5> QED
          BY <5>1, <3>2, ChannelAdded
      <4> QED
        BY <3>1, <4>1 DEF User
    <3>4. /\ UNCHANGED <<directChannels, lines, direct, phase, done, inTeam>>
          /\ channel < NumChannels /\ channel' = channel + 1
      BY <2>2 DEF AddChannel, sender
    <3> QED
      BY <3>3, <3>4, GenerationAssumption DEF DataTypeOK, OwnTypeOK, NothingSent
  <2>3. CASE MakeDirectChannels
    <3> DEFINE num == IF NumDirect > MaxDirect(NumUsers) THEN MaxDirect(NumUsers) ELSE NumDirect
               pair(k) == {DirectPair(NumUsers, k - 1)[1] + 1, DirectPair(NumUsers, k - 1)[2] + 1}
    <3>1. directChannels' = [k \in 1 .. num |-> pair(k)]
      BY <2>3 DEF MakeDirectChannels
    <3>2. num \in Nat
      BY MaxDirectNat, PipelineAssumption, GenerationAssumption
    <3>3. ASSUME NEW k \in 1 .. num
          PROVE  pair(k) \in SUBSET Int
      BY <3>2, PairOfNumbers, PipelineAssumption
    <3> HIDE DEF num, pair
    <3>4. directChannels' \in Seq(SUBSET Int)
      <4>1. directChannels' \in [1 .. num -> SUBSET Int]
        BY <3>1, <3>3
      <4> QED
        BY <4>1, <3>2, FunctionIsSeq, Zenon
    <3>5. /\ UNCHANGED <<users, lines, direct, done, inTeam, channel>>
          /\ phase = "direct" /\ phase' = "group"
      BY <2>3 DEF MakeDirectChannels, sender
    <3> QED
      BY <3>4, <3>5 DEF DataTypeOK, OwnTypeOK, NothingSent, Phase
  <2>4. CASE MakeGroupChannel
    <3>1. PICK members \in SUBSET User : directChannels' = Append(directChannels, members)
      BY <2>4 DEF MakeGroupChannel, kSubset
    <3>2. UNCHANGED <<users, lines, direct, own>>
      BY <2>4 DEF MakeGroupChannel, sender
    <3> QED
      BY <3>1, <3>2 DEF DataTypeOK, OwnTypeOK, NothingSent, User, own
  <2>5. ASSUME UNCHANGED vars, UNCHANGED <<done, inTeam, channel>>, phase' \in Phase,
               phase' = "lines" \/ phase # "lines"
        PROVE  GenInv'
    BY <2>5 DEF vars, data, sender, DataTypeOK, OwnTypeOK, NothingSent
  <2>6. CASE TeamDone \/ TeamsDone \/ GroupsGivenUp \/ GroupsDone
    BY <2>5, <2>6 DEF TeamDone, TeamsDone, GroupsGivenUp, GroupsDone, Phase
  <2>7. CASE Writing(Sender) \/ Writing(Encoder)
    <3>1. phase = "lines" /\ UNCHANGED own
      BY <2>7 DEF Writing
    <3>2. UNCHANGED data
      BY <2>7 DEF Writing, Sender, Encoder, SendHead, SendUser, SendEmoji, Restore,
                  SendMembers, SkipTeam, SendDirect, Close, Return, Receive, Encode
    <3> QED
      BY <3>1, <3>2 DEF own, data, DataTypeOK, OwnTypeOK, NothingSent
  <2>8. CASE UNCHANGED allVars
    BY <2>8 DEF allVars, vars, own, data, sender, DataTypeOK, OwnTypeOK, NothingSent
  <2> QED
    BY <2>1, <2>2, <2>3, <2>4, <2>6, <2>7, <2>8 DEF GenNext, Choosing
<1> QED
  BY <1>1, <1>2, PTL DEF GenSpec

(* Every decision is a step of BulkloadPipeline that generates data, every *)
(* other step is one of its own: WritesLines, for every configuration.     *)
THEOREM ImplementsPipeline == GenSpec => WritesLines
<1>1. GenInit /\ GenInv => Init
  BY DEF GenInit, GenInv, Init
<1>2. ASSUME GenInv, GenInv', [GenNext]_allVars
      PROVE  [Next]_vars
  <2>1. ASSUME phase # "lines", UNCHANGED <<sender, encoder>>
        PROVE  Generate
    BY <1>2, <2>1 DEF GenInv, NothingSent, Generate
  <2>2. CASE AddTeam \/ AddChannel \/ MakeDirectChannels \/ MakeGroupChannel
    BY <2>1, <2>2 DEF AddTeam, AddChannel, MakeDirectChannels, MakeGroupChannel, Next
  <2>3. CASE TeamDone \/ TeamsDone \/ GroupsGivenUp \/ GroupsDone
    BY <2>3 DEF TeamDone, TeamsDone, GroupsGivenUp, GroupsDone
  <2>4. CASE Writing(Sender) \/ Writing(Encoder)
    BY <2>4 DEF Writing, Next
  <2>5. CASE UNCHANGED allVars
    BY <2>5 DEF allVars
  <2> QED
    BY <1>2, <2>2, <2>3, <2>4, <2>5 DEF GenNext, Choosing
<1>3. GenInit => GenInv
  BY DEF GenInit, Start, GenInv, DataTypeOK, OwnTypeOK, NothingSent, User, Phase
<1> QED
  BY <1>1, <1>2, <1>3, StaysDecided, PTL DEF GenSpec, Spec, WritesLines

(* The state of the generator and of the pipeline keeps its types.         *)
THEOREM GeneratorTypeCorrect == GenSpec => []GenTypeOK
<1>1. GenInv /\ TypeOK => GenTypeOK
  BY DEF GenInv, OwnTypeOK, GenTypeOK
<1> QED
  BY <1>1, StaysDecided, ImplementsPipeline, TypeCorrect, PTL DEF WritesLines

(* Whatever is generated, no user line is written with memberships if      *)
(* there are more emojis than the channel between the goroutines holds.    *)
THEOREM GeneratedUsersPlain == NumEmoji > Capacity => (GenSpec => []PlainUserLines)
  BY ImplementsPipeline, UsersPlain, PTL DEF WritesLines

(* Whatever is generated, a line of another type separates the line that   *)
(* creates a user from those with its memberships, if there are emojis.    *)
THEOREM GeneratedMembersBehindBarrier == NumEmoji > 0 => (GenSpec => []Barrier)
  BY ImplementsPipeline, MembersBehindBarrier, PTL DEF WritesLines

(* Whatever is generated, the lines of a user hold its channels, each once *)
(* and no others, as far as they were put back.                            *)
THEOREM GeneratedMembershipsSent == GenSpec => []MembershipsAddUp
  BY ImplementsPipeline, MembershipsSent, PTL DEF WritesLines

-----------------------------------------------------------------------------
(* Choices.                                                                *)

(* f has the sums of the first weights.                                    *)
Sums(f, w) ==
  /\ f[0] = 0
  /\ \A c \in 1 .. Len(w) : f[c] = f[c - 1] + w[c]
  /\ \A c \in 0 .. Len(w) : f[c] \in Nat /\ f[c] = Total(SubSeq(w, 1, c))
  /\ \A c, d \in 0 .. Len(w) : c <= d => f[c] <= f[d]
  /\ f[Len(w)] = Total(w)

LEMMA SumsOfWeights ==
  ASSUME NEW w \in Seq(Nat)
  PROVE  \E f : Sums(f, w)
<1> DEFINE n == Len(w)
           f == [c \in 0 .. n |-> Total(SubSeq(w, 1, c))]
<1>1. n \in Nat /\ w \in Seq(Int) /\ \A c \in 1 .. n : w[c] \in Nat
  <2>1. \A c \in 1 .. n : w[c] \in Nat /\ w[c] \in Int
    OBVIOUS
  <2>2. w \in [1 .. n -> Int]
    BY <2>1
  <2> QED
    BY <2>1, <2>2, SeqDef
<1>2. \A c \in 0 .. n : f[c] = Total(SubSeq(w, 1, c))
  OBVIOUS
<1>3. ASSUME NEW c \in 1 .. n
      PROVE  f[c] = Total(SubSeq(w, 1, c - 1)) + w[c]
  <2> DEFINE s == SubSeq(w, 1, c - 1)
             t == SubSeq(w, 1, c)
  <2>1. /\ s \in Seq(Int) /\ Len(s) = c - 1 /\ \A i \in 1 .. c - 1 : s[i] = w[i]
        /\ t \in Seq(Int) /\ Len(t) = c /\ \A i \in 1 .. c : t[i] = w[i]
    <3>0. ASSUME NEW k \in 0 .. n
          PROVE  /\ SubSeq(w, 1, k) \in Seq(Int) /\ Len(SubSeq(w, 1, k)) = k
                 /\ \A i \in 1 .. k : SubSeq(w, 1, k)[i] = w[i]
      <4> HIDE DEF n, f
      <4>1. k \in Nat /\ 1 .. k \subseteq 1 .. n
        BY <1>1
      <4>2. SubSeq(w, 1, k) \in Seq(Int)
        BY <1>1, <4>1
      <4>3. Len(SubSeq(w, 1, k)) = k
        BY <1>1, <4>1
      <4> QED
        BY <1>1, <4>1, <4>2, <4>3
    <3>n. c - 1 \in 0 .. n /\ c \in 0 .. n
      BY <1>1
    <3>1. /\ s \in Seq(Int) /\ Len(s) = c - 1 /\ \A i \in 1 .. c - 1 : s[i] = w[i]
      BY <3>0, <3>n, Zenon
    <3>2. /\ t \in Seq(Int) /\ Len(t) = c /\ \A i \in 1 .. c : t[i] = w[i]
      BY <3>0, <3>n, Zenon
    <3> QED
      BY <3>1, <3>2
  <2> HIDE DEF s, t
  <2>2. w[c] \in Int
    BY <1>1
  <2>3. t = Append(s, w[c])
    <3> DEFINE r == Append(s, w[c])
    <3>1. /\ r \in Seq(Int) /\ Len(r) = c
          /\ \A i \in 1 .. c - 1 : r[i] = w[i]
          /\ r[c] = w[c]
      <4> HIDE DEF f, n
      <4>1. Len(r) = c /\ \A i \in 1 .. c : r[i] = IF i = c THEN w[c] ELSE s[i]
        BY <2>1
      <4>2. r \in Seq(Int)
        BY <2>1, <2>2
      <4>3. c \in Nat /\ c \in 1 .. c /\ \A i \in 1 .. c - 1 : i \in 1 .. c /\ i # c
        <5>1. c \in Nat /\ c >= 1
          BY <1>1
        <5>2. \A x \in Nat : x >= 1 => x \in 1 .. x /\ \A i \in 1 .. x - 1 : i \in 1 .. x /\ i # x
          OBVIOUS
        <5> QED
          BY <5>1, <5>2, Zenon
      <4> QED
        BY <2>1, <4>1, <4>2, <4>3, Zenon
    <3> HIDE DEF r
    <3>2. ASSUME NEW i \in 1 .. Len(t)
          PROVE  t[i] = r[i]
      <4>1. i \in 1 .. c
        BY <2>1
      <4>2. i \in 1 .. c - 1 \/ i = c
        BY <4>1
      <4>3. t[i] = w[i]
        BY <2>1, <4>1
      <4> QED
        BY <3>1, <4>2, <4>3
    <3>3. t = r
      BY <2>1, <3>1, <3>2, SeqEqual
    <3> QED
      BY <3>3 DEF r
  <2>4. Total(t) = Total(s) + w[c]
    BY <2>1, <2>2, <2>3, TotalAppend
  <2> QED
    BY <2>4 DEF s, t
<1>4. f[0] = 0
  <2>1. SubSeq(w, 1, 0) = <<>>
    OBVIOUS
  <2>2. 0 \in 0 .. n
    BY <1>1
  <2> QED
    BY <2>1, <2>2, TotalEmpty
<1> HIDE DEF f
<1>5. ASSUME NEW c \in 1 .. n
      PROVE  f[c] = f[c - 1] + w[c]
  <2>1. c - 1 \in 0 .. n
    BY <1>1
  <2>2. f[c - 1] = Total(SubSeq(w, 1, c - 1))
    BY <1>2, <2>1
  <2> QED
    BY <1>3, <2>2
<1>6. f[n] = Total(w)
  <2>1. SubSeq(w, 1, n) = w
    <3> DEFINE r == SubSeq(w, 1, n)
    <3>1. r \in Seq(Int) /\ Len(r) = n /\ \A i \in 1 .. n : r[i] = w[i]
      <4> HIDE DEF n, f
      <4>1. r \in Seq(Int)
        BY <1>1
      <4>2. Len(r) = n
        BY <1>1
      <4>3. \A i \in 1 .. n : r[i] = w[i]
        BY <1>1
      <4> QED
        BY <4>1, <4>2, <4>3
    <3> HIDE DEF r
    <3>2. r = w
      BY <1>1, <3>1, SeqEqual
    <3> QED
      BY <3>2 DEF r
  <2>2. n \in 0 .. n
    BY <1>1
  <2>3. f[n] = Total(SubSeq(w, 1, n))
    BY <1>2, <2>2
  <2> QED
    BY <2>1, <2>3, Zenon
<1> DEFINE Rising == {m \in Nat : m <= n => f[m] \in Nat /\ \A c \in 0 .. m : f[c] <= f[m]}
<1>7. 0 \in Rising
  BY <1>4
<1>8. ASSUME NEW m \in Nat, m \in Rising
      PROVE  m + 1 \in Rising
  <2>1. SUFFICES ASSUME m + 1 <= n
                 PROVE  f[m + 1] \in Nat /\ \A c \in 0 .. m + 1 : f[c] <= f[m + 1]
    OBVIOUS
  <2>2. f[m] \in Nat /\ \A c \in 0 .. m : f[c] <= f[m]
    BY <1>1, <1>8, <2>1
  <2>3. m + 1 \in 1 .. n /\ (m + 1) - 1 = m
    <3> HIDE DEF n, f
    <3> QED
      BY <1>1, <2>1
  <2>4. f[m + 1] = f[m] + w[m + 1] /\ w[m + 1] \in Nat
    BY <1>1, <1>5, <2>3
  <2>5. f[m] <= f[m + 1] /\ f[m + 1] \in Nat
    <3> HIDE DEF f, n
    <3>1. \A x, y \in Nat : \A z : z = x + y => x <= z /\ z \in Nat
      OBVIOUS
    <3>2. f[m] \in Nat
      BY <2>2, Zenon
    <3> QED
      BY <2>4, <3>1, <3>2, Zenon
  <2>6. ASSUME NEW c \in 0 .. m
        PROVE  f[c] <= f[m + 1]
    <3>1. f[c] <= f[m]
      BY <2>2
    <3>2. f[c] \in Int
      <4>1. c \in 0 .. n
        BY <1>1, <2>1
      <4>2. f[c] = Total(SubSeq(w, 1, c)) /\ SubSeq(w, 1, c) \in Seq(Int)
        BY <1>1, <1>2, <4>1
      <4> QED
        BY <4>2, TotalInt
    <3>3. \A x, y, z \in Int : x <= y /\ y <= z => x <= z
      OBVIOUS
    <3>4. f[m] \in Int /\ f[m + 1] \in Int
      BY <2>2, <2>5
    <3> HIDE DEF f
    <3> QED
      BY <2>5, <3>1, <3>2, <3>3, <3>4, Zenon
  <2> QED
    BY <2>5, <2>6
<1> HIDE DEF Rising
<1>9. Nat \subseteq Rising
  BY <1>7, <1>8, Induction
<1>10. \A m \in 0 .. n : f[m] \in Nat /\ \A c \in 0 .. m : f[c] <= f[m]
  BY <1>1, <1>9 DEF Rising
<1>11. \A c, d \in 0 .. n : c <= d => f[c] <= f[d]
  BY <1>1, <1>10
<1>12. Sums(f, w)
  BY <1>1, <1>2, <1>4, <1>5, <1>6, <1>10, <1>11 DEF Sums
<1> QED
  BY <1>12

(* A number below the last sum is between two neighbouring ones.           *)
LEMMA BetweenSums ==
  ASSUME NEW w \in Seq(Nat), NEW f, Sums(f, w), NEW r \in Nat, r < f[Len(w)]
  PROVE  \E c \in 1 .. Len(w) : f[c - 1] <= r /\ r < f[c]
<1> DEFINE S == {m \in Nat : m <= Len(w) /\ r < f[m]
                               => \E c \in 1 .. m : f[c - 1] <= r /\ r < f[c]}
<1>1. 0 \in S
  BY DEF Sums
<1>2. ASSUME NEW m \in Nat, m \in S
      PROVE  m + 1 \in S
  <2> SUFFICES ASSUME m + 1 <= Len(w), r < f[m + 1]
               PROVE  \E c \in 1 .. m + 1 : f[c - 1] <= r /\ r < f[c]
    OBVIOUS
  <2>0. f[m] \in Nat
    BY DEF Sums
  <2>1. CASE r < f[m]
    <3>1. PICK c \in 1 .. m : f[c - 1] <= r /\ r < f[c]
      BY <1>2, <2>1
    <3>2. c \in 1 .. m + 1
      BY <1>2
    <3> QED
      BY <3>1, <3>2, Zenon
  <2>2. CASE f[m] <= r
    <3>1. m + 1 \in 1 .. m + 1 /\ (m + 1) - 1 = m
      BY <1>2
    <3> QED
      BY <2>2, <3>1, Zenon
  <2>3. \A x, y \in Nat : x < y \/ y <= x
    OBVIOUS
  <2> QED
    BY <2>0, <2>1, <2>2, <2>3, Zenon
<1> HIDE DEF S
<1>3. Nat \subseteq S
  BY <1>1, <1>2, Induction
<1>4. Len(w) \in S
  BY <1>3
<1> QED
  BY <1>4 DEF S

(* The numbers for which a choice is taken are as many as its weight: those *)
(* between the sum of the weights before it and that with its own.         *)
LEMMA ChoiceInProportion ==
  ASSUME NEW choices, Weights(choices) \in Seq(Nat),
         Len(choices) \in Nat, DOMAIN choices = 1 .. Len(choices)
  PROVE  InProportion(choices)
<1> DEFINE w == Weights(choices)
           n == Len(choices)
           Taken(c) == {r \in 0 .. Total(w) - 1 : WeightedChoice(choices, r) = c}
<1>1. /\ n \in Nat /\ w \in Seq(Nat) /\ Len(w) = n /\ DOMAIN choices = 1 .. n
      /\ \A c \in 1 .. n : w[c] = choices[c].weight /\ w[c] \in Nat
  <2>1. DOMAIN w = 1 .. n /\ DOMAIN w = 1 .. Len(w) /\ Len(w) \in Nat
    BY DEF Weights
  <2>2. Len(w) = n
    BY <2>1
  <2>3. ASSUME NEW c \in 1 .. n
        PROVE  w[c] = choices[c].weight /\ w[c] \in Nat
    <3>1. w[c] = choices[c].weight
      BY DEF Weights
    <3>2. w[c] \in Nat
      BY <2>2
    <3> QED
      BY <3>1, <3>2
  <2> QED
    BY <2>2, <2>3
<1>2. PICK f : Sums(f, w)
  BY SumsOfWeights
<1>3. SUFFICES ASSUME n > 1, NEW c \in 1 .. n
               PROVE  Cardinality(Taken(c)) = choices[c].weight
  BY <1>1, Zenon DEF InProportion
<1>n. c \in Nat /\ n \in Nat /\ n # 1
  <2>1. n \in Nat
    BY <1>1
  <2> HIDE DEF n, w, Taken
  <2>2. n # 1
    BY <1>3, <2>1
  <2> QED
    BY <2>1, <2>2
<1>4. /\ f[0] = 0
      /\ \A d \in 1 .. n : f[d] = f[d - 1] + w[d]
      /\ \A d \in 0 .. n : f[d] \in Nat /\ f[d] = Total(SubSeq(w, 1, d))
      /\ \A d, e \in 0 .. n : d <= e => f[d] <= f[e]
      /\ f[n] = Total(w)
  BY <1>1, <1>2 DEF Sums
<1>5. ASSUME NEW r \in Nat, r < f[n]
      PROVE  WeightedChoice(choices, r) = c <=> f[c - 1] <= r /\ r < f[c]
  <2> DEFINE Picks(d) == /\ r - Total(SubSeq(w, 1, d)) < 0
                         /\ \A e \in 1 .. d - 1 : r - Total(SubSeq(w, 1, e)) >= 0
  <2>1. ASSUME NEW d \in 1 .. n
        PROVE  Picks(d) <=> f[d - 1] <= r /\ r < f[d]
    <3> HIDE DEF w, n, Taken, Picks
    <3>1. \A e \in 1 .. n : Total(SubSeq(w, 1, e)) = f[e] /\ f[e] \in Nat
      <4>1. \A e \in 1 .. n : e \in 0 .. n
        BY <1>n
      <4> QED
        BY <1>4, <4>1, Zenon
    <3>2. f[d - 1] \in Nat
      <4>1. d - 1 \in 0 .. n
        BY <1>n
      <4> QED
        BY <1>4, <4>1, Zenon
    <3> USE DEF Picks
    <3>3. ASSUME Picks(d)
          PROVE  f[d - 1] <= r /\ r < f[d]
      <4>0. \A x, y \in Nat : x - y < 0 => x < y
        OBVIOUS
      <4>1. r < f[d]
        BY <3>1, <3>3, <4>0
      <4>2. CASE d = 1
        BY <1>4, <4>1, <4>2
      <4>3. CASE d > 1
        <5>0. \A x, y \in Nat : x - y >= 0 => y <= x
          OBVIOUS
        <5>1. d - 1 \in 1 .. d - 1 /\ d - 1 \in 1 .. n
          BY <1>1, <4>3
        <5>2. r - Total(SubSeq(w, 1, d - 1)) >= 0
          BY <3>3, <5>1, Zenon
        <5>3. r - f[d - 1] >= 0
          BY <3>1, <5>1, <5>2, Zenon
        <5>4. f[d - 1] <= r
          BY <3>2, <5>0, <5>3, Zenon
        <5> QED
          BY <4>1, <5>4, Zenon
      <4> QED
        BY <4>2, <4>3
    <3>4. ASSUME f[d - 1] <= r, r < f[d]
          PROVE  Picks(d)
      <4>1. r - Total(SubSeq(w, 1, d)) < 0
        <5>0. \A x, y \in Nat : x < y => x - y < 0
          OBVIOUS
        <5>1. Total(SubSeq(w, 1, d)) = f[d] /\ f[d] \in Nat
          BY <3>1, Zenon
        <5> QED
          BY <3>4, <5>0, <5>1, Zenon
      <4>2. ASSUME NEW e \in 1 .. d - 1
            PROVE  r - Total(SubSeq(w, 1, e)) >= 0
        <5>1. e \in 1 .. n /\ e \in 0 .. n /\ d - 1 \in 0 .. n /\ e <= d - 1
          BY <1>1
        <5>2. f[e] <= f[d - 1]
          BY <1>4, <5>1, Zenon
        <5>3. Total(SubSeq(w, 1, e)) = f[e] /\ f[e] \in Nat
          BY <3>1, <5>1, Zenon
        <5>4. \A x, y, z \in Nat : x <= y /\ y <= z => z - x >= 0
          OBVIOUS
        <5> QED
          BY <3>2, <3>4, <5>2, <5>3, <5>4, Zenon
      <4> QED
        BY <4>1, <4>2
    <3> QED
      BY <3>3, <3>4
  <2>2. WeightedChoice(choices, r) = CHOOSE d \in 1 .. n : Picks(d)
    <3>1. WeightedChoice(choices, r) = CHOOSE d \in DOMAIN choices : Picks(d)
      BY <1>n, Zenon DEF WeightedChoice
    <3>2. DOMAIN choices = 1 .. n
      BY <1>1
    <3> HIDE DEF Picks
    <3> QED
      BY <3>1, <3>2, Zenon
  <2>3. \E d \in 1 .. n : f[d - 1] <= r /\ r < f[d]
    BY <1>1, <1>2, <1>5, BetweenSums
  <2> DEFINE d == CHOOSE d \in 1 .. n : Picks(d)
  <2>4. d \in 1 .. n /\ Picks(d)
    <3> HIDE DEF Picks
    <3>1. \E e \in 1 .. n : Picks(e)
      BY <2>1, <2>3
    <3> QED
      BY <3>1
  <2> HIDE DEF d, Picks
  <2>5. f[d - 1] <= r /\ r < f[d]
    BY <2>1, <2>4
  <2>6. ASSUME f[c - 1] <= r, r < f[c]
        PROVE  d = c
    <3>1. c - 1 \in 0 .. n /\ c \in 0 .. n /\ d - 1 \in 0 .. n /\ d \in 0 .. n
      BY <1>1, <2>4
    <3> HIDE DEF n, w, Taken
    <3>2. /\ f[c - 1] \in Nat /\ f[c] \in Nat /\ f[d - 1] \in Nat /\ f[d] \in Nat
          /\ d <= c - 1 => f[d] <= f[c - 1]
          /\ c <= d - 1 => f[c] <= f[d - 1]
      BY <1>4, <3>1, Zenon
    <3>3. /\ d \in Nat /\ ~ (d <= c - 1) /\ ~ (c <= d - 1)
      <4>0. \A x, y, z \in Nat : z < y /\ x <= z => ~ (y <= x)
        OBVIOUS
      <4>1. d \in Nat
        BY <2>4
      <4>2. ~ (d <= c - 1)
        BY <2>5, <2>6, <3>2, <4>0, Zenon
      <4>3. ~ (c <= d - 1)
        BY <2>5, <2>6, <3>2, <4>0, Zenon
      <4> QED
        BY <4>1, <4>2, <4>3
    <3> QED
      BY <1>n, <3>3
  <2> QED
    BY <2>2, <2>5, <2>6 DEF d
<1>6. /\ f[c - 1] \in Nat /\ f[c] \in Nat /\ f[n] \in Nat
      /\ f[c] <= f[n] /\ f[c] = f[c - 1] + w[c] /\ w[c] \in Nat
  <2>1. c - 1 \in 0 .. n /\ c \in 0 .. n /\ n \in 0 .. n /\ c <= n
    BY <1>1
  <2>2. w[c] \in Nat
    BY <1>1
  <2> HIDE DEF n, w
  <2> QED
    BY <1>4, <2>1, <2>2
<1> HIDE DEF n, w
<1>7. Taken(c) = f[c - 1] .. f[c] - 1
  <2>1. \A r \in 0 .. Total(w) - 1 : r \in Nat /\ r < f[n]
    BY <1>4, <1>6
  <2>2. ASSUME NEW r
        PROVE  r \in Taken(c) <=> r \in f[c - 1] .. f[c] - 1
    <3>1. ASSUME r \in Taken(c)
          PROVE  r \in f[c - 1] .. f[c] - 1
      <4>1. r \in Nat /\ r < f[n] /\ WeightedChoice(choices, r) = c
        BY <2>1, <3>1
      <4>2. f[c - 1] <= r /\ r < f[c]
        BY <1>5, <4>1, Zenon
      <4>3. \A x, y, z \in Nat : x <= z /\ z < y => z \in x .. y - 1
        OBVIOUS
      <4> QED
        BY <1>6, <4>1, <4>2, <4>3, Zenon
    <3>2. ASSUME r \in f[c - 1] .. f[c] - 1
          PROVE  r \in Taken(c)
      <4>1. r \in Nat /\ f[c - 1] <= r /\ r < f[c] /\ r < f[n] /\ r \in 0 .. f[n] - 1
        <5>1. f[c - 1] \in Nat /\ f[c] \in Nat /\ f[n] \in Nat /\ f[c] <= f[n]
          BY <1>6, Zenon
        <5> DEFINE x == f[c - 1]
                   y == f[c]
                   z == f[n]
        <5>2. x \in Nat /\ y \in Nat /\ z \in Nat /\ y <= z /\ r \in x .. y - 1
          BY <3>2, <5>1, Zenon
        <5> HIDE DEF x, y, z
        <5>3. r \in Nat /\ x <= r /\ r < y /\ r < z /\ r \in 0 .. z - 1
          BY <5>2
        <5> QED
          BY <5>3, Zenon DEF x, y, z
      <4>2. WeightedChoice(choices, r) = c
        BY <1>5, <4>1
      <4>3. r \in 0 .. Total(w) - 1
        BY <1>4, <4>1, Zenon
      <4> QED
        BY <4>2, <4>3, Zenon
    <3> QED
      BY <3>1, <3>2
  <2> HIDE DEF Taken
  <2> QED
    BY <2>2
<1>8. Cardinality(f[c - 1] .. f[c] - 1) = w[c]
  <2>1. f[c - 1] \in Int /\ f[c] - 1 \in Int
    BY <1>6
  <2>2. Cardinality(f[c - 1] .. f[c] - 1)
          = IF f[c - 1] > f[c] - 1 THEN 0 ELSE (f[c] - 1) - f[c - 1] + 1
    BY <2>1, FS_Interval
  <2> DEFINE a == f[c - 1]
             b == f[c]
  <2>3. a \in Nat /\ b \in Nat /\ b = a + w[c] /\ w[c] \in Nat
    BY <1>6
  <2>4. Cardinality(a .. b - 1) = IF a > b - 1 THEN 0 ELSE (b - 1) - a + 1
    BY <2>2
  <2> HIDE DEF a, b
  <2>5. Cardinality(a .. b - 1) = w[c]
    <3>1. CASE a > b - 1
      <4>0. \A x, y, z \in Nat : y = x + z /\ x > y - 1 => z = 0
        OBVIOUS
      <4>1. w[c] = 0
        BY <2>3, <3>1, <4>0
      <4> QED
        BY <2>4, <3>1, <4>1
    <3>2. CASE ~ (a > b - 1)
      <4>0. \A x, y, z \in Nat : y = x + z => (y - 1) - x + 1 = z
        OBVIOUS
      <4>1. (b - 1) - a + 1 = w[c]
        BY <2>3, <4>0
      <4> QED
        BY <2>4, <3>2, <4>1
    <3> QED
      BY <3>1, <3>2
  <2> QED
    BY <2>5 DEF a, b
<1> HIDE DEF Taken
<1> QED
  BY <1>1, <1>7, <1>8

(* The weights of a user's teams, and of its channels in one, are numbers, *)
(* whatever was generated, so that each is picked in proportion.           *)
THEOREM ChoicesInProportion == GenSpec => []PicksInProportion
<1>1. DataTypeOK => PicksInProportion
  <2> SUFFICES ASSUME DataTypeOK, NEW u \in User
               PROVE  /\ InProportion(users[u])
                      /\ \A t \in DOMAIN users[u] : InProportion(users[u][t].channels)
    BY DEF PicksInProportion
  <2>1. users[u] \in Seq(Team)
    BY DEF DataTypeOK, User
  <2>2. InProportion(users[u])
    <3>1. ASSUME NEW t \in DOMAIN users[u]
          PROVE  users[u][t].weight \in Nat
      <4>1. users[u][t] \in Team
        BY <2>1, <3>1
      <4> QED
        BY <4>1 DEF Team
    <3>2. Len(users[u]) \in Nat /\ DOMAIN users[u] = 1 .. Len(users[u])
      BY <2>1
    <3>3. Weights(users[u]) \in Seq(Nat)
      BY <3>1, <3>2 DEF Weights
    <3> QED
      BY <3>2, <3>3, ChoiceInProportion
  <2>3. ASSUME NEW t \in DOMAIN users[u]
        PROVE  InProportion(users[u][t].channels)
    <3> DEFINE channels == users[u][t].channels
    <3>1. users[u][t] \in Team
      BY <2>1, <2>3
    <3>2. channels \in Seq(Channel)
      BY <3>1 DEF Team
    <3> HIDE DEF channels
    <3>3. ASSUME NEW c \in DOMAIN channels
          PROVE  channels[c].weight \in Nat
      <4>1. channels[c] \in Channel
        BY <3>2, <3>3
      <4> QED
        BY <4>1 DEF Channel
    <3>4. Len(channels) \in Nat /\ DOMAIN channels = 1 .. Len(channels)
      BY <3>2
    <3>5. Weights(channels) \in Seq(Nat)
      BY <3>3, <3>4 DEF Weights
    <3>6. InProportion(channels)
      BY <3>4, <3>5, ChoiceInProportion
    <3> QED
      BY <3>6 DEF channels
  <2> QED
    BY <2>2, <2>3
<1> QED
  BY <1>1, StaysDecided, PTL DEF GenInv

-----------------------------------------------------------------------------
(* Direct and group channels.                                              *)

(* A product grows with its factors.                                       *)
LEMMA ProductsGrow ==
  \A a, b, c, d \in Nat : a <= c /\ b <= d => a * b \in Nat /\ c * d \in Nat /\ a * b <= c * d
<1> SUFFICES ASSUME NEW a \in Nat, NEW b \in Nat, NEW c \in Nat, NEW d \in Nat,
                    a <= c, b <= d
             PROVE  a * b \in Nat /\ c * d \in Nat /\ a * b <= c * d
  OBVIOUS
<1>1. a * b \in Nat /\ c * b \in Nat /\ c * d \in Nat
  OBVIOUS
<1>2. a * b <= c * b
  <2>1. (c - a) * b >= 0 /\ c * b = a * b + (c - a) * b
    OBVIOUS
  <2> QED
    BY <1>1, <2>1
<1>3. c * b <= c * d
  <2>1. c * (d - b) >= 0 /\ c * d = c * b + c * (d - b)
    OBVIOUS
  <2> QED
    BY <1>1, <2>1
<1>4. \A x, y, z \in Nat : x <= y /\ y <= z => x <= z
  OBVIOUS
<1> QED
  BY <1>1, <1>2, <1>3, <1>4, Zenon

(* The root of m, rounded down, is the last number whose square is at most *)
(* m.                                                                      *)
LEMMA RootSquare ==
  ASSUME NEW m \in Nat
  PROVE  /\ Root(m) \in Nat
         /\ Root(m) * Root(m) <= m
         /\ m < (Root(m) + 1) * (Root(m) + 1)
<1> DEFINE S == {k \in Nat : \E q \in Nat : q * q <= k /\ k < (q + 1) * (q + 1)}
<1>1. 0 \in S
  <2>1. 0 \in Nat /\ 0 * 0 <= 0 /\ 0 < (0 + 1) * (0 + 1)
    OBVIOUS
  <2> QED
    BY <2>1
<1>2. ASSUME NEW k \in Nat, k \in S
      PROVE  k + 1 \in S
  <2>1. PICK q \in Nat : q * q <= k /\ k < (q + 1) * (q + 1)
    BY <1>2
  <2>2. (q + 1) * (q + 1) \in Nat /\ q * q \in Nat
    BY <2>1
  <2>3. CASE k + 1 < (q + 1) * (q + 1)
    <3>1. q * q <= k + 1
      BY <2>1, <2>2
    <3> QED
      BY <2>3, <3>1
  <2>4. CASE k + 1 = (q + 1) * (q + 1)
    <3>1. ((q + 1) + 1) * ((q + 1) + 1) = (q + 1) * (q + 1) + 2 * (q + 1) + 1
      BY <2>1
    <3>2. k + 1 < ((q + 1) + 1) * ((q + 1) + 1)
      BY <2>2, <2>4, <3>1
    <3>3. q + 1 \in Nat /\ (q + 1) * (q + 1) <= k + 1
      BY <2>2, <2>4
    <3> DEFINE p == q + 1
    <3>4. p \in Nat /\ p * p <= k + 1 /\ k + 1 < (p + 1) * (p + 1)
      BY <3>2, <3>3
    <3> HIDE DEF p
    <3>5. \E r \in Nat : r * r <= k + 1 /\ k + 1 < (r + 1) * (r + 1)
      BY <3>4, Zenon
    <3>6. k + 1 \in Nat
      OBVIOUS
    <3> QED
      BY <3>5, <3>6, Zenon
  <2> QED
    BY <2>1, <2>2, <2>3, <2>4
<1> HIDE DEF S
<1>3. Nat \subseteq S
  BY <1>1, <1>2, Induction
<1>4. PICK q \in Nat : q * q <= m /\ m < (q + 1) * (q + 1)
  BY <1>3 DEF S
<1>5. ASSUME NEW p \in Nat, NEW r \in Nat, p <= r
      PROVE  p * p <= r * r
  BY <1>5
<1>6. {p \in 1 .. m : p * p <= m} = 1 .. q
  <2>1. ASSUME NEW p \in 1 .. m, p * p <= m
        PROVE  p \in 1 .. q
    <3>1. CASE p >= q + 1
      <4>1. (q + 1) * (q + 1) <= p * p
        <5>1. q + 1 \in Nat /\ p \in Nat /\ q + 1 <= p
          BY <3>1
        <5> QED
          BY <5>1, <1>5, Zenon
      <4>2. (q + 1) * (q + 1) \in Nat /\ p * p \in Nat
        OBVIOUS
      <4> QED
        BY <1>4, <2>1, <4>1, <4>2
    <3> QED
      BY <3>1
  <2>2. ASSUME NEW p \in 1 .. q
        PROVE  p \in 1 .. m /\ p * p <= m
    <3>1. p * p <= q * q /\ p * p \in Nat /\ q * q \in Nat
      BY <1>5
    <3>2. p * p >= p
      OBVIOUS
    <3> QED
      BY <1>4, <3>1, <3>2
  <2> QED
    BY <2>1, <2>2
<1>7. Cardinality(1 .. q) = q
  <2>1. Cardinality(1 .. q) = IF 1 > q THEN 0 ELSE q - 1 + 1
    BY FS_Interval
  <2>2. CASE q = 0
    BY <2>1, <2>2
  <2>3. CASE q > 0
    <3>1. q - 1 + 1 = q /\ ~ (1 > q)
      BY <2>3
    <3> QED
      BY <2>1, <3>1
  <2> QED
    BY <2>2, <2>3
<1>8. Root(m) = q
  BY <1>6, <1>7 DEF Root
<1> QED
  BY <1>4, <1>8

(* One of two neighbouring numbers is even.                                *)
LEMMA Neighbours ==
  ASSUME NEW n \in Int
  PROVE  /\ n * (n - 1) = 2 * ((n * (n - 1)) \div 2)
         /\ (n * (n - 1)) \div 2 \in Int
<1> DEFINE h == n \div 2
<1>1. h \in Int /\ (n = 2 * h \/ n = 2 * h + 1)
  OBVIOUS
<1> HIDE DEF h
<1>2. \A c \in Int : (2 * c) \div 2 = c
  OBVIOUS
<1>3. CASE n = 2 * h
  <2>1. n * (n - 1) = 2 * (h * (n - 1))
    BY <1>1, <1>3
  <2>2. h * (n - 1) \in Int
    BY <1>1
  <2> QED
    BY <1>2, <2>1, <2>2
<1>4. CASE n = 2 * h + 1
  <2>1. n * (n - 1) = 2 * (n * h)
    BY <1>1, <1>4
  <2>2. n * h \in Int
    BY <1>1
  <2> QED
    BY <1>2, <2>1, <2>2
<1> QED
  BY <1>1, <1>3, <1>4

(* The k-th of the pairs among n users: two of them, in order, which tell  *)
(* its number again.                                                       *)
LEMMA PairNumbered ==
  ASSUME NEW n \in Nat, NEW k \in Nat, k < (n * (n - 1)) \div 2
  PROVE  \E i, j \in Nat :
           /\ DirectPair(n, k) = <<i, j>>
           /\ i < j /\ j < n
           /\ k = (j - i - 1) + (n * (n - 1)) \div 2 - ((n - i) * (n - i - 1)) \div 2
<1> DEFINE P == (n * (n - 1)) \div 2
           m == 4 * n * (n - 1) - 8 * k - 7
           l == P - 1 - k
           q == Root(m)
           r == (q - 1) \div 2
           T == ((r + 2) * ((r + 2) - 1)) \div 2
           i == n - 2 - r
           j == k + i + 1 - P + ((n - i) * (n - i - 1)) \div 2
<1>1. P \in Int /\ n * (n - 1) = 2 * P /\ k < P
  BY Neighbours
<1>2. m = 8 * l + 1
  <2>1. 4 * n * (n - 1) = 4 * (n * (n - 1))
    OBVIOUS
  <2> HIDE DEF P
  <2> QED
    BY <1>1, <2>1
<1>p. DirectPair(n, k) = <<i, j>>
  BY DEF DirectPair
<1> HIDE DEF P
<1>3. l \in Nat /\ P = l + 1 + k
  BY <1>1
<1> HIDE DEF l, m
<1>4. m \in Nat /\ m >= 1
  BY <1>2, <1>3
<1>5. q \in Nat /\ q * q <= m /\ m < (q + 1) * (q + 1)
  BY <1>4, RootSquare
<1> HIDE DEF q
<1>6. q # 0
  BY <1>4, <1>5
<1>7. r \in Nat /\ (q = 2 * r + 1 \/ q = 2 * r + 2)
  BY <1>5, <1>6
<1> HIDE DEF r
<1>8. r * (r + 1) <= 2 * l
  <2>1. (2 * r + 1) * (2 * r + 1) = 4 * (r * (r + 1)) + 1
    BY <1>7
  <2>2. (2 * r + 1) * (2 * r + 1) <= q * q
    <3>1. 2 * r + 1 \in Nat /\ q \in Nat /\ 2 * r + 1 <= q
      BY <1>5, <1>7
    <3> QED
      BY <3>1, ProductsGrow, Zenon
  <2>3. r * (r + 1) \in Nat /\ q * q \in Nat
    BY <1>5, <1>7
  <2> QED
    BY <1>2, <1>3, <1>5, <2>1, <2>2, <2>3
<1>9. 2 * l < (r + 2) * (r + 1)
  <2>1. (2 * r + 3) * (2 * r + 3) = 4 * ((r + 2) * (r + 1)) + 1
    BY <1>7
  <2>2. (q + 1) * (q + 1) <= (2 * r + 3) * (2 * r + 3)
    <3>1. q + 1 \in Nat /\ 2 * r + 3 \in Nat /\ q + 1 <= 2 * r + 3
      BY <1>5, <1>7
    <3> QED
      BY <3>1, ProductsGrow, Zenon
  <2>3. (r + 2) * (r + 1) \in Nat /\ (q + 1) * (q + 1) \in Nat
    <3>1. r + 2 \in Nat /\ r + 1 \in Nat /\ q + 1 \in Nat
      BY <1>5, <1>7
    <3>2. \A x, y \in Nat : x * y \in Nat
      OBVIOUS
    <3> QED
      BY <3>1, <3>2, Zenon
  <2> QED
    BY <1>2, <1>3, <1>5, <2>1, <2>2, <2>3
<1>10. T \in Int /\ (r + 2) * (r + 1) = 2 * T
  <2>1. r + 2 \in Int /\ (r + 2) - 1 = r + 1
    BY <1>7
  <2>2. (r + 2) * ((r + 2) - 1) = 2 * T /\ T \in Int
    BY <2>1, Neighbours
  <2> HIDE DEF T
  <2> QED
    BY <2>1, <2>2
<1>11. r < n - 1
  <2>0. r * (r + 1) \in Nat /\ n * (n - 1) \in Int
    BY <1>7
  <2>1. r * (r + 1) < n * (n - 1)
    <3> DEFINE x == r * (r + 1)
               y == n * (n - 1)
    <3>1. x \in Nat /\ y \in Int /\ x <= 2 * l /\ y = 2 * P
      BY <1>1, <1>8, <2>0
    <3> HIDE DEF x, y, i, j, T
    <3>2. x < y
      BY <1>3, <3>1
    <3> QED
      BY <3>2 DEF x, y
  <2>2. n # 0
    BY <2>0, <2>1
  <2>3. CASE r >= n - 1
    <3>1. n - 1 \in Nat /\ n - 1 <= r /\ n <= r + 1 /\ r + 1 \in Nat
      BY <1>7, <2>2, <2>3
    <3>2. (n - 1) * n <= r * (r + 1)
      BY <1>7, <3>1, ProductsGrow, Zenon
    <3>3. (n - 1) * n = n * (n - 1)
      OBVIOUS
    <3>4. \A x \in Nat : \A y \in Int : ~ (x < y /\ y <= x)
      OBVIOUS
    <3> QED
      BY <2>0, <2>1, <3>2, <3>3, <3>4, Zenon
  <2> QED
    BY <1>7, <2>3
<1>12. /\ i \in Nat /\ n - i = r + 2 /\ n - i - 1 = (r + 2) - 1
  BY <1>7, <1>11
<1>13. ((n - i) * (n - i - 1)) \div 2 = T
  <2> HIDE DEF i
  <2> QED
    BY <1>12
<1> HIDE DEF T
<1>14. l < T /\ T <= l + r + 1
  <2>1. (r + 2) * (r + 1) = r * (r + 1) + 2 * (r + 1)
    BY <1>7
  <2>2. r * (r + 1) \in Nat
    BY <1>7
  <2> QED
    BY <1>3, <1>7, <1>8, <1>9, <1>10, <2>1, <2>2
<1>15. j = k + i + 1 - P + T
  <2> HIDE DEF i
  <2> QED
    BY <1>13
<1>16. i < j /\ j < n /\ j \in Nat
  <2>1. i = n - 2 - r
    OBVIOUS
  <2> HIDE DEF i, j
  <2> QED
    BY <1>1, <1>3, <1>7, <1>10, <1>12, <1>14, <1>15, <2>1
<1>17. k = (j - i - 1) + P - ((n - i) * (n - i - 1)) \div 2
  <2> HIDE DEF i, j
  <2> QED
    BY <1>1, <1>10, <1>12, <1>13, <1>15, <1>16
<1> HIDE DEF i, j
<1> QED
  BY <1>12, <1>16, <1>17, <1>p DEF P

(* Not more pairs are asked for than there are.                            *)
LEMMA MaxDirectPairs ==
  ASSUME NEW n \in Nat
  PROVE  MaxDirect(n) <= (n * (n - 1)) \div 2
<1> DEFINE h == n \div 2
           P == (n * (n - 1)) \div 2
<1>1. h \in Nat /\ 2 * h <= n
  OBVIOUS
<1>2. P \in Int /\ n * (n - 1) = 2 * P
  BY Neighbours
<1>3. MaxDirect(n) = h * (n - 1)
  BY DEF MaxDirect
<1> HIDE DEF h, P
<1>4. CASE n = 0
  <2>1. h = 0 /\ n * (n - 1) = 0 /\ h * (n - 1) = 0
    BY <1>1, <1>4
  <2> QED
    BY <1>2, <1>3, <2>1 DEF P
<1>5. CASE n > 0
  <2>1. n - 1 \in Nat /\ 2 * h \in Nat /\ n - 1 <= n - 1
    BY <1>1, <1>5
  <2>2. (2 * h) * (n - 1) <= n * (n - 1) /\ (2 * h) * (n - 1) \in Nat
    BY <1>1, <2>1, ProductsGrow, Zenon
  <2>3. (2 * h) * (n - 1) = 2 * (h * (n - 1)) /\ h * (n - 1) \in Int
    BY <1>1
  <2> DEFINE x == h * (n - 1)
  <2>4. x \in Int /\ 2 * x <= 2 * P
    BY <1>2, <2>2, <2>3
  <2> HIDE DEF x
  <2>5. x <= P
    BY <1>2, <2>4
  <2> QED
    BY <1>3, <2>5 DEF x, P
<1> QED
  BY <1>4, <1>5

(* The members of the k-th direct channel: two users, and others than      *)
(* those of any other direct channel.                                      *)
Members(k) == {DirectPair(NumUsers, k - 1)[1] + 1, DirectPair(NumUsers, k - 1)[2] + 1}

LEMMA MembersOfPair ==
  ASSUME NEW k \in Nat, k > 0, k <= MaxDirect(NumUsers)
  PROVE  \E i, j \in Nat :
           /\ Members(k) = {i + 1, j + 1} /\ i < j /\ j < NumUsers
           /\ k - 1 = (j - i - 1) + (NumUsers * (NumUsers - 1)) \div 2
                        - ((NumUsers - i) * (NumUsers - i - 1)) \div 2
<1> DEFINE P == (NumUsers * (NumUsers - 1)) \div 2
           m == MaxDirect(NumUsers)
<1>1. NumUsers \in Nat /\ m \in Nat /\ P \in Int /\ m <= P
  BY PipelineAssumption, MaxDirectPairs, MaxDirectNat, Neighbours
<1>2. k - 1 \in Nat /\ k - 1 < P
  <2> HIDE DEF P
  <2>1. k <= m
    OBVIOUS
  <2> HIDE DEF m
  <2> QED
    BY <1>1, <2>1
<1>3. PICK i, j \in Nat :
        /\ DirectPair(NumUsers, k - 1) = <<i, j>>
        /\ i < j /\ j < NumUsers
        /\ k - 1 = (j - i - 1) + P - ((NumUsers - i) * (NumUsers - i - 1)) \div 2
  BY <1>1, <1>2, PairNumbered
<1>4. Members(k) = {i + 1, j + 1}
  BY <1>3 DEF Members
<1> QED
  BY <1>3, <1>4

LEMMA MembersDistinct ==
  ASSUME NEW k \in Nat, k > 0, k <= MaxDirect(NumUsers),
         NEW l \in Nat, l > 0, l <= MaxDirect(NumUsers)
  PROVE  /\ Members(k) \subseteq User /\ Cardinality(Members(k)) = 2
         /\ Members(k) = Members(l) => k = l
<1> DEFINE rest(i) == (NumUsers * (NumUsers - 1)) \div 2
                        - ((NumUsers - i) * (NumUsers - i - 1)) \div 2
<1>1. PICK i, j \in Nat :
        /\ Members(k) = {i + 1, j + 1} /\ i < j /\ j < NumUsers
        /\ k - 1 = (j - i - 1) + (NumUsers * (NumUsers - 1)) \div 2
                     - ((NumUsers - i) * (NumUsers - i - 1)) \div 2
  BY MembersOfPair
<1>2. PICK a, b \in Nat :
        /\ Members(l) = {a + 1, b + 1} /\ a < b /\ b < NumUsers
        /\ l - 1 = (b - a - 1) + (NumUsers * (NumUsers - 1)) \div 2
                     - ((NumUsers - a) * (NumUsers - a - 1)) \div 2
  BY MembersOfPair
<1>3. Members(k) \subseteq User
  BY <1>1, PipelineAssumption DEF User
<1>4. Cardinality(Members(k)) = 2
  <2>1. IsFiniteSet({i + 1}) /\ Cardinality({i + 1}) = 1
    BY FS_Singleton
  <2>2. j + 1 \notin {i + 1} /\ Members(k) = {i + 1} \cup {j + 1}
    BY <1>1
  <2>3. Cardinality({i + 1} \cup {j + 1}) = Cardinality({i + 1}) + 1
    BY <2>1, <2>2, FS_AddElement
  <2> QED
    BY <2>1, <2>2, <2>3
<1>5. ASSUME Members(k) = Members(l)
      PROVE  k = l
  <2>1. i = a /\ j = b
    <3>1. {i + 1, j + 1} = {a + 1, b + 1} /\ i < j /\ a < b
      BY <1>1, <1>2, <1>5
    <3>2. /\ i + 1 = a + 1 \/ i + 1 = b + 1
          /\ j + 1 = a + 1 \/ j + 1 = b + 1
      BY <3>1, Zenon
    <3>3. (i = a \/ i = b) /\ (j = a \/ j = b) /\ (a = i \/ a = j)
      <4>1. a + 1 = i + 1 \/ a + 1 = j + 1
        BY <3>1, Zenon
      <4> QED
        BY <3>2, <4>1
    <3> QED
      BY <3>1, <3>3
  <2>2. k - 1 = l - 1
    BY <1>1, <1>2, <2>1, Zenon
  <2> QED
    BY <2>2
<1> QED
  BY <1>3, <1>4, <1>5

(* There are no direct channels before they are made.                      *)
NoneBefore == phase \in {"teams", "channels", "direct"} => directChannels = <<>>

(* Direct channels of two have the numbers of their pairs; a group is      *)
(* compared with those there are, and has members enough to be none of the *)
(* others.                                                                 *)
THEOREM DirectChannelsDiffer == GenSpec => []DirectChannelsDistinct
<1> DEFINE DInv == NoneBefore /\ DirectChannelsDistinct
<1>1. GenInit => DInv
  BY DEF GenInit, NoneBefore, DirectChannelsDistinct, IsInjective
<1>2. ASSUME GenInv, DInv, [GenNext]_allVars
      PROVE  DInv'
  <2> USE <1>2
  <2>0. directChannels \in Seq(SUBSET Int)
    BY DEF GenInv, DataTypeOK
  <2>1. ASSUME UNCHANGED directChannels,
               phase' \notin {"teams", "channels", "direct"}
                 \/ phase \in {"teams", "channels", "direct"}
        PROVE  DInv'
    BY <2>1 DEF NoneBefore, DirectChannelsDistinct, IsInjective, User
  <2>2. CASE AddTeam \/ AddChannel
    BY <2>1, <2>2 DEF AddTeam, AddChannel
  <2>3. CASE TeamDone \/ TeamsDone \/ GroupsGivenUp \/ GroupsDone
    BY <2>1, <2>3 DEF TeamDone, TeamsDone, GroupsGivenUp, GroupsDone, vars, data
  <2>4. CASE MakeDirectChannels
    <3> DEFINE num == IF NumDirect > MaxDirect(NumUsers) THEN MaxDirect(NumUsers) ELSE NumDirect
    <3>1. phase' = "group" /\ directChannels' = [k \in 1 .. num |-> Members(k)]
      BY <2>4 DEF MakeDirectChannels, Members
    <3>2. num \in Nat /\ num <= MaxDirect(NumUsers) /\ MaxDirect(NumUsers) \in Nat
      BY MaxDirectNat, PipelineAssumption, GenerationAssumption
    <3> HIDE DEF num
    <3>3. \A k \in 1 .. num : k \in Nat /\ k > 0 /\ k <= MaxDirect(NumUsers)
      BY <3>2
    <3>4. ASSUME NEW k \in 1 .. num, NEW l \in 1 .. num
          PROVE  /\ Members(k) \subseteq User /\ Cardinality(Members(k)) = 2
                 /\ Members(k) = Members(l) => k = l
      BY <3>3, MembersDistinct
    <3>5. DirectChannelsDistinct'
      <4>1. IsInjective([k \in 1 .. num |-> Members(k)])
        BY <3>4 DEF IsInjective
      <4>2. ASSUME NEW k \in 1 .. num
            PROVE  Members(k) \subseteq User /\ Cardinality(Members(k)) >= 2
        BY <3>4
      <4> QED
        BY <3>1, <4>1, <4>2 DEF DirectChannelsDistinct, User
    <3> QED
      BY <3>1, <3>5 DEF NoneBefore
  <2>5. CASE MakeGroupChannel
    <3>1. PICK count \in 3 .. GroupMax : \E members \in kSubset(count, User) :
            /\ \A k \in Groups : directChannels[k] # members
            /\ directChannels' = Append(directChannels, members)
      BY <2>5 DEF MakeGroupChannel
    <3>2. PICK members \in kSubset(count, User) :
            /\ \A k \in Groups : directChannels[k] # members
            /\ directChannels' = Append(directChannels, members)
      BY <3>1
    <3>3. members \subseteq User /\ Cardinality(members) >= 3
      <4>1. members \subseteq User /\ Cardinality(members) = count /\ count >= 3
        BY DEF kSubset
      <4> QED
        BY <4>1
    <3>4. \A k \in DOMAIN directChannels : directChannels[k] # members
      BY <3>2, <3>3 DEF Groups
    <3>5. UNCHANGED phase /\ phase = "group"
      BY <2>5 DEF MakeGroupChannel, own
    <3> DEFINE n == Len(directChannels)
    <3>6. members \subseteq Int
      BY <3>3 DEF User
    <3>7. /\ n \in Nat /\ DOMAIN directChannels = 1 .. n /\ DOMAIN directChannels' = 1 .. n + 1
          /\ \A k \in 1 .. n : directChannels'[k] = directChannels[k]
          /\ directChannels'[n + 1] = members
      BY <2>0, <3>2, <3>6
    <3> HIDE DEF n
    <3>8. IsInjective(directChannels')
      <4> SUFFICES ASSUME NEW a \in 1 .. n + 1, NEW b \in 1 .. n + 1,
                          directChannels'[a] = directChannels'[b]
                   PROVE  a = b
        BY <3>7 DEF IsInjective
      <4>1. (a \in 1 .. n \/ a = n + 1) /\ (b \in 1 .. n \/ b = n + 1)
        BY <3>7
      <4>2. CASE a \in 1 .. n /\ b \in 1 .. n
        BY <3>7, <4>2 DEF DirectChannelsDistinct, IsInjective
      <4>3. CASE a \in 1 .. n /\ b = n + 1
        BY <3>4, <3>7, <4>3
      <4>4. CASE a = n + 1 /\ b \in 1 .. n
        BY <3>4, <3>7, <4>4
      <4> QED
        BY <4>1, <4>2, <4>3, <4>4
    <3>9. ASSUME NEW k \in 1 .. n + 1
          PROVE  directChannels'[k] \subseteq User /\ Cardinality(directChannels'[k]) >= 2
      <4>1. CASE k \in 1 .. n
        BY <3>7, <4>1 DEF DirectChannelsDistinct
      <4>2. CASE k = n + 1
        <5>1. members \subseteq User /\ Cardinality(members) \in Nat /\ Cardinality(members) >= 2
          <6>1. Cardinality(members) = count /\ count \in Nat
            BY DEF kSubset
          <6> QED
            BY <3>3, <6>1
        <5> QED
          BY <3>7, <4>2, <5>1
      <4> QED
        BY <3>7, <4>1, <4>2
    <3> QED
      BY <3>5, <3>7, <3>8, <3>9 DEF NoneBefore, DirectChannelsDistinct, User
  <2>6. CASE Writing(Sender) \/ Writing(Encoder)
    <3>1. phase = "lines" /\ UNCHANGED own
      BY <2>6 DEF Writing
    <3>2. UNCHANGED data
      BY <2>6 DEF Writing, Sender, Encoder, SendHead, SendUser, SendEmoji, Restore,
                  SendMembers, SkipTeam, SendDirect, Close, Return, Receive, Encode
    <3> QED
      BY <2>1, <3>1, <3>2 DEF own, data
  <2>7. CASE UNCHANGED allVars
    BY <2>1, <2>7 DEF allVars, vars, own, data
  <2> QED
    BY <2>2, <2>3, <2>4, <2>5, <2>6, <2>7 DEF GenNext, Choosing
<1> QED
  BY <1>1, <1>2, StaysDecided, PTL DEF GenSpec

-----------------------------------------------------------------------------
(* Members of teams and channels.                                          *)

(* Who is in a team, and in a channel of it.                               *)
InTheTeam(us, x) == {u \in User : \E t \in DOMAIN us[u] : us[u][t].team = x}

InTheChannel(us, x, ch) ==
  {u \in User : \E t \in DOMAIN us[u] :
     /\ us[u][t].team = x
     /\ \E c \in DOMAIN us[u][t].channels : us[u][t].channels[c].channel = ch}

(* Nobody is in a team twice.                                              *)
TeamsOnce(us) ==
  \A u \in User : \A t, r \in DOMAIN us[u] : us[u][t].team = us[u][r].team => t = r

Memberships(us, x) ==
  {m \in User \X (1 .. NumTeams) : m[2] \in DOMAIN us[m[1]] /\ us[m[1]][m[2]].team = x}

(* There are as many memberships of a team as users in it, and as many of  *)
(* those that have something as users that have it.                        *)
LEMMA MembersCounted ==
  ASSUME NEW us, TeamsOnce(us), NEW x, NEW T \in SUBSET Memberships(us, x)
  PROVE  Cardinality(T) = Cardinality({m[1] : m \in T})
<1> DEFINE f == [m \in T |-> m[1]]
           S == {m[1] : m \in T}
<1>1. IsFiniteSet(T)
  <2>1. IsFiniteSet(User) /\ IsFiniteSet(1 .. NumTeams)
    BY FS_Interval, PipelineAssumption, GenerationAssumption DEF User
  <2>2. IsFiniteSet(User \X (1 .. NumTeams))
    BY <2>1, FS_Product
  <2>3. T \subseteq User \X (1 .. NumTeams)
    BY DEF Memberships
  <2> QED
    BY <2>2, <2>3, FS_Subset
<1>2. f \in Bijection(T, S)
  <2>1. f \in [T -> S]
    OBVIOUS
  <2>2. ASSUME NEW m \in T, NEW k \in T, f[m] = f[k]
        PROVE  m = k
    <3>1. /\ m \in User \X (1 .. NumTeams) /\ k \in User \X (1 .. NumTeams)
          /\ m[2] \in DOMAIN us[m[1]] /\ us[m[1]][m[2]].team = x
          /\ k[2] \in DOMAIN us[k[1]] /\ us[k[1]][k[2]].team = x
      BY DEF Memberships
    <3>2. m[1] = k[1]
      BY <2>2
    <3>3. m[2] = k[2]
      BY <3>1, <3>2 DEF TeamsOnce
    <3>4. m = <<m[1], m[2]>> /\ k = <<k[1], k[2]>>
      BY <3>1
    <3> QED
      BY <3>2, <3>3, <3>4
  <2>3. ASSUME NEW u \in S
        PROVE  \E m \in T : f[m] = u
    OBVIOUS
  <2> QED
    BY <2>1, <2>2, <2>3 DEF Bijection, Injection, Surjection, IsInjective
<1>3. ExistsBijection(T, S)
  BY <1>2 DEF ExistsBijection
<1> QED
  BY <1>1, <1>3, FS_Bijection

(* A team, or a channel of their last team, for those that are chosen.     *)
WithTeam(us, chosen, entry) ==
  [u \in User |-> IF u \in chosen THEN Append(us[u], entry) ELSE us[u]]

WithChannel(us, chosen, next) ==
  [u \in User |-> IF u \in chosen
                    THEN [us[u] EXCEPT ![Len(us[u])].channels = Append(@, next)]
                    ELSE us[u]]

(* What it means to have been given a team, or a channel of it.            *)
TeamGiven(us, vs, chosen, entry) ==
  /\ TeamsOnce(vs)
  /\ InTheTeam(vs, entry.team) = chosen
  /\ \A x : x # entry.team =>
       /\ InTheTeam(vs, x) = InTheTeam(us, x)
       /\ \A ch : InTheChannel(vs, x, ch) = InTheChannel(us, x, ch)
  /\ \A u \in User : Len(vs[u]) <= Len(us[u]) + 1
  /\ \A u \in chosen : Len(vs[u]) > 0 /\ vs[u][Len(vs[u])] = entry
  /\ \A u \in User : \A t \in DOMAIN vs[u] :
       vs[u][t] = entry \/ (t \in DOMAIN us[u] /\ vs[u][t] = us[u][t])

ChannelGiven(us, vs, chosen, x, next) ==
  /\ TeamsOnce(vs)
  /\ \A y : InTheTeam(vs, y) = InTheTeam(us, y)
  /\ \A y, ch : y # x \/ ch # next.channel =>
       InTheChannel(vs, y, ch) = InTheChannel(us, y, ch)
  /\ InTheChannel(vs, x, next.channel) = chosen
  /\ \A u \in User :
       /\ Len(vs[u]) = Len(us[u]) /\ DOMAIN vs[u] = DOMAIN us[u]
       /\ \A t \in DOMAIN us[u] :
            /\ vs[u][t].team = us[u][t].team
            /\ \A c \in DOMAIN vs[u][t].channels :
                 \/ vs[u][t].channels[c].channel = next.channel
                 \/ \E d \in DOMAIN us[u][t].channels :
                      vs[u][t].channels[c].channel = us[u][t].channels[d].channel

(* A team is added to those that are chosen for it.                        *)
LEMMA TeamJoined ==
  ASSUME NEW us \in [User -> Seq(Team)], NEW chosen \in SUBSET User, NEW entry \in Team,
         entry.channels = <<>>, TeamsOnce(us),
         \A u \in User : \A t \in DOMAIN us[u] : us[u][t].team # entry.team,
         NEW vs, vs = WithTeam(us, chosen, entry)
  PROVE  TeamGiven(us, vs, chosen, entry)
<1>0. \A u \in User : vs[u] = IF u \in chosen THEN Append(us[u], entry) ELSE us[u]
  BY DEF WithTeam
<1>1. ASSUME NEW u \in User
      PROVE  us[u] \in Seq(Team) /\ Len(us[u]) \in Nat /\ DOMAIN us[u] = 1 .. Len(us[u])
  OBVIOUS
<1>2. ASSUME NEW u \in chosen
      PROVE  /\ DOMAIN vs[u] = 1 .. Len(us[u]) + 1 /\ Len(vs[u]) = Len(us[u]) + 1
             /\ vs[u][Len(us[u]) + 1] = entry
             /\ \A t \in 1 .. Len(us[u]) : vs[u][t] = us[u][t]
  <2> DEFINE s == us[u]
  <2>1. s \in Seq(Team) /\ vs[u] = Append(s, entry)
    BY <1>0, <1>1
  <2> HIDE DEF s
  <2>2. /\ DOMAIN vs[u] = 1 .. Len(s) + 1 /\ Len(vs[u]) = Len(s) + 1
        /\ vs[u][Len(s) + 1] = entry
        /\ \A t \in 1 .. Len(s) : vs[u][t] = s[t]
    <3> DEFINE v == Append(s, entry)
    <3>1. /\ v \in Seq(Team) /\ Len(v) = Len(s) + 1 /\ v[Len(s) + 1] = entry
          /\ \A t \in 1 .. Len(s) : v[t] = s[t]
      BY <2>1
    <3>2. v = vs[u]
      BY <2>1
    <3> HIDE DEF v
    <3>3. DOMAIN v = 1 .. Len(s) + 1
      BY <3>1
    <3> QED
      BY <3>1, <3>2, <3>3, Zenon
  <2> QED
    BY <2>2 DEF s
<1>3. ASSUME NEW u \in User \ chosen
      PROVE  vs[u] = us[u]
  BY <1>0
<1>4. ASSUME NEW u \in User, NEW t \in DOMAIN vs[u]
      PROVE  \/ t \in DOMAIN us[u] /\ vs[u][t] = us[u][t]
             \/ u \in chosen /\ t = Len(us[u]) + 1 /\ vs[u][t] = entry
  <2>1. CASE u \in chosen
    <3>1. t \in 1 .. Len(us[u]) + 1
      BY <1>2, <2>1
    <3>2. t \in 1 .. Len(us[u]) \/ t = Len(us[u]) + 1
      BY <1>1, <3>1
    <3> QED
      BY <1>1, <1>2, <2>1, <3>2
  <2>2. CASE u \notin chosen
    BY <1>3, <2>2
  <2> QED
    BY <2>1, <2>2
<1>5. ASSUME NEW u \in User, NEW t \in DOMAIN us[u]
      PROVE  t \in DOMAIN vs[u] /\ vs[u][t] = us[u][t]
  <2>1. CASE u \in chosen
    <3>1. t \in 1 .. Len(us[u]) /\ t \in 1 .. Len(us[u]) + 1
      BY <1>1
    <3> QED
      BY <1>2, <2>1, <3>1
  <2>2. CASE u \notin chosen
    BY <1>3, <2>2
  <2> QED
    BY <2>1, <2>2
<1>6. TeamsOnce(vs)
  <2> SUFFICES ASSUME NEW u \in User, NEW t \in DOMAIN vs[u], NEW r \in DOMAIN vs[u],
                      vs[u][t].team = vs[u][r].team
               PROVE  t = r
    BY DEF TeamsOnce
  <2>1. /\ \/ t \in DOMAIN us[u] /\ vs[u][t] = us[u][t]
           \/ t = Len(us[u]) + 1 /\ vs[u][t] = entry
        /\ \/ r \in DOMAIN us[u] /\ vs[u][r] = us[u][r]
           \/ r = Len(us[u]) + 1 /\ vs[u][r] = entry
    BY <1>4
  <2> QED
    BY <2>1, Zenon DEF TeamsOnce
<1>7. InTheTeam(vs, entry.team) = chosen
  <2>1. ASSUME NEW u \in chosen
        PROVE  u \in InTheTeam(vs, entry.team)
    <3>1. Len(us[u]) + 1 \in DOMAIN vs[u]
      BY <1>1, <1>2
    <3> QED
      BY <1>2, <3>1 DEF InTheTeam
  <2>2. ASSUME NEW u \in InTheTeam(vs, entry.team)
        PROVE  u \in chosen
    BY <1>4 DEF InTheTeam
  <2> QED
    BY <2>1, <2>2
<1>8. ASSUME NEW x, x # entry.team
      PROVE  /\ InTheTeam(vs, x) = InTheTeam(us, x)
             /\ \A ch : InTheChannel(vs, x, ch) = InTheChannel(us, x, ch)
  <2>1. ASSUME NEW u \in User, NEW t \in DOMAIN vs[u], vs[u][t].team = x
        PROVE  t \in DOMAIN us[u] /\ vs[u][t] = us[u][t]
    BY <1>4, <1>8, <2>1
  <2>2. InTheTeam(vs, x) = InTheTeam(us, x)
    <3>1. ASSUME NEW u \in InTheTeam(vs, x)
          PROVE  u \in InTheTeam(us, x)
      BY <2>1, Zenon DEF InTheTeam
    <3>2. ASSUME NEW u \in InTheTeam(us, x)
          PROVE  u \in InTheTeam(vs, x)
      BY <1>5, Zenon DEF InTheTeam
    <3> QED
      BY <3>1, <3>2
  <2>3. ASSUME NEW ch
        PROVE  InTheChannel(vs, x, ch) = InTheChannel(us, x, ch)
    <3>1. ASSUME NEW u \in InTheChannel(vs, x, ch)
          PROVE  u \in InTheChannel(us, x, ch)
      <4>1. u \in User
        BY DEF InTheChannel
      <4>2. PICK t \in DOMAIN vs[u] :
              /\ vs[u][t].team = x
              /\ \E c \in DOMAIN vs[u][t].channels : vs[u][t].channels[c].channel = ch
        BY DEF InTheChannel
      <4>3. t \in DOMAIN us[u] /\ vs[u][t] = us[u][t]
        BY <2>1, <4>1, <4>2
      <4>4. /\ vs[u][t].team = x
            /\ \E c \in DOMAIN vs[u][t].channels : vs[u][t].channels[c].channel = ch
        BY <4>2, <4>3
      <4> QED
        BY <4>1, <4>3, <4>4 DEF InTheChannel
    <3>2. ASSUME NEW u \in InTheChannel(us, x, ch)
          PROVE  u \in InTheChannel(vs, x, ch)
      <4>1. u \in User
        BY DEF InTheChannel
      <4>2. PICK t \in DOMAIN us[u] :
              /\ us[u][t].team = x
              /\ \E c \in DOMAIN us[u][t].channels : us[u][t].channels[c].channel = ch
        BY DEF InTheChannel
      <4>3. t \in DOMAIN vs[u] /\ vs[u][t] = us[u][t]
        BY <1>5, <4>1
      <4> QED
        BY <4>1, <4>2, <4>3, Zenon DEF InTheChannel
    <3> QED
      BY <3>1, <3>2
  <2> QED
    BY <2>2, <2>3
<1>9. ASSUME NEW u \in User
      PROVE  Len(vs[u]) <= Len(us[u]) + 1
  <2>1. CASE u \in chosen
    BY <1>1, <1>2, <2>1
  <2>2. CASE u \notin chosen
    BY <1>1, <1>3, <2>2
  <2> QED
    BY <2>1, <2>2
<1>10. ASSUME NEW u \in chosen
       PROVE  Len(vs[u]) > 0 /\ vs[u][Len(vs[u])] = entry
  BY <1>1, <1>2
<1>11. \A u \in User : \A t \in DOMAIN vs[u] :
         vs[u][t] = entry \/ (t \in DOMAIN us[u] /\ vs[u][t] = us[u][t])
  BY <1>4
<1> QED
  BY <1>6, <1>7, <1>8, <1>9, <1>10, <1>11, Zenon DEF TeamGiven

(* Users get the next channel with the last of their teams.                *)
LEMMA ChannelJoined ==
  ASSUME NEW us \in [User -> Seq(Team)], NEW chosen \in SUBSET User, NEW next \in Channel,
         NEW x, TeamsOnce(us),
         \A u \in User : \A t \in DOMAIN us[u] : us[u][t].team = x =>
           /\ t = Len(us[u])
           /\ \A c \in DOMAIN us[u][t].channels : us[u][t].channels[c].channel # next.channel,
         \A u \in chosen : Len(us[u]) > 0 /\ us[u][Len(us[u])].team = x,
         NEW vs, vs = WithChannel(us, chosen, next)
  PROVE  ChannelGiven(us, vs, chosen, x, next)
<1> DEFINE added(u, t) == [us[u][t] EXCEPT !.channels = Append(@, next)]
<1>0. \A u \in User :
        vs[u] = IF u \in chosen THEN [us[u] EXCEPT ![Len(us[u])].channels = Append(@, next)]
                                 ELSE us[u]
  BY DEF WithChannel
<1>1. ASSUME NEW u \in User
      PROVE  us[u] \in Seq(Team) /\ Len(us[u]) \in Nat /\ DOMAIN us[u] = 1 .. Len(us[u])
  OBVIOUS
<1>2. ASSUME NEW u \in User, NEW t \in DOMAIN us[u]
      PROVE  us[u][t] \in Team /\ us[u][t].channels \in Seq(Channel)
  <2>1. us[u][t] \in Team
    BY <1>1
  <2> QED
    BY <2>1 DEF Team
<1>3. ASSUME NEW u \in chosen
      PROVE  /\ Len(us[u]) \in DOMAIN us[u]
             /\ DOMAIN vs[u] = DOMAIN us[u] /\ Len(vs[u]) = Len(us[u])
             /\ vs[u][Len(us[u])] = added(u, Len(us[u]))
             /\ \A t \in DOMAIN us[u] : t # Len(us[u]) => vs[u][t] = us[u][t]
  <2> DEFINE s == us[u]
             l == Len(s)
             e == added(u, l)
             v == [s EXCEPT ![l] = e]
  <2>1. vs[u] = v
    BY <1>0
  <2>2. s \in Seq(Team) /\ l \in 1 .. Len(s) /\ DOMAIN s = 1 .. Len(s) /\ Len(s) \in Nat
    BY <1>1
  <2>3. e \in Team
    <3>1. s[l] \in Team
      BY <2>2
    <3>2. s[l].channels \in Seq(Channel)
      BY <3>1 DEF Team
    <3> DEFINE q == s[l].channels
    <3>3. Append(q, next) \in Seq(Channel)
      <4> HIDE DEF q
      <4>1. q \in Seq(Channel)
        BY <3>2 DEF q
      <4> QED
        BY <4>1
    <3> QED
      BY <3>1, <3>3 DEF Team
  <2> HIDE DEF e
  <2>4. /\ v \in Seq(Team) /\ Len(v) = Len(s)
        /\ \A t \in 1 .. Len(s) : v[t] = IF t = l THEN e ELSE s[t]
    <3> HIDE DEF s, l
    <3> QED
      BY <2>2, <2>3, ExceptSeq
  <2> HIDE DEF v
  <2>5. DOMAIN v = 1 .. Len(s)
    <3> HIDE DEF s
    <3> QED
      BY <2>4
  <2>6. v[l] = e /\ \A t \in DOMAIN s : t # l => v[t] = s[t]
    <3> HIDE DEF s, l
    <3> QED
      BY <2>2, <2>4
  <2> QED
    BY <2>1, <2>2, <2>4, <2>5, <2>6, Zenon DEF e
<1>4. ASSUME NEW u \in User \ chosen
      PROVE  vs[u] = us[u]
  BY <1>0
<1>5. ASSUME NEW u \in User
      PROVE  Len(vs[u]) = Len(us[u]) /\ DOMAIN vs[u] = DOMAIN us[u]
  BY <1>3, <1>4
<1>6. ASSUME NEW u \in User, NEW t \in DOMAIN us[u]
      PROVE  \/ vs[u][t] = us[u][t] /\ ~ (u \in chosen /\ us[u][t].team = x)
             \/ u \in chosen /\ us[u][t].team = x /\ vs[u][t] = added(u, t)
  <2> HIDE DEF added
  <2>1. CASE u \notin chosen
    BY <1>4, <2>1
  <2>2. CASE u \in chosen /\ t = Len(us[u])
    BY <1>3, <2>2
  <2>3. CASE u \in chosen /\ t # Len(us[u])
    BY <1>3, <2>3
  <2> QED
    BY <2>1, <2>2, <2>3
<1>7. ASSUME NEW u \in User, NEW t \in DOMAIN us[u], vs[u][t] = added(u, t)
      PROVE  /\ vs[u][t].team = us[u][t].team
             /\ \A y : (\E c \in DOMAIN vs[u][t].channels : vs[u][t].channels[c].channel = y)
                      <=> \/ y = next.channel
                          \/ \E c \in DOMAIN us[u][t].channels : us[u][t].channels[c].channel = y
  <2> DEFINE q == us[u][t].channels
             r == Append(q, next)
  <2>1. q \in Seq(Channel) /\ vs[u][t].channels = r /\ vs[u][t].team = us[u][t].team
    <3>1. us[u][t] \in Team /\ q \in Seq(Channel)
      BY <1>2
    <3>2. added(u, t).channels = r /\ added(u, t).team = us[u][t].team
      BY <3>1 DEF Team
    <3> HIDE DEF added, r
    <3> QED
      BY <3>1, <3>2, <1>7
  <2> HIDE DEF q, added
  <2>2. /\ r \in Seq(Channel) /\ Len(q) \in Nat /\ DOMAIN q = 1 .. Len(q)
        /\ Len(r) = Len(q) + 1
        /\ r[Len(q) + 1] = next
        /\ \A c \in 1 .. Len(q) : r[c] = q[c]
    <3>1. q \in Seq(Channel) /\ next \in Channel
      BY <2>1
    <3> DEFINE k == Len(q)
    <3>2. k \in Nat /\ DOMAIN q = 1 .. k /\ r \in Seq(Channel) /\ Len(r) = k + 1
      BY <3>1
    <3>3. r[k + 1] = next
      BY <3>1
    <3>4. \A c \in 1 .. k : r[c] = q[c]
      BY <3>1
    <3> QED
      BY <3>2, <3>3, <3>4
  <2> HIDE DEF r
  <2>3. DOMAIN r = 1 .. Len(q) + 1
    BY <2>2
  <2>4. \A c \in DOMAIN r : c = Len(q) + 1 \/ c \in DOMAIN q
    BY <2>2, <2>3
  <2>5. Len(q) + 1 \in DOMAIN r /\ DOMAIN q \subseteq DOMAIN r
    BY <2>2, <2>3
  <2>6. ASSUME NEW y
        PROVE  (\E c \in DOMAIN r : r[c].channel = y)
                 <=> y = next.channel \/ \E c \in DOMAIN q : q[c].channel = y
    <3>1. ASSUME NEW c \in DOMAIN r, r[c].channel = y
          PROVE  y = next.channel \/ \E d \in DOMAIN q : q[d].channel = y
      <4>1. CASE c = Len(q) + 1
        BY <2>2, <3>1, <4>1
      <4>2. CASE c \in DOMAIN q
        <5>1. r[c] = q[c]
          BY <2>2, <4>2
        <5> QED
          BY <3>1, <4>2, <5>1
      <4> QED
        BY <2>4, <4>1, <4>2
    <3>2. ASSUME y = next.channel
          PROVE  \E c \in DOMAIN r : r[c].channel = y
      BY <2>2, <2>5, <3>2
    <3>3. ASSUME NEW d \in DOMAIN q, q[d].channel = y
          PROVE  \E c \in DOMAIN r : r[c].channel = y
      <4>1. r[d] = q[d] /\ d \in DOMAIN r
        BY <2>2, <2>5
      <4> QED
        BY <3>3, <4>1
    <3> QED
      BY <3>1, <3>2, <3>3
  <2> QED
    BY <2>1, <2>6 DEF q
<1> HIDE DEF added
<1>8. ASSUME NEW u \in User, NEW t \in DOMAIN us[u]
      PROVE  vs[u][t].team = us[u][t].team
  <2>1. CASE vs[u][t] = us[u][t]
    BY <2>1
  <2>2. CASE vs[u][t] = added(u, t)
    BY <2>2, <1>7
  <2> QED
    BY <2>1, <2>2, <1>6
<1>9. TeamsOnce(vs)
  <2> SUFFICES ASSUME NEW u \in User, NEW t \in DOMAIN vs[u], NEW r \in DOMAIN vs[u],
                      vs[u][t].team = vs[u][r].team
               PROVE  t = r
    BY DEF TeamsOnce
  <2>1. t \in DOMAIN us[u] /\ r \in DOMAIN us[u]
    BY <1>5
  <2>2. us[u][t].team = us[u][r].team
    BY <1>8, <2>1
  <2> QED
    BY <2>1, <2>2 DEF TeamsOnce
<1>10. ASSUME NEW y
       PROVE  InTheTeam(vs, y) = InTheTeam(us, y)
  <2>1. ASSUME NEW u \in User
        PROVE  (\E t \in DOMAIN vs[u] : vs[u][t].team = y)
                 <=> \E t \in DOMAIN us[u] : us[u][t].team = y
    <3>1. DOMAIN vs[u] = DOMAIN us[u] /\ \A t \in DOMAIN us[u] : vs[u][t].team = us[u][t].team
      BY <1>5, <1>8
    <3> QED
      BY <3>1
  <2> QED
    BY <2>1, Zenon DEF InTheTeam
<1> DEFINE joined(ws, u, t, ch) ==
             \E c \in DOMAIN ws[u][t].channels : ws[u][t].channels[c].channel = ch
<1>11. ASSUME NEW u \in User, NEW t \in DOMAIN us[u], NEW ch
       PROVE  joined(vs, u, t, ch) <=>
                \/ joined(us, u, t, ch)
                \/ u \in chosen /\ us[u][t].team = x /\ ch = next.channel
  <2>1. CASE vs[u][t] = us[u][t] /\ ~ (u \in chosen /\ us[u][t].team = x)
    BY <2>1
  <2>2. CASE u \in chosen /\ us[u][t].team = x /\ vs[u][t] = added(u, t)
    <3>1. joined(vs, u, t, ch) <=> ch = next.channel \/ joined(us, u, t, ch)
      <4>1. \A y : (\E c \in DOMAIN vs[u][t].channels : vs[u][t].channels[c].channel = y)
               <=> \/ y = next.channel
                   \/ \E c \in DOMAIN us[u][t].channels : us[u][t].channels[c].channel = y
        BY <2>2, <1>7, Zenon
      <4> QED
        BY <4>1, Zenon
    <3> HIDE DEF joined
    <3> QED
      BY <2>2, <3>1
  <2> HIDE DEF joined
  <2> QED
    BY <2>1, <2>2, <1>6
<1>12. ASSUME NEW ws, NEW y, NEW ch
       PROVE  InTheChannel(ws, y, ch)
                = {u \in User : \E t \in DOMAIN ws[u] : ws[u][t].team = y /\ joined(ws, u, t, ch)}
  BY Zenon DEF InTheChannel
<1>13. \A u \in User : \A t \in DOMAIN us[u] :
         us[u][t].team = x => ~ joined(us, u, t, next.channel)
  OBVIOUS
<1> HIDE DEF joined
<1>14. ASSUME NEW y, NEW ch, y # x \/ ch # next.channel
       PROVE  InTheChannel(vs, y, ch) = InTheChannel(us, y, ch)
  <2>1. ASSUME NEW u \in User
        PROVE  (\E t \in DOMAIN vs[u] : vs[u][t].team = y /\ joined(vs, u, t, ch))
                 <=> \E t \in DOMAIN us[u] : us[u][t].team = y /\ joined(us, u, t, ch)
    <3>1. DOMAIN vs[u] = DOMAIN us[u]
      BY <1>5
    <3>2. ASSUME NEW t \in DOMAIN us[u]
          PROVE  vs[u][t].team = y /\ joined(vs, u, t, ch)
                   <=> us[u][t].team = y /\ joined(us, u, t, ch)
      BY <1>8, <1>11, <1>14, Zenon
    <3> QED
      BY <3>1, <3>2, Zenon
  <2>2. {u \in User : \E t \in DOMAIN vs[u] : vs[u][t].team = y /\ joined(vs, u, t, ch)}
          = {u \in User : \E t \in DOMAIN us[u] : us[u][t].team = y /\ joined(us, u, t, ch)}
    BY <2>1, Zenon
  <2> QED
    BY <1>12, <2>2, Zenon
<1>15. InTheChannel(vs, x, next.channel) = chosen
  <2> DEFINE ch == next.channel
  <2>1. ASSUME NEW u \in User
        PROVE  (\E t \in DOMAIN vs[u] : vs[u][t].team = x /\ joined(vs, u, t, ch))
                 <=> u \in chosen
    <3>1. DOMAIN vs[u] = DOMAIN us[u]
      BY <1>5
    <3>2. ASSUME NEW t \in DOMAIN us[u]
          PROVE  vs[u][t].team = x /\ joined(vs, u, t, ch)
                   <=> us[u][t].team = x /\ u \in chosen
      BY <1>8, <1>11, <1>13, Zenon
    <3>3. u \in chosen => \E t \in DOMAIN us[u] : us[u][t].team = x
      <4> SUFFICES ASSUME u \in chosen
                   PROVE  \E t \in DOMAIN us[u] : us[u][t].team = x
        OBVIOUS
      <4>1. Len(us[u]) \in DOMAIN us[u]
        BY <1>3
      <4>2. us[u][Len(us[u])].team = x
        OBVIOUS
      <4> QED
        BY <4>1, <4>2
    <3> QED
      BY <3>1, <3>2, <3>3, Zenon
  <2>2. {u \in User : \E t \in DOMAIN vs[u] : vs[u][t].team = x /\ joined(vs, u, t, ch)} = chosen
    BY <2>1
  <2> QED
    BY <1>12, <2>2, Zenon
<1>16. ASSUME NEW u \in User, NEW t \in DOMAIN us[u], NEW c \in DOMAIN vs[u][t].channels
       PROVE  \/ vs[u][t].channels[c].channel = next.channel
              \/ \E d \in DOMAIN us[u][t].channels :
                   vs[u][t].channels[c].channel = us[u][t].channels[d].channel
  <2> DEFINE ch == vs[u][t].channels[c].channel
  <2>1. joined(vs, u, t, ch)
    BY DEF joined
  <2> HIDE DEF ch
  <2>2. joined(us, u, t, ch) \/ ch = next.channel
    BY <1>11, <2>1
  <2>3. joined(us, u, t, ch) => \E d \in DOMAIN us[u][t].channels :
                                  ch = us[u][t].channels[d].channel
    BY DEF joined
  <2> QED
    BY <2>2, <2>3 DEF ch
<1> QED
  BY <1>5, <1>8, <1>9, <1>10, <1>14, <1>15, <1>16, Zenon DEF ChannelGiven

(* How many a team is for, and a channel of it; the position among done    *)
(* tells the volume.                                                       *)
Asked(s) == InTeam[VolumeOf(s - 1, NumHigh, NumMid)]

AskedOf(s, ch) ==
  LET wanted == InChannel[VolumeOf(s - 1, NumHigh, NumMid)][VolumeOf(ch, NumHighCh, NumMidCh)]
  IN  IF wanted > Asked(s) THEN Asked(s) ELSE wanted

(* What was given to the teams before this one is in place, and to the     *)
(* channels of this one before the next; the users in this team have it    *)
(* last, with no channel yet that is still to come.                        *)
TeamsDiffer == \A s, r \in DOMAIN done : done[s] = done[r] => s = r

OfTheDone ==
  \A u \in User :
    /\ Len(users[u]) <= Len(done)
    /\ \A t \in DOMAIN users[u] : \E s \in DOMAIN done : users[u][t].team = done[s]

TeamsFull == \A s \in DOMAIN done : Cardinality(InTheTeam(users, done[s])) = Asked(s)

ChannelsFull ==
  \A s \in DOMAIN done : \A ch \in 0 .. NumChannels - 1 :
    (phase = "channels" /\ s = Len(done) => ch < channel)
      => Cardinality(InTheChannel(users, done[s], ch)) = AskedOf(s, ch)

ThisTeam ==
  phase = "channels" =>
    /\ done # <<>>
    /\ inTeam = InTheTeam(users, done[Len(done)])
    /\ \A u \in User : \A t \in DOMAIN users[u] : users[u][t].team = done[Len(done)] =>
         /\ t = Len(users[u])
         /\ \A c \in DOMAIN users[u][t].channels : users[u][t].channels[c].channel < channel

Joining ==
  /\ Len(done) <= NumTeams
  /\ TeamsDiffer
  /\ TeamsOnce(users)
  /\ OfTheDone
  /\ TeamsFull
  /\ ChannelsFull
  /\ ThisTeam

(* Giving a team its users, and a channel its members, keeps what the      *)
(* earlier ones have.                                                      *)
LEMMA StaysJoining == GenSpec => []Joining
<1>1. GenInit => Joining
  <2> SUFFICES ASSUME GenInit
               PROVE  Joining
    OBVIOUS
  <2>1. done = <<>> /\ Len(done) = 0 /\ DOMAIN done = {} /\ phase = "teams"
    BY DEF GenInit
  <2>2. \A u \in User : users[u] = <<>> /\ Len(users[u]) = 0 /\ DOMAIN users[u] = {}
    BY DEF GenInit
  <2>3. Len(done) <= NumTeams
    BY <2>1, GenerationAssumption
  <2> QED
    BY <2>1, <2>2, <2>3 DEF Joining, TeamsDiffer, TeamsOnce, OfTheDone, TeamsFull,
                            ChannelsFull, ThisTeam
<1>2. ASSUME GenInv, Joining, [GenNext]_allVars
      PROVE  Joining'
  <2> USE <1>2
  <2>0. /\ users \in [User -> Seq(Team)]
        /\ done \in Seq(0 .. NumTeams - 1) /\ Len(done) \in Nat /\ DOMAIN done = 1 .. Len(done)
        /\ channel \in 0 .. NumChannels /\ NumTeams \in Nat /\ NumChannels \in Nat
        /\ inTeam \subseteq User
    BY GenerationAssumption DEF GenInv, DataTypeOK, OwnTypeOK, User
  <2>1. CASE AddTeam
    <3> DEFINE volume == VolumeOf(Len(done), NumHigh, NumMid)
    <3>1. PICK team \in (0 .. NumTeams - 1) \ ToSet(done) :
            LET entry == [team |-> team, weight |-> TeamWeight[volume], channels |-> <<>>]
            IN  \E chosen \in kSubset(InTeam[volume], User) :
                  /\ done' = Append(done, team)
                  /\ inTeam' = chosen
                  /\ users' = [u \in User |-> IF u \in chosen THEN Append(users[u], entry)
                                                              ELSE users[u]]
      BY <2>1 DEF AddTeam
    <3> DEFINE entry == [team |-> team, weight |-> TeamWeight[volume], channels |-> <<>>]
    <3>2. PICK chosen \in kSubset(InTeam[volume], User) :
            /\ done' = Append(done, team)
            /\ inTeam' = chosen
            /\ users' = [u \in User |-> IF u \in chosen THEN Append(users[u], entry)
                                                        ELSE users[u]]
      BY <3>1
    <3>3. phase = "teams" /\ phase' = "channels" /\ channel' = 0 /\ Len(done) < NumTeams
      BY <2>1 DEF AddTeam
    <3>4. chosen \in SUBSET User /\ Cardinality(chosen) = InTeam[volume]
      BY DEF kSubset
    <3>v. volume = VolumeOf(Len(done), NumHigh, NumMid)
      OBVIOUS
    <3>5. entry \in Team /\ entry.team = team /\ entry.channels = <<>>
      <4>1. volume \in Volume
        BY VolumeIsOne
      <4> HIDE DEF volume
      <4>2. TeamWeight[volume] \in Nat /\ team \in Nat /\ <<>> \in Seq(Channel)
        BY <4>1, GenerationAssumption
      <4> QED
        BY <4>2 DEF Team
    <3> HIDE DEF entry, volume
    <3> DEFINE L == Len(done) + 1
    <3>6. /\ L \in Nat /\ Len(done') = L /\ DOMAIN done' = 1 .. L /\ done'[L] = team
          /\ \A s \in 1 .. Len(done) : done'[s] = done[s]
          /\ done' # <<>>
      <4> DEFINE d == Append(done, team)
      <4>1. /\ d \in Seq(0 .. NumTeams - 1) /\ Len(d) = L /\ d[L] = team /\ L \in Nat
            /\ \A s \in 1 .. Len(done) : d[s] = done[s]
        BY <2>0
      <4>2. done' = d
        BY <3>2
      <4> HIDE DEF d
      <4>3. DOMAIN d = 1 .. Len(d) /\ (Len(d) > 0 => d # <<>>)
        BY <4>1
      <4>4. Len(d) > 0
        BY <2>0, <4>1
      <4> QED
        BY <4>1, <4>2, <4>3, <4>4, Zenon
    <3>7. \A s \in 1 .. Len(done) : done[s] # team
      BY <2>0 DEF ToSet
    <3>8. \A u \in User : \A t \in DOMAIN users[u] : users[u][t].team # entry.team
      <4> SUFFICES ASSUME NEW u \in User, NEW t \in DOMAIN users[u]
                   PROVE  users[u][t].team # entry.team
        OBVIOUS
      <4>1. PICK s \in DOMAIN done : users[u][t].team = done[s]
        BY DEF Joining, OfTheDone
      <4> QED
        BY <2>0, <3>5, <3>7, <4>1
    <3>g. TeamGiven(users, users', chosen, entry)
      <4>1. TeamsOnce(users)
        BY DEF Joining
      <4>2. users' = WithTeam(users, chosen, entry) /\ users \in [User -> Seq(Team)]
        BY <2>0, <3>2, Zenon DEF WithTeam
      <4> QED
        BY <3>4, <3>5, <3>8, <4>1, <4>2, TeamJoined, Zenon
    <3>9. /\ TeamsOnce(users')
          /\ InTheTeam(users', entry.team) = chosen
          /\ \A x : x # entry.team =>
               /\ InTheTeam(users', x) = InTheTeam(users, x)
               /\ \A ch : InTheChannel(users', x, ch) = InTheChannel(users, x, ch)
          /\ \A u \in User : Len(users'[u]) <= Len(users[u]) + 1
          /\ \A u \in chosen : Len(users'[u]) > 0 /\ users'[u][Len(users'[u])] = entry
          /\ \A u \in User : \A t \in DOMAIN users'[u] :
               users'[u][t] = entry \/ (t \in DOMAIN users[u] /\ users'[u][t] = users[u][t])
      BY <3>g, Zenon DEF TeamGiven
    <3> HIDE DEF L
    <3>10. \A s \in 1 .. L : s \in 1 .. Len(done) \/ s = L
      BY <2>0 DEF L
    <3>11. Len(done') <= NumTeams
      BY <2>0, <3>3, <3>6 DEF L
    <3>12. TeamsDiffer'
      <4> SUFFICES ASSUME NEW s \in 1 .. L, NEW r \in 1 .. L, done'[s] = done'[r]
                   PROVE  s = r
        BY <3>6 DEF TeamsDiffer
      <4>1. CASE s \in 1 .. Len(done) /\ r \in 1 .. Len(done)
        BY <2>0, <3>6, <4>1 DEF Joining, TeamsDiffer
      <4>2. CASE s \in 1 .. Len(done) /\ r = L
        BY <3>6, <3>7, <4>2
      <4>3. CASE s = L /\ r \in 1 .. Len(done)
        BY <3>6, <3>7, <4>3
      <4> QED
        BY <3>10, <4>1, <4>2, <4>3
    <3>13. OfTheDone'
      <4> SUFFICES ASSUME NEW u \in User
                   PROVE  /\ Len(users'[u]) <= Len(done')
                          /\ \A t \in DOMAIN users'[u] : \E s \in DOMAIN done' :
                               users'[u][t].team = done'[s]
        BY DEF OfTheDone, User
      <4>1. Len(users'[u]) <= L
        <5>1. Len(users'[u]) <= Len(users[u]) + 1 /\ Len(users[u]) <= Len(done)
          BY <3>9 DEF Joining, OfTheDone
        <5>2. Len(users[u]) \in Nat /\ Len(users'[u]) \in Nat
          <6>1. users[u] \in Seq(Team)
            BY <2>0
          <6>2. users'[u] \in Seq(Team)
            <7>1. Append(users[u], entry) \in Seq(Team)
              BY <3>5, <6>1
            <7> QED
              BY <3>2, <6>1, <7>1
          <6>3. Len(users[u]) \in Nat
            BY <6>1
          <6>4. Len(users'[u]) \in Nat
            BY <6>2
          <6> QED
            BY <6>3, <6>4
        <5> QED
          BY <2>0, <5>1, <5>2 DEF L
      <4>2. ASSUME NEW t \in DOMAIN users'[u]
            PROVE  \E s \in DOMAIN done' : users'[u][t].team = done'[s]
        <5>1. CASE users'[u][t] = entry
          <6>1. L \in DOMAIN done' /\ done'[L] = users'[u][t].team
            BY <2>0, <3>5, <3>6, <5>1 DEF L
          <6> QED
            BY <6>1
        <5>2. CASE t \in DOMAIN users[u] /\ users'[u][t] = users[u][t]
          <6>1. PICK s \in DOMAIN done : users[u][t].team = done[s]
            BY <5>2 DEF Joining, OfTheDone
          <6>2. s \in DOMAIN done' /\ done'[s] = done[s]
            BY <2>0, <3>6 DEF L
          <6> QED
            BY <5>2, <6>1, <6>2
        <5> QED
          BY <3>9, <5>1, <5>2
      <4> QED
        BY <3>6, <4>1, <4>2
    <3>14. \A s \in 1 .. Len(done) :
             /\ InTheTeam(users', done'[s]) = InTheTeam(users, done[s])
             /\ \A ch : InTheChannel(users', done'[s], ch) = InTheChannel(users, done[s], ch)
      BY <3>5, <3>6, <3>7, <3>9
    <3>15. TeamsFull'
      <4> SUFFICES ASSUME NEW s \in 1 .. L
                   PROVE  Cardinality(InTheTeam(users', done'[s])) = Asked(s)
        BY <3>6 DEF TeamsFull, Asked
      <4>1. CASE s \in 1 .. Len(done)
        BY <2>0, <3>14, <4>1 DEF Joining, TeamsFull
      <4>2. CASE s = L
        <5>1. Asked(L) = InTeam[volume]
          <6>1. L - 1 = Len(done)
            BY <2>0 DEF L
          <6> QED
            BY <3>v, <6>1 DEF Asked
        <5> QED
          BY <3>4, <3>5, <3>6, <3>9, <4>2, <5>1
      <4> QED
        BY <3>10, <4>1, <4>2
    <3>16. ChannelsFull'
      <4> SUFFICES ASSUME NEW s \in 1 .. L, NEW ch \in 0 .. NumChannels - 1,
                          phase' = "channels" /\ s = Len(done') => ch < channel'
                   PROVE  Cardinality(InTheChannel(users', done'[s], ch)) = AskedOf(s, ch)
        BY <3>6 DEF ChannelsFull, AskedOf, Asked
      <4>1. s # L
        <5>1. phase' = "channels" /\ s = L => ch < 0
          BY <3>3, <3>6
        <5>2. ~ (ch < 0) /\ phase' = "channels"
          BY <2>0, <3>3
        <5> QED
          BY <5>1, <5>2
      <4>2. s \in 1 .. Len(done)
        BY <3>10, <4>1
      <4>3. Cardinality(InTheChannel(users, done[s], ch)) = AskedOf(s, ch)
        BY <2>0, <3>3, <4>2 DEF Joining, ChannelsFull
      <4> QED
        BY <3>14, <4>2, <4>3
    <3>17. ThisTeam'
      <4>1. done'[Len(done')] = entry.team
        BY <3>5, <3>6
      <4>2. ASSUME NEW u \in User, NEW t \in DOMAIN users'[u], users'[u][t].team = entry.team
            PROVE  /\ t = Len(users'[u])
                   /\ \A c \in DOMAIN users'[u][t].channels :
                        users'[u][t].channels[c].channel < channel'
        <5>1. users'[u][t] = entry
          BY <3>8, <3>9, <4>2, SMTT(30)
        <5>2. u \in chosen
          BY <3>9, <4>2 DEF InTheTeam
        <5>3. /\ users'[u][Len(users'[u])] = entry
              /\ Len(users'[u]) \in DOMAIN users'[u]
          <6>1. users[u] \in Seq(Team) /\ users'[u] = Append(users[u], entry)
            BY <2>0, <3>2, <5>2
          <6>2. users'[u] \in Seq(Team) /\ Len(users'[u]) > 0
            BY <3>5, <3>9, <5>2, <6>1
          <6> QED
            BY <3>9, <5>2, <6>2
        <5>4. t = Len(users'[u])
          <6>1. TeamsOnce(users')
            BY <3>9
          <6>2. users'[u][t].team = users'[u][Len(users'[u])].team
            BY <5>1, <5>3
          <6> QED
            BY <5>3, <6>1, <6>2, Zenon DEF TeamsOnce
        <5>5. DOMAIN users'[u][t].channels = {}
          BY <3>5, <5>1
        <5> QED
          BY <5>4, <5>5
      <4>3. inTeam' = InTheTeam(users', done'[Len(done')])
        BY <3>2, <3>9, <4>1
      <4> QED
        BY <3>6, <4>1, <4>2, <4>3, Zenon DEF ThisTeam, User
    <3> QED
      BY <3>9, <3>11, <3>12, <3>13, <3>15, <3>16, <3>17 DEF Joining
  <2>2. CASE AddChannel
    <3>1. PICK chosen \in kSubset(NumToAddChannel, inTeam) :
            users' = [u \in User |->
                       IF u \in chosen
                         THEN [users[u] EXCEPT ![Len(users[u])].channels = Append(@, NextChannel)]
                         ELSE users[u]]
      BY <2>2 DEF AddChannel
    <3>2. /\ UNCHANGED <<phase, done, inTeam>>
          /\ phase = "channels" /\ channel < NumChannels /\ channel' = channel + 1
      BY <2>2 DEF AddChannel
    <3>3. chosen \subseteq inTeam /\ Cardinality(chosen) = NumToAddChannel
      BY DEF kSubset
    <3> DEFINE L == Len(done)
               x == done[L]
               next == NextChannel
    <3>4. L \in DOMAIN done /\ L > 0
      BY <2>0, <3>2 DEF Joining, ThisTeam
    <3>5. /\ inTeam = InTheTeam(users, x)
          /\ \A u \in User : \A t \in DOMAIN users[u] : users[u][t].team = x =>
               /\ t = Len(users[u])
               /\ \A c \in DOMAIN users[u][t].channels : users[u][t].channels[c].channel < channel
      BY <3>2 DEF Joining, ThisTeam
    <3>6. next \in Channel /\ next.channel = channel
      <4>1. VolumeOf(channel, NumHighCh, NumMidCh) \in Volume
        BY VolumeIsOne
      <4>2. channel \in Nat
        BY <2>0
      <4> QED
        BY <4>1, <4>2, GenerationAssumption DEF NextChannel, Channel
    <3>7. ASSUME NEW u \in User, NEW t \in DOMAIN users[u], NEW c \in DOMAIN users[u][t].channels
          PROVE  users[u][t].channels[c].channel \in Nat
      <4>1. users[u][t] \in Team
        BY <2>0
      <4>2. users[u][t].channels \in Seq(Channel)
        BY <4>1 DEF Team
      <4>3. users[u][t].channels[c] \in Channel
        BY <4>2
      <4> QED
        BY <4>3 DEF Channel
    <3>8. \A u \in User : \A t \in DOMAIN users[u] : users[u][t].team = x =>
            /\ t = Len(users[u])
            /\ \A c \in DOMAIN users[u][t].channels :
                 users[u][t].channels[c].channel # next.channel
      <4> SUFFICES ASSUME NEW u \in User, NEW t \in DOMAIN users[u], users[u][t].team = x
                   PROVE  /\ t = Len(users[u])
                          /\ \A c \in DOMAIN users[u][t].channels :
                               users[u][t].channels[c].channel # next.channel
        OBVIOUS
      <4>1. t = Len(users[u])
        BY <3>5
      <4>2. ASSUME NEW c \in DOMAIN users[u][t].channels
            PROVE  users[u][t].channels[c].channel # next.channel
        <5>1. users[u][t].channels[c].channel < channel
          BY <3>5
        <5>2. users[u][t].channels[c].channel \in Nat
          BY <3>7
        <5> QED
          BY <2>0, <3>6, <5>1, <5>2
      <4> QED
        BY <4>1, <4>2
    <3>9. \A u \in chosen : Len(users[u]) > 0 /\ users[u][Len(users[u])].team = x
      <4> SUFFICES ASSUME NEW u \in chosen
                   PROVE  Len(users[u]) > 0 /\ users[u][Len(users[u])].team = x
        OBVIOUS
      <4>1. PICK t \in DOMAIN users[u] : users[u][t].team = x /\ u \in User
        BY <3>3, <3>5 DEF InTheTeam
      <4>2. t = Len(users[u])
        BY <3>8, <4>1
      <4>3. users[u] \in Seq(Team)
        BY <2>0, <4>1
      <4>4. t > 0
        BY <4>3
      <4> QED
        BY <4>1, <4>2, <4>4
    <3> HIDE DEF x, L, next
    <3>g. ChannelGiven(users, users', chosen, x, next)
      <4>1. TeamsOnce(users) /\ chosen \in SUBSET User /\ users \in [User -> Seq(Team)]
        BY <2>0, <3>3 DEF Joining
      <4>2. users' = WithChannel(users, chosen, next)
        BY <3>1 DEF next, WithChannel
      <4> QED
        BY <3>6, <3>8, <3>9, <4>1, <4>2, ChannelJoined, Zenon
    <3>10. /\ TeamsOnce(users')
           /\ \A y : InTheTeam(users', y) = InTheTeam(users, y)
           /\ \A y, ch : y # x \/ ch # next.channel =>
                InTheChannel(users', y, ch) = InTheChannel(users, y, ch)
           /\ InTheChannel(users', x, next.channel) = chosen
           /\ \A u \in User :
                /\ Len(users'[u]) = Len(users[u]) /\ DOMAIN users'[u] = DOMAIN users[u]
                /\ \A t \in DOMAIN users[u] :
                     /\ users'[u][t].team = users[u][t].team
                     /\ \A c \in DOMAIN users'[u][t].channels :
                          \/ users'[u][t].channels[c].channel = next.channel
                          \/ \E d \in DOMAIN users[u][t].channels :
                               users'[u][t].channels[c].channel = users[u][t].channels[d].channel
      BY <3>g, Zenon DEF ChannelGiven
    <3>11. OfTheDone'
      <4> SUFFICES ASSUME NEW u \in User
                   PROVE  /\ Len(users'[u]) <= Len(done)
                          /\ \A t \in DOMAIN users'[u] : \E s \in DOMAIN done :
                               users'[u][t].team = done[s]
        BY <3>2 DEF OfTheDone, User
      <4>1. Len(users'[u]) <= Len(done)
        BY <3>10 DEF Joining, OfTheDone
      <4>2. ASSUME NEW t \in DOMAIN users'[u]
            PROVE  \E s \in DOMAIN done : users'[u][t].team = done[s]
        <5>1. t \in DOMAIN users[u] /\ users'[u][t].team = users[u][t].team
          BY <3>10
        <5>2. \E s \in DOMAIN done : users[u][t].team = done[s]
          BY <5>1 DEF Joining, OfTheDone
        <5> QED
          BY <5>1, <5>2
      <4> QED
        BY <4>1, <4>2
    <3>12. TeamsFull'
      BY <3>2, <3>10 DEF Joining, TeamsFull, Asked
    <3>13. Cardinality(chosen) = AskedOf(L, channel)
      <4>1. Cardinality(inTeam) = Asked(L)
        BY <3>4, <3>5 DEF Joining, TeamsFull, x
      <4>2. TeamVolume = VolumeOf(L - 1, NumHigh, NumMid)
        BY DEF TeamVolume, L
      <4>3. NumToAddChannel = AskedOf(L, channel)
        BY <4>1, <4>2, Zenon DEF NumToAddChannel, AskedOf
      <4> QED
        BY <3>3, <4>3
    <3>14. ChannelsFull'
      <4> SUFFICES ASSUME NEW s \in DOMAIN done, NEW ch \in 0 .. NumChannels - 1,
                          s = L => ch < channel + 1
                   PROVE  Cardinality(InTheChannel(users', done[s], ch)) = AskedOf(s, ch)
        BY <3>2 DEF ChannelsFull, AskedOf, Asked, L
      <4>1. CASE s = L /\ ch = channel
        BY <3>6, <3>10, <3>13, <4>1 DEF x
      <4>2. CASE ~ (s = L /\ ch = channel)
        <5>1. s = L => ch < channel
          BY <2>0, <4>2
        <5>2. Cardinality(InTheChannel(users, done[s], ch)) = AskedOf(s, ch)
          BY <5>1 DEF Joining, ChannelsFull, L
        <5>3. done[s] # x \/ ch # next.channel
          BY <3>4, <3>6, <4>2 DEF Joining, TeamsDiffer, x
        <5>4. InTheChannel(users', done[s], ch) = InTheChannel(users, done[s], ch)
          BY <3>10, <5>3
        <5> QED
          BY <5>2, <5>4
      <4> QED
        BY <4>1, <4>2
    <3>15. ThisTeam'
      <4>1. ASSUME NEW u \in User, NEW t \in DOMAIN users'[u], users'[u][t].team = x
            PROVE  /\ t = Len(users'[u])
                   /\ \A c \in DOMAIN users'[u][t].channels :
                        users'[u][t].channels[c].channel < channel + 1
        <5>1. t \in DOMAIN users[u] /\ users[u][t].team = x /\ Len(users'[u]) = Len(users[u])
          BY <3>10, <4>1
        <5>2. t = Len(users'[u])
          BY <3>5, <5>1
        <5>3. ASSUME NEW c \in DOMAIN users'[u][t].channels
              PROVE  users'[u][t].channels[c].channel < channel + 1
          <6>1. CASE users'[u][t].channels[c].channel = next.channel
            BY <2>0, <3>6, <6>1
          <6>2. ASSUME NEW d \in DOMAIN users[u][t].channels,
                       users'[u][t].channels[c].channel = users[u][t].channels[d].channel
                PROVE  users'[u][t].channels[c].channel < channel + 1
            <7>1. users[u][t].channels[d].channel < channel
              BY <3>5, <5>1
            <7>2. users[u][t].channels[d].channel \in Nat
              BY <3>7, <5>1
            <7> QED
              BY <2>0, <6>2, <7>1, <7>2, SMTT(30)
          <6> QED
            BY <3>10, <5>1, <6>1, <6>2
        <5> QED
          BY <5>2, <5>3
      <4>2. inTeam' = InTheTeam(users', done'[Len(done')])
        BY <3>2, <3>5, <3>10 DEF x, L
      <4>3. done' # <<>> /\ done'[Len(done')] = x /\ channel' = channel + 1
        BY <3>2 DEF Joining, ThisTeam, x, L
      <4> QED
        BY <4>1, <4>2, <4>3, Zenon DEF ThisTeam, User
    <3> QED
      BY <3>2, <3>10, <3>11, <3>12, <3>14, <3>15 DEF Joining, TeamsDiffer
  <2>3. ASSUME UNCHANGED <<users, done, inTeam, channel>>,
               phase' = phase \/ (phase' # "channels" /\ (phase = "channels" => channel = NumChannels))
        PROVE  Joining'
    <3>1. ChannelsFull'
      <4> SUFFICES ASSUME NEW s \in DOMAIN done, NEW ch \in 0 .. NumChannels - 1,
                          phase' = "channels" /\ s = Len(done) => ch < channel
                   PROVE  Cardinality(InTheChannel(users, done[s], ch)) = AskedOf(s, ch)
        BY <2>3 DEF ChannelsFull, AskedOf, Asked
      <4>1. phase = "channels" /\ s = Len(done) => ch < channel
        BY <2>0, <2>3
      <4> QED
        BY <4>1 DEF Joining, ChannelsFull
    <3>2. ThisTeam'
      BY <2>3 DEF Joining, ThisTeam
    <3> QED
      BY <2>3, <3>1, <3>2 DEF Joining, TeamsDiffer, TeamsOnce, OfTheDone, TeamsFull, Asked
  <2>4. CASE TeamDone \/ TeamsDone \/ GroupsGivenUp \/ GroupsDone
    BY <2>3, <2>4 DEF TeamDone, TeamsDone, GroupsGivenUp, GroupsDone, vars, data
  <2>5. CASE MakeDirectChannels \/ MakeGroupChannel
    BY <2>3, <2>5 DEF MakeDirectChannels, MakeGroupChannel, own
  <2>6. CASE Writing(Sender) \/ Writing(Encoder)
    <3>1. UNCHANGED own
      BY <2>6 DEF Writing
    <3>2. UNCHANGED data
      BY <2>6 DEF Writing, Sender, Encoder, SendHead, SendUser, SendEmoji, Restore,
                  SendMembers, SkipTeam, SendDirect, Close, Return, Receive, Encode
    <3> QED
      BY <2>3, <3>1, <3>2 DEF own, data
  <2>7. CASE UNCHANGED allVars
    BY <2>3, <2>7 DEF allVars, vars, own, data
  <2> QED
    BY <2>1, <2>2, <2>4, <2>5, <2>6, <2>7 DEF GenNext, Choosing
<1> QED
  BY <1>1, <1>2, StaysDecided, PTL DEF GenSpec

(* Once all teams are given their users and channels, each has as many     *)
(* members as asked for, each of them a user of its own, and each of its   *)
(* channels as many, or everybody in the team.                             *)
THEOREM MembersAreAsPlanned == GenSpec => []MembersAsPlanned
<1>1. ASSUME GenInv, Joining
      PROVE  MembersAsPlanned
  <2> SUFFICES ASSUME phase = "lines", NEW s \in DOMAIN done
               PROVE  LET volume  == VolumeOf(s - 1, NumHigh, NumMid)
                          members == {m \in User \X (1 .. NumTeams) :
                                       /\ m[2] \in DOMAIN users[m[1]]
                                       /\ users[m[1]][m[2]].team = done[s]}
                          Joined(ch) == {m \in members :
                                           \E c \in DOMAIN users[m[1]][m[2]].channels :
                                             users[m[1]][m[2]].channels[c].channel = ch}
                          Wanted(ch) == InChannel[volume][VolumeOf(ch, NumHighCh, NumMidCh)]
                      IN  /\ Cardinality(members) = InTeam[volume]
                          /\ Cardinality({m[1] : m \in members}) = InTeam[volume]
                          /\ \A ch \in 0 .. NumChannels - 1 :
                               Cardinality(Joined(ch)) =
                                 IF Wanted(ch) > InTeam[volume] THEN InTeam[volume]
                                                                ELSE Wanted(ch)
    BY DEF MembersAsPlanned
  <2> DEFINE x == done[s]
             members == Memberships(users, x)
             Has(m, ch) == \E c \in DOMAIN users[m[1]][m[2]].channels :
                             users[m[1]][m[2]].channels[c].channel = ch
             Joined(ch) == {m \in members : Has(m, ch)}
  <2> USE <1>1
  <2>1. TeamsOnce(users)
    BY DEF Joining
  <2>2. ASSUME NEW u \in User, NEW t \in DOMAIN users[u], users[u][t].team = x
        PROVE  <<u, t>> \in members
    <3>1. users[u] \in Seq(Team) /\ Len(done) \in Nat
      BY DEF GenInv, DataTypeOK, OwnTypeOK, User
    <3>2. Len(users[u]) <= Len(done) /\ Len(done) <= NumTeams
      BY DEF Joining, OfTheDone
    <3>3. DOMAIN users[u] = 1 .. Len(users[u]) /\ Len(users[u]) \in Nat /\ NumTeams \in Nat
      BY <3>1, GenerationAssumption
    <3>4. t \in 1 .. NumTeams
      BY <3>1, <3>2, <3>3
    <3> QED
      BY <2>2, <3>4 DEF Memberships
  <2>3. ASSUME NEW m \in members
        PROVE  /\ m[1] \in User /\ m[2] \in DOMAIN users[m[1]]
               /\ users[m[1]][m[2]].team = x
    BY DEF Memberships
  <2> HIDE DEF members
  <2>4. {m[1] : m \in members} = InTheTeam(users, x)
    <3>1. ASSUME NEW m \in members
          PROVE  m[1] \in InTheTeam(users, x)
      BY <2>3 DEF InTheTeam
    <3>2. ASSUME NEW u \in InTheTeam(users, x)
          PROVE  u \in {m[1] : m \in members}
      <4>1. PICK t \in DOMAIN users[u] : users[u][t].team = x /\ u \in User
        BY DEF InTheTeam
      <4>2. <<u, t>> \in members /\ <<u, t>>[1] = u
        BY <2>2, <4>1
      <4> QED
        BY <4>2
    <3> QED
      BY <3>1, <3>2
  <2>5. ASSUME NEW ch
        PROVE  {m[1] : m \in Joined(ch)} = InTheChannel(users, x, ch)
    <3>1. ASSUME NEW m \in Joined(ch)
          PROVE  m[1] \in InTheChannel(users, x, ch)
      <4>1. m \in members /\ Has(m, ch)
        OBVIOUS
      <4>2. /\ m[1] \in User /\ m[2] \in DOMAIN users[m[1]]
            /\ users[m[1]][m[2]].team = x
        BY <2>3, <4>1
      <4>3. \E t \in DOMAIN users[m[1]] :
              /\ users[m[1]][t].team = x
              /\ \E c \in DOMAIN users[m[1]][t].channels :
                   users[m[1]][t].channels[c].channel = ch
        BY <4>1, <4>2, Zenon
      <4> QED
        BY <4>2, <4>3 DEF InTheChannel
    <3>2. ASSUME NEW u \in InTheChannel(users, x, ch)
          PROVE  u \in {m[1] : m \in Joined(ch)}
      <4>1. PICK t \in DOMAIN users[u] :
              /\ users[u][t].team = x
              /\ \E c \in DOMAIN users[u][t].channels : users[u][t].channels[c].channel = ch
              /\ u \in User
        BY DEF InTheChannel
      <4> DEFINE m == <<u, t>>
      <4>2. m \in members /\ m[1] = u /\ m[2] = t
        BY <2>2, <4>1
      <4> HIDE DEF m
      <4>3. Has(m, ch)
        BY <4>1, <4>2
      <4>4. m \in Joined(ch)
        BY <4>2, <4>3
      <4> QED
        BY <4>2, <4>4
    <3> QED
      BY <3>1, <3>2
  <2>6. Cardinality({m[1] : m \in members}) = Asked(s)
    BY <2>4 DEF Joining, TeamsFull
  <2>7. Cardinality(members) = Asked(s)
    <3>1. Cardinality(members) = Cardinality({m[1] : m \in members})
      BY <2>1, MembersCounted DEF members
    <3> QED
      BY <2>6, <3>1
  <2>8. ASSUME NEW ch \in 0 .. NumChannels - 1
        PROVE  Cardinality(Joined(ch)) = AskedOf(s, ch)
    <3>1. Cardinality(Joined(ch)) = Cardinality({m[1] : m \in Joined(ch)})
      <4>1. Joined(ch) \in SUBSET Memberships(users, x)
        BY DEF members
      <4> HIDE DEF Joined
      <4> QED
        BY <2>1, <4>1, MembersCounted
    <3>2. Cardinality(InTheChannel(users, x, ch)) = AskedOf(s, ch)
      BY DEF Joining, ChannelsFull
    <3> QED
      BY <2>5, <3>1, <3>2
  <2> QED
    BY <2>6, <2>7, <2>8, Zenon DEF members, Memberships, Asked, AskedOf
<1> QED
  BY <1>1, StaysDecided, StaysJoining, PTL

=============================================================================
