-------------------------- MODULE BulkloadPipeline --------------------------
(***************************************************************************)
(* GenerateBulkloadFile (loadtest/bulkload.go), from line 629: one         *)
(* goroutine sends pointers to line objects through a buffered channel, a  *)
(* second one encodes them.  Every user is sent twice.  First without      *)
(* channel memberships, so that the user gets created; the memberships,    *)
(* set aside meanwhile, are put back afterwards and sent in chunks, as     *)
(* lines of their own.  The first kind of line points to the user itself,  *)
(* and what the encoder writes is what it finds there when it gets to it.  *)
(*                                                                         *)
(* The users with their teams and channels, and the direct channels, were  *)
(* generated before (Generation).                                          *)
(***************************************************************************)
EXTENDS Integers, Sequences

CONSTANTS
  Capacity,   \* of lineObjectsChan: 100
  ChunkSize,  \* memberships on a line: 100
  NumHead,    \* lines before the users: version, schemes, teams, channels
  NumUsers,
  NumEmoji

ASSUME PipelineAssumption ==
  /\ Capacity \in Nat \ {0}
  /\ ChunkSize \in Nat \ {0}
  /\ NumHead \in Nat \ {0}
  /\ NumUsers \in Nat
  /\ NumEmoji \in Nat

VARIABLES
  users,     \* users[u]: the teams of user u, each with its channels, in order
  directChannels, \* the members of each direct or group channel
  lines,     \* the line objects sent, in order
  restored,  \* users 1 .. restored have their memberships back
  todo,      \* memberships of user restored yet to be sent, team by team
  direct,    \* direct channels sent
  closed,    \* lineObjectsChan is closed
  returned,  \* GenerateBulkloadFile has returned
  taken,     \* line objects the encoder received
  busy,      \* the encoder is encoding line object taken
  sawFull,   \* it found memberships in that user when it began
  output     \* the lines written

data    == <<users, directChannels>>
sender  == <<lines, restored, todo, direct, closed, returned>>
encoder == <<taken, busy, sawFull, output>>
vars    == <<data, sender, encoder>>

(* A channel is numbered within its team; a weight is that of the choice.  *)
Channel == [channel : Nat, weight : Nat]
Team    == [team : Nat, weight : Nat, channels : Seq(Channel)]

(* How many channels user u joins in each of its teams.                    *)
Joins(u) == [t \in DOMAIN users[u] |-> Len(users[u][t].channels)]

Kind == {"head", "user", "emoji", "members", "direct"}

(* A "user" line points to a user; a "members" line holds count of the     *)
(* memberships of a copy of one.                                           *)
Line == [kind : Kind, user : 0 .. NumUsers, count : Nat]

Plain(k) == [kind |-> k, user |-> 0, count |-> 0]

(* What a "user" line reads: does the user have memberships by now?        *)
Full(line) ==
  /\ line.kind = "user"
  /\ line.user <= restored
  /\ \E t \in DOMAIN users[line.user] : users[line.user][t].channels # <<>>

DataTypeOK ==
  /\ users \in [1 .. NumUsers -> Seq(Team)]
  /\ directChannels \in Seq(SUBSET Int)

TypeOK ==
  /\ DataTypeOK
  /\ lines \in Seq(Line)
  /\ restored \in 0 .. NumUsers
  /\ todo \in Seq(Nat)
  /\ direct \in 0 .. Len(directChannels)
  /\ closed \in BOOLEAN
  /\ returned \in BOOLEAN
  /\ taken \in 0 .. Len(lines)
  /\ busy \in BOOLEAN
  /\ sawFull \in BOOLEAN
  /\ output \in Seq([line : Line, full : BOOLEAN])

(* Nothing is sent yet.                                                    *)
Start ==
  /\ lines = <<>>
  /\ restored = 0
  /\ todo = <<>>
  /\ direct = 0
  /\ closed = FALSE
  /\ returned = FALSE
  /\ taken = 0
  /\ busy = FALSE
  /\ sawFull = FALSE
  /\ output = <<>>

Init == DataTypeOK /\ Start

(* What is generated before the first line is sent.                        *)
Generate ==
  /\ lines = <<>>
  /\ direct = 0
  /\ DataTypeOK'
  /\ UNCHANGED <<sender, encoder>>

-----------------------------------------------------------------------------
(* The sender.  Up to the memberships its place is the number of lines.    *)

FirstUser   == NumHead
FirstEmoji  == FirstUser + NumUsers
(* Mutant: the emojis are not sent between users and memberships.          *)
FirstMemberNoEmoji == FirstEmoji

FirstMember == FirstEmoji + NumEmoji

(* A send blocks while the buffer is full.                                 *)
Send(line) ==
  /\ Len(lines) - taken < Capacity
  /\ lines' = Append(lines, line)

SendHead ==
  /\ Len(lines) < FirstUser
  /\ Send(Plain("head"))
  /\ UNCHANGED <<restored, todo, direct, closed, returned, data, encoder>>

(* The user is sent with its memberships set aside.                        *)
SendUser ==
  /\ Len(lines) \in FirstUser .. FirstEmoji - 1
  /\ Send([kind |-> "user", user |-> Len(lines) - FirstUser + 1, count |-> 0])
  /\ UNCHANGED <<restored, todo, direct, closed, returned, data, encoder>>

SendEmoji ==
  /\ Len(lines) \in FirstEmoji .. FirstMember - 1
  /\ Send(Plain("emoji"))
  /\ UNCHANGED <<restored, todo, direct, closed, returned, data, encoder>>

(* Mutant: memberships put back as soon as the users are sent.             *)
RestoreEarly ==
  /\ Len(lines) >= FirstEmoji
  /\ todo = <<>>
  /\ restored < NumUsers
  /\ restored' = restored + 1
  /\ todo' = Joins(restored + 1)
  /\ UNCHANGED <<lines, direct, closed, returned, data, encoder>>

(* The memberships of the next user are put back.                          *)
Restore ==
  /\ Len(lines) >= FirstMember
  /\ todo = <<>>
  /\ restored < NumUsers
  /\ restored' = restored + 1
  /\ todo' = Joins(restored + 1)
  /\ UNCHANGED <<lines, direct, closed, returned, data, encoder>>

(* Mutant: what is left of a team's memberships after a chunk is dropped.  *)
SendMembersOneChunk ==
  /\ todo # <<>>
  /\ Head(todo) > 0
  /\ LET count == IF Head(todo) < ChunkSize THEN Head(todo) ELSE ChunkSize
     IN  Send([kind |-> "members", user |-> restored, count |-> count])
  /\ todo' = Tail(todo)
  /\ UNCHANGED <<restored, direct, closed, returned, data, encoder>>

(* A full chunk of a team's memberships, or what is left of them.          *)
SendMembers ==
  /\ todo # <<>>
  /\ Head(todo) > 0
  /\ LET count == IF Head(todo) < ChunkSize THEN Head(todo) ELSE ChunkSize
         left  == Head(todo) - count
     IN  /\ Send([kind |-> "members", user |-> restored, count |-> count])
         /\ todo' = IF left > 0 THEN <<left>> \o Tail(todo) ELSE Tail(todo)
  /\ UNCHANGED <<restored, direct, closed, returned, data, encoder>>

(* A team in which the user joins no channel takes no line.                *)
SkipTeam ==
  /\ todo # <<>>
  /\ Head(todo) = 0
  /\ todo' = Tail(todo)
  /\ UNCHANGED <<lines, restored, direct, closed, returned, data, encoder>>

MembersSent ==
  /\ Len(lines) >= FirstMember
  /\ restored = NumUsers
  /\ todo = <<>>

(* Mutant: one direct channel too many.                                    *)
SendDirectOffByOne ==
  /\ MembersSent
  /\ direct <= Len(directChannels)
  /\ Send(Plain("direct"))
  /\ direct' = direct + 1
  /\ UNCHANGED <<restored, todo, closed, returned, data, encoder>>

SendDirect ==
  /\ MembersSent
  /\ direct < Len(directChannels)
  /\ Send(Plain("direct"))
  /\ direct' = direct + 1
  /\ UNCHANGED <<restored, todo, closed, returned, data, encoder>>

(* Mutant: the channel is never closed.                                    *)
CloseForgotten ==
  /\ MembersSent
  /\ direct = Len(directChannels)
  /\ ~ closed
  /\ UNCHANGED vars

Close ==
  /\ MembersSent
  /\ direct = Len(directChannels)
  /\ ~ closed
  /\ closed' = TRUE
  /\ UNCHANGED <<lines, restored, todo, direct, returned, data, encoder>>

(* The encoder closed doneChan: it has received everything, and finished.  *)
Done == closed /\ taken = Len(lines) /\ ~ busy

Return ==
  /\ closed
  /\ Done
  /\ ~ returned
  /\ returned' = TRUE
  /\ UNCHANGED <<lines, restored, todo, direct, closed, data, encoder>>

-----------------------------------------------------------------------------
(* The encoder.                                                            *)

Receive ==
  /\ ~ busy
  /\ taken < Len(lines)
  /\ taken' = taken + 1
  /\ busy' = TRUE
  /\ sawFull' = Full(lines[taken + 1])
  /\ UNCHANGED <<data, sender, output>>

(* Nothing orders the encoder's reads of a user and the sender's write: if *)
(* the memberships come back between Receive and Encode, it may write them *)
(* or not.                                                                 *)
Encode ==
  /\ busy
  /\ busy' = FALSE
  /\ \E full \in {sawFull, Full(lines[taken])} :
       output' = Append(output, [line |-> lines[taken], full |-> full])
  /\ UNCHANGED <<data, sender, taken, sawFull>>

-----------------------------------------------------------------------------

Sender ==
  \/ SendHead
  \/ SendUser
  \/ SendEmoji
  \/ Restore
  \/ SendMembers
  \/ SkipTeam
  \/ SendDirect
  \/ Close
  \/ Return

Encoder == Receive \/ Encode

Next == Generate \/ Sender \/ Encoder

Spec == Init /\ [][Next]_vars

-----------------------------------------------------------------------------
(* Properties.                                                             *)

(* No user line comes with channel memberships: "Output a version of the   *)
(* user without any channel memberships" (line 701).                       *)
PlainUserLines ==
  \A k \in DOMAIN output : output[k].line.kind = "user" => ~ output[k].full

(* The server imports lines in parallel, but only lines of one type at a   *)
(* time: between the line that creates a user and one with memberships     *)
(* there is a line of another type (lines 687 to 690).                     *)
Barrier ==
  \A k \in DOMAIN output : output[k].line.kind = "members" =>
    \E c \in 1 .. k - 1 :
      /\ output[c].line.kind = "user"
      /\ output[c].line.user = output[k].line.user
      /\ \E b \in c + 1 .. k - 1 : output[b].line.kind \notin {"user", "members"}

Total(s) == LET f[n \in 0 .. Len(s)] == IF n = 0 THEN 0 ELSE f[n - 1] + s[n]
            IN  f[Len(s)]

(* The memberships of user u on each of the lines sent.                    *)
OnLines(u) ==
  [k \in DOMAIN lines |->
    IF lines[k].kind = "members" /\ lines[k].user = u THEN lines[k].count ELSE 0]

(* The membership lines of a user sent so far, of at most ChunkSize each,  *)
(* and those to be sent add up to what the user joins.                     *)
MembershipsAddUp ==
  /\ \A u \in 1 .. restored :
       Total(Joins(u)) = Total(OnLines(u)) + IF u = restored THEN Total(todo) ELSE 0
  /\ \A k \in DOMAIN lines : lines[k].count <= ChunkSize

=============================================================================
