------------------------------ MODULE Generation ------------------------------
(***************************************************************************)
(* GenerateBulkloadFile (loadtest/bulkload.go), all of it: who joins which *)
(* teams and channels, with whom one exchanges direct messages, and then   *)
(* the lines of the file (BulkloadPipeline).                               *)
(*                                                                         *)
(* The random source is seeded with a constant, so every agent generates   *)
(* the same; which permutations it yields is left open.  The percentages   *)
(* of the configuration are given by the numbers they are multiplied to.   *)
(* Names, texts and schemes are left out.                                  *)
(***************************************************************************)
EXTENDS BulkloadPipeline, FiniteSetsExt, SequencesExt

CONSTANTS
  NumTeams, NumChannels,    \* channels of each team
  NumHigh, NumMid,          \* teams of high and of middle volume
  NumHighCh, NumMidCh,      \* channels of them in each team
  InTeam,                   \* InTeam[v]: users in a team of volume v
  InChannel,                \* InChannel[v][w]: in a channel of volume w there
  TeamWeight, ChannelWeight,\* how likely a choice is, by volume
  NumDirect, NumGroup,      \* direct and group channels asked for
  GroupMax                  \* CHANNEL_GROUP_MAX_USERS, 8

Volume == {"high", "mid", "low"}

ASSUME GenerationAssumption ==
  /\ {NumTeams, NumChannels, NumHigh, NumMid, NumHighCh, NumMidCh} \subseteq Nat
  /\ {NumDirect, NumGroup, GroupMax} \subseteq Nat
  /\ InTeam \in [Volume -> 0 .. NumUsers]
  /\ InChannel \in [Volume -> [Volume -> Nat]]
  /\ TeamWeight \in [Volume -> Nat]
  /\ ChannelWeight \in [Volume -> Nat]

VARIABLES
  phase,     \* of GenerateBulkloadFile
  done,      \* teams that were given their users, in order
  inTeam,    \* users of the last of them
  channel    \* channels of it that were given theirs

own == <<phase, done, inTeam, channel>>
allVars == <<vars, own>>

Phase == {"teams", "channels", "direct", "group", "lines"}
User == 1 .. NumUsers

GenTypeOK ==
  /\ TypeOK
  /\ phase \in Phase
  /\ done \in Seq(0 .. NumTeams - 1)
  /\ inTeam \subseteq User
  /\ channel \in 0 .. NumChannels

GenInit ==
  /\ users = [u \in User |-> <<>>]
  /\ directChannels = <<>>
  /\ Start
  /\ phase = "teams"
  /\ done = <<>>
  /\ inTeam = {}
  /\ channel = 0

-----------------------------------------------------------------------------
(* Teams and channels.                                                     *)

(* The sequence number starts from zero: there is one more of high volume  *)
(* than asked for, and of middle volume as many.                           *)
VolumeOf(sequenceNum, high, mid) ==
  IF sequenceNum > high + mid THEN "low"
  ELSE IF sequenceNum > high THEN "mid" ELSE "high"

TeamVolume == VolumeOf(Len(done) - 1, NumHigh, NumMid)

AddTeam ==
  /\ phase = "teams"
  /\ Len(done) < NumTeams
  /\ \E team \in (0 .. NumTeams - 1) \ ToSet(done) :
       LET volume == VolumeOf(Len(done), NumHigh, NumMid)
           entry  == [team |-> team, weight |-> TeamWeight[volume], channels |-> <<>>]
       IN  \E chosen \in kSubset(InTeam[volume], User) :
             /\ done' = Append(done, team)
             /\ inTeam' = chosen
             /\ users' = [u \in User |-> IF u \in chosen THEN Append(users[u], entry)
                                                         ELSE users[u]]
  /\ phase' = "channels"
  /\ channel' = 0
  /\ UNCHANGED <<directChannels, sender, encoder>>

(* Users that join the next channel: as many as there are, at most.        *)
NumToAddChannel ==
  LET wanted == InChannel[TeamVolume][VolumeOf(channel, NumHighCh, NumMidCh)]
  IN  IF wanted > Cardinality(inTeam) THEN Cardinality(inTeam) ELSE wanted

NextChannel ==
  [channel |-> channel,
   weight  |-> ChannelWeight[VolumeOf(channel, NumHighCh, NumMidCh)]]

(* Mutant: a user's channels are put with the first of its teams.          *)
AddChannelFirstTeam ==
  /\ phase = "channels"
  /\ channel < NumChannels
  /\ \E chosen \in kSubset(NumToAddChannel, inTeam) :
       users' = [u \in User |->
                  IF u \in chosen
                    THEN [users[u] EXCEPT ![1].channels = Append(@, NextChannel)]
                    ELSE users[u]]
  /\ channel' = channel + 1
  /\ UNCHANGED <<directChannels, sender, encoder, phase, done, inTeam>>

(* They get it with the last of their teams, which is this one.            *)
AddChannel ==
  /\ phase = "channels"
  /\ channel < NumChannels
  /\ \E chosen \in kSubset(NumToAddChannel, inTeam) :
       users' = [u \in User |->
                  IF u \in chosen
                    THEN [users[u] EXCEPT ![Len(users[u])].channels = Append(@, NextChannel)]
                    ELSE users[u]]
  /\ channel' = channel + 1
  /\ UNCHANGED <<directChannels, sender, encoder, phase, done, inTeam>>

TeamDone ==
  /\ phase = "channels"
  /\ channel = NumChannels
  /\ phase' = "teams"
  /\ UNCHANGED <<vars, done, inTeam, channel>>

TeamsDone ==
  /\ phase = "teams"
  /\ Len(done) = NumTeams
  /\ phase' = "direct"
  /\ UNCHANGED <<vars, done, inTeam, channel>>

-----------------------------------------------------------------------------
(* Direct and group channels.                                              *)

(* The root of m, rounded down.                                            *)
Root(m) == Cardinality({q \in 1 .. m : q * q <= m})

(* The pairs among n users are numbered row by row; this is the k-th, with *)
(* users and pairs numbered from zero.                                     *)
DirectPair(n, k) ==
  LET i == n - 2 - (Root(4 * n * (n - 1) - 8 * k - 7) - 1) \div 2
      j == k + i + 1 - (n * (n - 1)) \div 2 + ((n - i) * (n - i - 1)) \div 2
  IN  <<i, j>>

(* At most this many: fewer than there are pairs, if n is odd.             *)
MaxDirect(n) == (n \div 2) * (n - 1)

(* Mutant: the users of a pair are not numbered on from zero.              *)
MakeDirectChannelsShifted ==
  /\ phase = "direct"
  /\ LET num == IF NumDirect > MaxDirect(NumUsers) THEN MaxDirect(NumUsers) ELSE NumDirect
     IN  directChannels' = [k \in 1 .. num |-> {DirectPair(NumUsers, k - 1)[1] + 1,
                                                DirectPair(NumUsers, k - 1)[2]}]
  /\ phase' = "group"
  /\ UNCHANGED <<users, sender, encoder, done, inTeam, channel>>

(* The first pairs, not random ones: the loop uses the indices of the      *)
(* permutation it draws, not its values.                                   *)
MakeDirectChannels ==
  /\ phase = "direct"
  /\ LET num == IF NumDirect > MaxDirect(NumUsers) THEN MaxDirect(NumUsers) ELSE NumDirect
     IN  directChannels' = [k \in 1 .. num |-> {DirectPair(NumUsers, k - 1)[1] + 1,
                                                DirectPair(NumUsers, k - 1)[2] + 1}]
  /\ phase' = "group"
  /\ UNCHANGED <<users, sender, encoder, done, inTeam, channel>>

(* Where the groups are among the direct channels.                         *)
Groups == {k \in DOMAIN directChannels : Cardinality(directChannels[k]) >= 3}

(* One of three attempts picks users that are not a group yet.             *)
MakeGroupChannel ==
  /\ phase = "group"
  /\ Cardinality(Groups) < NumGroup
  /\ \E count \in 3 .. GroupMax : \E members \in kSubset(count, User) :
       /\ \A k \in Groups : directChannels[k] # members
       /\ directChannels' = Append(directChannels, members)
  /\ UNCHANGED <<users, sender, encoder, own>>

(* There are too few users, or each attempt picks a group there is: no     *)
(* more groups are made.                                                   *)
GroupsGivenUp ==
  /\ phase = "group"
  /\ Cardinality(Groups) < NumGroup
  /\ NumUsers < GroupMax \/ Groups # {}
  /\ phase' = "lines"
  /\ UNCHANGED <<vars, done, inTeam, channel>>

GroupsDone ==
  /\ phase = "group"
  /\ Cardinality(Groups) = NumGroup
  /\ phase' = "lines"
  /\ UNCHANGED <<vars, done, inTeam, channel>>

-----------------------------------------------------------------------------

Choosing ==
  \/ AddTeam \/ AddChannel \/ TeamDone \/ TeamsDone
  \/ MakeDirectChannels \/ MakeGroupChannel \/ GroupsGivenUp \/ GroupsDone

(* Mutant: lines are sent before the last channels are generated.          *)
WritingEarly(step) == phase \in {"group", "lines"} /\ step /\ UNCHANGED own

Writing(step) == phase = "lines" /\ step /\ UNCHANGED own

GenNext == Choosing \/ Writing(Sender) \/ Writing(Encoder)

GenSpec == GenInit /\ [][GenNext]_allVars

(* The Go scheduler runs both goroutines.                                  *)
GenFairness ==
  /\ WF_allVars(Choosing)
  /\ WF_allVars(Writing(Sender))
  /\ WF_allVars(Writing(Encoder))

FairGenSpec == GenSpec /\ GenFairness

-----------------------------------------------------------------------------
(* Choices, as the entities make them of what was generated.               *)

Weights(choices) == [c \in DOMAIN choices |-> choices[c].weight]

(* Mutant: a choice whose weight is used up is taken.                      *)
WeightedChoiceUsedUp(choices, random) ==
  IF Len(choices) = 1 THEN 1
  ELSE CHOOSE c \in DOMAIN choices :
         /\ random - Total(SubSeq(Weights(choices), 1, c)) <= 0
         /\ \A d \in 1 .. c - 1 : random - Total(SubSeq(Weights(choices), 1, d)) > 0

(* randutil.WeightedChoice, for the random number it draws, which is less  *)
(* than the total of the weights.                                          *)
WeightedChoice(choices, random) ==
  IF Len(choices) = 1 THEN 1
  ELSE CHOOSE c \in DOMAIN choices :
         /\ random - Total(SubSeq(Weights(choices), 1, c)) < 0
         /\ \A d \in 1 .. c - 1 : random - Total(SubSeq(Weights(choices), 1, d)) >= 0

-----------------------------------------------------------------------------
(* Properties.                                                             *)

(* In the file every team has as many members as its volume asks for, and  *)
(* each of its channels has as many, or everybody in the team: each a user *)
(* of its own, which no later team or channel took away (lines 564-621).  *)
MembersAsPlanned ==
  phase = "lines" => \A s \in DOMAIN done :
    LET volume  == VolumeOf(s - 1, NumHigh, NumMid)
        members == {m \in User \X (1 .. NumTeams) :
                     /\ m[2] \in DOMAIN users[m[1]]
                     /\ users[m[1]][m[2]].team = done[s]}
        Joined(ch) == {m \in members :
                         \E c \in DOMAIN users[m[1]][m[2]].channels :
                           users[m[1]][m[2]].channels[c].channel = ch}
        Wanted(ch) == InChannel[volume][VolumeOf(ch, NumHighCh, NumMidCh)]
    IN  /\ Cardinality(members) = InTeam[volume]
        /\ Cardinality({m[1] : m \in members}) = InTeam[volume]
        /\ \A ch \in 0 .. NumChannels - 1 :
             Cardinality(Joined(ch)) =
               IF Wanted(ch) > InTeam[volume] THEN InTeam[volume] ELSE Wanted(ch)

(* No two direct or group channels have the same members, for the server   *)
(* would take the second for the first, and nobody talks to himself (lines *)
(* 374 to 483).                                                            *)
DirectChannelsDistinct ==
  /\ IsInjective(directChannels)
  /\ \A k \in DOMAIN directChannels :
       directChannels[k] \subseteq User /\ Cardinality(directChannels[k]) >= 2

(* What an entity picks of its teams, or of its channels in one, it picks  *)
(* in proportion to the weights: one without weight only if it is the only *)
(* one (randutil.go, from line 41).                                        *)
InProportion(choices) ==
  LET total == Total(Weights(choices))
  IN  Len(choices) > 1 =>
        \A c \in DOMAIN choices :
          Cardinality({r \in 0 .. total - 1 : WeightedChoice(choices, r) = c})
            = choices[c].weight

PicksInProportion ==
  \A u \in User :
    /\ InProportion(users[u])
    /\ \A t \in DOMAIN users[u] : InProportion(users[u][t].channels)

(* Whatever was generated, the lines are sent as BulkloadPipeline has it.  *)
WritesLines == Spec

(* The file is generated: the two goroutines do not wait for each other    *)
(* for ever, and making groups ends.                                       *)
Finishes == <>returned

=============================================================================
