----------------------------- MODULE MCGeneration -----------------------------
(***************************************************************************)
(* Three users and three teams for TLC: one of high volume, with two       *)
(* users, more channels than fit on a line, and one channel without        *)
(* weight; one of middle volume that everybody is in, with a channel for   *)
(* more users than there are; and one of low volume, with one user, who    *)
(* joins no channel.  More direct channels are asked for than there can    *)
(* be, and one group, of all three.                                        *)
(***************************************************************************)
EXTENDS Generation

MCInTeam        == [high |-> 2, mid |-> 3, low |-> 1]
MCInChannel     == [high |-> [high |-> 2, mid |-> 2, low |-> 1],
                    mid  |-> [high |-> 0, mid |-> 2, low |-> 9],
                    low  |-> [high |-> 0, mid |-> 0, low |-> 0]]
MCTeamWeight    == [high |-> 3, mid |-> 2, low |-> 1]
MCChannelWeight == [high |-> 2, mid |-> 1, low |-> 0]

(* DirectPair numbers the pairs of up to MaxPairUsers users, each once.    *)
MaxPairUsers == 12

ASSUME PairsNumbered ==
  \A n \in 2 .. MaxPairUsers :
    LET last == (n * (n - 1)) \div 2 - 1
    IN  {DirectPair(n, k) : k \in 0 .. last}
          = {p \in (0 .. n - 1) \X (0 .. n - 1) : p[1] < p[2]}

=============================================================================
