--------------------------- MODULE MessageDelivery ---------------------------
(***************************************************************************)
(* What the consensus relies on of the network, for the messages that one  *)
(* node broadcasts about one block and one other node: a message may come  *)
(* at any time after it was broadcast, in any order, again or never, but   *)
(* no other message comes, and none before the receiver works on the block *)
(* and accepts its round.  BinConsensus receives from its set of messages  *)
(* in this way.                                                            *)
(***************************************************************************)
EXTENDS Integers

CONSTANTS Messages, RoundOf, Block, FirstBlock

VARIABLES
    sent,       \* messages that were broadcast
    block,      \* the block that the receiver works on
    round,      \* the last round that it accepts
    delivered   \* messages that have reached its consensus since it started

vars == <<sent, block, round, delivered>>

Broadcast ==
    /\ \E m \in Messages \ sent : sent' = sent \cup {m}
    /\ UNCHANGED <<block, round, delivered>>

Deliver ==
    /\ block >= Block
    /\ \E m \in sent : RoundOf[m] <= round /\ delivered' = delivered \cup {m}
    /\ UNCHANGED <<sent, block, round>>

NextRound ==
    /\ block >= Block
    /\ round' = round + 1
    /\ UNCHANGED <<sent, block, delivered>>

CommitBlock ==
    /\ block' = block + 1
    /\ UNCHANGED <<sent, round, delivered>>

\* The receiver is restarted and works on the same block.
Forget ==
    /\ round' = 0
    /\ delivered' = {}
    /\ UNCHANGED <<sent, block>>

Init ==
    /\ sent = {}
    /\ block = FirstBlock
    /\ round = 0
    /\ delivered = {}

Next == Broadcast \/ Deliver \/ NextRound \/ CommitBlock \/ Forget

Spec == Init /\ [][Next]_vars
=============================================================================
