---------------------------- MODULE BinConsensus ----------------------------
(***************************************************************************)
(* One binary consensus: the BinConsensusInstance objects that the nodes   *)
(* of an schain keep for one block and one proposer index, and the network *)
(* messages between them.  A node proposes 1 when it holds the data     *)
(* availability proof of that proposer's block.  The code follows the      *)
(* asynchronous Byzantine agreement of Mostefaoui, Moumen and Raynal:      *)
(* BV-broadcast (BVB messages, binValues), AUX messages and a common coin. *)
(*                                                                         *)
(* A node handles its messages one at a time in the schain message thread, *)
(* so a handler is one action.  Messages are delayed, reordered and        *)
(* repeated at will; a lost message is one that is never delivered.        *)
(***************************************************************************)
EXTENDS Integers, FiniteSets

CONSTANTS
    Nodes,            \* schain indices of the nodes
    Faulty,           \* Byzantine nodes: they run no code of this repository
    Unstable,         \* nodes that run the code, and may be restarted
    MaxRound,         \* last round of a consensus (100 in the code)
    CommonCoinRound,  \* first round whose coin needs threshold shares
    Inputs,           \* the inputs considered: all of [Honest -> Values], or some
    Coins,            \* the coins considered: all of [Rounds -> Values], or some
    ByzMessages,      \* what the Byzantine nodes send, to whom they please
    MaxRestarts       \* bound on the restarts of one behaviour

N == Cardinality(Nodes)
Honest == Nodes \ Faulty
Stable == Honest \ Unstable
Rounds == 0 .. MaxRound
Values == {0, 1}   \* bin_consensus_value

\* A signed network message; the signature fixes its source.
Messages == [type : {"BVB", "AUX"}, src : Nodes, round : Rounds, value : Values]

ASSUME NodesAssumption == IsFiniteSet(Nodes) /\ N > 1

\* t < N / 3; a node that forgets what it voted counts as faulty.
ASSUME FaultAssumption ==
    /\ Faulty \subseteq Nodes
    /\ Unstable \subseteq Honest
    /\ 3 * Cardinality(Faulty \cup Unstable) < N

ASSUME BoundAssumption ==
    MaxRound \in Nat /\ CommonCoinRound \in Nat /\ MaxRestarts \in Nat

ASSUME InputAssumption ==
    Inputs \subseteq [Honest -> Values] /\ Coins \subseteq [Rounds -> Values]

ASSUME ByzAssumption == ByzMessages \subseteq {m \in Messages : m.src \in Faulty}

VARIABLES
    node,      \* node[n]: the BinConsensusInstance in the memory of node n
    input,     \* input[n]: the bit of n's saved proposal vector
    coin,      \* coin[r]: the parity of the common random of round r
    msgs,      \* messages that honest nodes broadcast; they stay in flight
    decisions, \* [node, value]: the decisions reported to BlockConsensusAgent
    restarts   \* restarts so far

vars == <<node, input, coin, msgs, decisions, restarts>>

-----------------------------------------------------------------------------
\* The fields of BinConsensusInstance that the protocol reads.
Instance == [
    started : BOOLEAN,                              \* parent proposal handled
    currentRound : Rounds,
    isDecided : BOOLEAN,
    decidedRound : Rounds,
    decidedValue : Values,
    bvbVotes : [Rounds -> [Values -> SUBSET Nodes]],
    auxVotes : [Rounds -> [Values -> SUBSET Nodes]],
    binValues : [Rounds -> SUBSET Values],
    broadcastValues : [Rounds -> SUBSET Values]]

NewInstance == [
    started |-> FALSE,
    currentRound |-> 0,
    isDecided |-> FALSE,
    decidedRound |-> 0,
    decidedValue |-> 0,
    bvbVotes |-> [r \in Rounds |-> [v \in Values |-> {}]],
    auxVotes |-> [r \in Rounds |-> [v \in Values |-> {}]],
    binValues |-> [r \in Rounds |-> {}],
    broadcastValues |-> [r \in Rounds |-> {}]]

IsThird(count) == count * 3 > N
\* Mistake: the threshold of isThird, copied.
IsTwoThird_Third(count) == count * 3 > N
IsTwoThird(count) == count * 3 > 2 * N

\* Schain::getRequiredSigners: shares that make a threshold signature.
RequiredSigners == IF N <= 2 THEN N ELSE (2 * N) \div 3 + 1

-----------------------------------------------------------------------------
(* The steps of the handlers: each maps the instance s of node n to the    *)
(* instance after the call.  A CHECK_STATE that throws ends the handler    *)
(* and keeps what was already stored.                                      *)

BvbVote(s, src, r, v) == [s EXCEPT !.bvbVotes[r][v] = @ \cup {src}]

AuxVote(s, src, r, v) == [s EXCEPT !.auxVotes[r][v] = @ \cup {src}]

TotalAUXVotes(s, r) ==
    Cardinality(s.auxVotes[r][1]) + Cardinality(s.auxVotes[r][0])

\* broadcastValues is also the record of the BVB messages of this instance.
NetworkBroadcastValue(s, r, v) == [s EXCEPT !.broadcastValues[r] = @ \cup {v}]

NetworkBroadcastValueIfThird(s, r, v) ==
    IF IsThird(Cardinality(s.bvbVotes[r][v]))
    THEN NetworkBroadcastValue(s, r, v)
    ELSE s

\* The node counts its own AUX vote and broadcasts it: its own entry in
\* auxVotes is the record of its AUX messages.
AuxSelfVoteAndBroadcastValue(s, n, r, v) == AuxVote(s, n, r, v)

CanInsertIntoBinValues(s, r, v) ==
    v \notin s.binValues[r] /\ IsTwoThird(Cardinality(s.bvbVotes[r][v]))

\* Mistake: an AUX message for each value that joins binValues.
InsertIntoBinValues_TwoAUX(s, n, r, v) ==
    AuxSelfVoteAndBroadcastValue([s EXCEPT !.binValues[r] = @ \cup {v}], n, r, v)

InsertIntoBinValues(s, n, r, v) ==
    LET t == [s EXCEPT !.binValues[r] = @ \cup {v}]
    IN  IF s.binValues[r] = {} THEN AuxSelfVoteAndBroadcastValue(t, n, r, v) ELSE t

\* Mistake: the node counts its estimate of the new round and does not send it.
ProceedWithNextRound_Silent(s, n, v) ==
    LET r == s.currentRound + 1
    IN  IF s.currentRound = MaxRound \/ ~IsTwoThird(TotalAUXVotes(s, s.currentRound))
        THEN s
        ELSE BvbVote([s EXCEPT !.currentRound = r], n, r, v)

(* addToBinValuesIfTwoThirds would play the lottery of the new round. That *)
(* call has no effect: a decided node returns from it, and an undecided    *)
(* node has only its own vote in the new round (NoVotesAhead), too few to  *)
(* insert a value because N > 1.                                           *)
ProceedWithNextRound(s, n, v) ==
    LET r == s.currentRound + 1
        t == NetworkBroadcastValue([s EXCEPT !.currentRound = r], r, v)
        u == BvbVote(t, n, r, v)
    IN  IF s.currentRound = MaxRound \/ ~IsTwoThird(TotalAUXVotes(s, s.currentRound))
        THEN s
        ELSE IF n \notin t.bvbVotes[r][v] /\ CanInsertIntoBinValues(u, r, v)
             THEN InsertIntoBinValues(u, n, r, v)
             ELSE u

\* Mistake: the decision is booked on the round that would follow.
Decide_NextRound(s, v) ==
    [s EXCEPT !.isDecided = TRUE, !.decidedRound = s.currentRound + 1, !.decidedValue = v]

Decide(s, v) ==
    [s EXCEPT !.isDecided = TRUE, !.decidedRound = s.currentRound, !.decidedValue = v]

\* A value counts in the lottery when it is in binValues and has an AUX vote.
Counted(s, r) == {v \in s.binValues[r] : s.auxVotes[r][v] # {}}

CountedVotes(s, r) ==
      (IF 1 \in Counted(s, r) THEN Cardinality(s.auxVotes[r][1]) ELSE 0)
    + (IF 0 \in Counted(s, r) THEN Cardinality(s.auxVotes[r][0]) ELSE 0)

\* From CommonCoinRound on the coin is merged from the shares in the counted
\* votes; the merge throws below the required number of distinct signers.
CoinAvailable(s, r) ==
    r < CommonCoinRound \/
    Cardinality(UNION {s.auxVotes[r][v] : v \in Counted(s, r)}) >= RequiredSigners

\* Mistake: a node that saw one value decides the coin.
PlayDecisionLottery_DecideCoin(s, n, c) ==
    IF Counted(s, s.currentRound) = Values THEN ProceedWithNextRound(s, n, c)
    ELSE Decide(s, c)

\* Mistake: two values count as no value, the next estimate is 0.
PlayDecisionLottery_NoCoin(s, n, c) ==
    IF Counted(s, s.currentRound) = Values THEN ProceedWithNextRound(s, n, 0)
    ELSE LET v == IF 1 \in Counted(s, s.currentRound) THEN 1 ELSE 0
         IN  IF v = c THEN Decide(s, v) ELSE ProceedWithNextRound(s, n, v)

PlayDecisionLottery(s, n, c) ==
    LET values == Counted(s, s.currentRound)
        v == IF 1 \in values THEN 1 ELSE 0
    IN  IF values = Values THEN ProceedWithNextRound(s, n, c)
        ELSE IF v = c THEN Decide(s, v)
        ELSE ProceedWithNextRound(s, n, v)

ProceedWithDecisionLotteryIfAUXTwoThird(s, n, c) ==
    LET r == s.currentRound
    IN  IF ~s.isDecided /\ IsTwoThird(CountedVotes(s, r)) /\ CoinAvailable(s, r)
        THEN PlayDecisionLottery(s, n, c[r])
        ELSE s

AddToBinValuesIfTwoThirds(s, n, r, v, c) ==
    LET t == InsertIntoBinValues(s, n, r, v)
    IN  IF ~CanInsertIntoBinValues(s, r, v) THEN s
        ELSE IF r = s.currentRound THEN ProceedWithDecisionLotteryIfAUXTwoThird(t, n, c)
        ELSE t

IfAlreadyDecidedSendDelayedEstimateForNextRound(s, n, r) ==
    IF /\ s.isDecided
       /\ r = s.currentRound + 1
       /\ IsTwoThird(TotalAUXVotes(s, s.currentRound))
    THEN ProceedWithNextRound(s, n, s.decidedValue)
    ELSE s

-----------------------------------------------------------------------------
(* The handlers.                                                           *)

ProcessParentProposal(s, n, v, c) ==
    LET t == NetworkBroadcastValue([s EXCEPT !.started = TRUE], 0, v)
    IN  AddToBinValuesIfTwoThirds(BvbVote(t, n, 0, v), n, 0, v, c)

ProcessBVB(s, n, src, r, v, c) ==
    LET t == NetworkBroadcastValueIfThird(BvbVote(s, src, r, v), r, v)
        u == IfAlreadyDecidedSendDelayedEstimateForNextRound(t, n, r)
    IN  AddToBinValuesIfTwoThirds(u, n, r, v, c)

ProcessAUX(s, n, src, r, v, c) ==
    LET t == AuxVote(s, src, r, v)
    IN  IF r = s.currentRound THEN ProceedWithDecisionLotteryIfAUXTwoThird(t, n, c) ELSE t

\* Mistake: messages of the next round are posted before the decision.
ShouldPost_Early(s, r) == r <= s.currentRound + 1

\* BlockConsensusAgent::shouldPost: whether the network layer hands a message
\* of round r to the instance; otherwise it stays in the deferred queue.
ShouldPost(s, r) == r <= s.currentRound \/ (r = s.currentRound + 1 /\ s.isDecided)

-----------------------------------------------------------------------------
\* What instance s of node n has broadcast.
Sent(n, s) ==
    {m \in Messages :
        /\ m.src = n
        /\ \/ m.type = "BVB" /\ m.value \in s.broadcastValues[m.round]
           \/ m.type = "AUX" /\ n \in s.auxVotes[m.round][m.value]}

\* The ChildBVDecidedMessage of decide().
Reported(n, s) == IF s.isDecided THEN {[node |-> n, value |-> s.decidedValue]} ELSE {}

\* Node n ends a handler with instance s.
Handled(n, s) ==
    /\ node' = [node EXCEPT ![n] = s]
    /\ msgs' = msgs \cup Sent(n, s)
    /\ decisions' = decisions \cup Reported(n, s)
    /\ UNCHANGED <<input, coin, restarts>>

Init ==
    /\ node = [n \in Honest |-> NewInstance]
    /\ input \in Inputs
    /\ coin \in Coins
    /\ msgs = {}
    /\ decisions = {}
    /\ restarts = 0

\* BlockConsensusAgent::propose, once per run of the process.
Propose(n) ==
    /\ ~node[n].started
    /\ Handled(n, ProcessParentProposal(node[n], n, input[n], coin))

\* A message reaches n from another node.  A repeated vote changes nothing.
Receive(n, m) ==
    /\ m.src # n
    /\ ShouldPost(node[n], m.round)
    /\ \/ /\ m.type = "BVB"
          /\ m.src \notin node[n].bvbVotes[m.round][m.value]
          /\ Handled(n, ProcessBVB(node[n], n, m.src, m.round, m.value, coin))
       \/ /\ m.type = "AUX"
          /\ m.src \notin node[n].auxVotes[m.round][m.value]
          /\ Handled(n, ProcessAUX(node[n], n, m.src, m.round, m.value, coin))

\* Mistake: the proposal vector is built anew after the restart.
Restart_NewVector(n) ==
    /\ n \in Unstable
    /\ restarts < MaxRestarts
    /\ restarts' = restarts + 1
    /\ node' = [node EXCEPT ![n] = NewInstance]
    /\ input' = [input EXCEPT ![n] = 1 - @]
    /\ UNCHANGED <<coin, msgs, decisions>>

\* The process of n dies and starts again.  The instance is not persisted
\* (CONSENSUS_STATE_PERSISTENCE is not defined by the build); the proposal
\* vector and the sent messages are, and the latter are broadcast again.
Restart(n) ==
    /\ n \in Unstable
    /\ restarts < MaxRestarts
    /\ restarts' = restarts + 1
    /\ node' = [node EXCEPT ![n] = NewInstance]
    /\ UNCHANGED <<input, coin, msgs, decisions>>

Next == \E n \in Honest :
    \/ Propose(n)
    \/ \E m \in msgs \cup ByzMessages : Receive(n, m)
    \/ Restart(n)

Spec == Init /\ [][Next]_vars

\* The message thread of a node handles whatever is posted to it, the network
\* layer resends until a message is delivered and posts a deferred message
\* once shouldPost holds.  There are finitely many messages and each is
\* received once, so no message waits forever.  Byzantine nodes, restarts and
\* the nodes that may be restarted, which may also stop for good, owe nothing.
Fairness == \A n \in Stable :
    /\ WF_vars(Propose(n))
    /\ WF_vars(\E m \in msgs : Receive(n, m))

FairSpec == Spec /\ Fairness

-----------------------------------------------------------------------------
\* Every instance has the fields and ranges of a BinConsensusInstance, and
\* honest nodes send well-formed messages.
TypeOK ==
    /\ node \in [Honest -> Instance]
    /\ input \in [Honest -> Values]
    /\ coin \in [Rounds -> Values]
    /\ msgs \subseteq {m \in Messages : m.src \in Honest}
    /\ decisions \subseteq [node : Honest, value : Values]
    /\ restarts \in 0 .. MaxRestarts

\* Two honest nodes never report different decisions to their
\* BlockConsensusAgent, in different rounds and across restarts.
Agreement == \A d, e \in decisions : d.value = e.value

\* A decided value was proposed by a node that is neither Byzantine nor
\* restarted: neither the coin nor a Byzantine node can introduce a value.
Validity ==
    \A d \in decisions : \E n \in Stable : node[n].started /\ input[n] = d.value

\* An undecided instance holds no vote of a later round: shouldPost defers
\* them.  This is why proceedWithNextRound never plays a second lottery.
NoVotesAhead ==
    \A n \in Honest : ~node[n].isDecided =>
        \A r \in Rounds, v \in Values : r > node[n].currentRound =>
            node[n].bvbVotes[r][v] = {} /\ node[n].auxVotes[r][v] = {}

\* A node that is not restarted sends one AUX value per round, although
\* votes keep arriving for rounds it has left and values join binValues late.
OneAUXPerRound ==
    \A m, k \in msgs :
        /\ m.type = "AUX" /\ k.type = "AUX"
        /\ m.src \in Stable /\ k.src = m.src /\ k.round = m.round
        => k.value = m.value

\* Once a node has decided v in round r, no stable node votes for the other
\* value in a later round, although most nodes have not decided yet.
DecisionLocks ==
    \A n \in Honest, m \in msgs :
        /\ node[n].isDecided
        /\ m.type = "BVB" /\ m.src \in Stable /\ m.round > node[n].decidedRound
        => m.value = node[n].decidedValue

\* A BVB message of round 0 from an honest node carries the input it saved
\* before it first proposed, or echoes more than N/3 other nodes: a restarted
\* node does not vote against its own proposal vector.
BVJustification ==
    \A m \in msgs : m.type = "BVB" /\ m.round = 0 =>
        \/ m.value = input[m.src]
        \/ IsThird(Cardinality({n \in Nodes \ {m.src} :
                [m EXCEPT !.src = n] \in msgs \cup ByzMessages}))

\* The protocol implements what BlockConsensusAgent relies on: decisions only
\* grow, agree and were proposed by stable nodes.
Promise == INSTANCE BinAgreement WITH proposed <- {n \in Stable : node[n].started}
ImplementsAgreement == Promise!Spec

Decided(n, v) == node[n].isDecided /\ node[n].decidedValue = v

\* When all nodes that keep running propose v, they all decide v once the coin
\* shows v, although another node may propose the other value, be restarted and
\* vote anew, or stop for good.
UnanimousTermination ==
    \A v \in Values :
        /\ \A n \in Stable : input[n] = v
        /\ \E r \in Rounds : coin[r] = v
        => <>(\A n \in Stable : Decided(n, v))

\* "The only thing that consensus will do after it has been decided is send the
\* decided value in the next round" (proceedWithDecisionLotteryIfAUXTwoThird):
\* hence every node decides what one node has decided, at the latest in the
\* next round whose coin shows it.  It does not hold: the decided value is only
\* sent when a BVB message of the next round finds the AUX votes complete.
DecisionSpreads ==
    \A v \in Values, r \in Rounds :
        (\E n \in Honest : Decided(n, v) /\ node[n].decidedRound < r /\ coin[r] = v)
            ~> (\A n \in Honest : Decided(n, v))
=============================================================================
