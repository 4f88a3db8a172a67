--------------------------- MODULE BinVotesProofs ---------------------------
(***************************************************************************)
(* More results about the votes of BinConsensus, on top of the invariant   *)
(* of BinConsensusProofs.                                                  *)
(*                                                                         *)
(* An undecided instance is never ahead of its round: every step of a      *)
(* handler stores votes for rounds up to the current one, or is taken by a *)
(* decided node.  And every BVB message of round 0 is justified also when  *)
(* its sender has forgotten the votes that justified it: messages only     *)
(* grow in number, so a justification outlives the instance.               *)
(*                                                                         *)
(* A node leaves a round undecided only with the value the coin did not    *)
(* show in binValues.  After a decision that value is dead, so the next    *)
(* round whose coin shows the decision ends the protocol for every node.   *)
(*                                                                         *)
(* And when exactly the fewest nodes that make a quorum are running, with  *)
(* mixed inputs, round 0 never ends: a node does not count its own echo.   *)
(***************************************************************************)
EXTENDS BinConsensusProofs

-----------------------------------------------------------------------------
(* No votes ahead.                                                         *)

NoAhead(s) == ~s.isDecided =>
    \A r \in Rounds, v \in Values : r > s.currentRound =>
        s.bvbVotes[r][v] = {} /\ s.auxVotes[r][v] = {}

\* A vote for round r may be stored.
MayStore(s, r) == r <= s.currentRound \/ s.isDecided

LEMMA VoteNoAhead ==
    ASSUME NEW s \in Instance, NoAhead(s), NEW src \in Nodes, NEW r \in Rounds,
           NEW v \in Values, MayStore(s, r)
    PROVE  /\ BvbVote(s, src, r, v) \in Instance /\ NoAhead(BvbVote(s, src, r, v))
           /\ AuxVote(s, src, r, v) \in Instance /\ NoAhead(AuxVote(s, src, r, v))
<1> DEFINE b == BvbVote(s, src, r, v)
           a == AuxVote(s, src, r, v)
<1>0. s.currentRound \in Rounds
    BY DEF Instance
<1>r. ~s.isDecided => \A q \in Rounds : q > s.currentRound => q # r
    BY <1>0, BoundAssumption DEF MayStore, Rounds
<1>1. /\ b \in Instance /\ b.isDecided = s.isDecided /\ b.currentRound = s.currentRound
      /\ \A q \in Rounds, w \in Values : q # r \/ w # v => b.bvbVotes[q][w] = s.bvbVotes[q][w]
      /\ b.auxVotes = s.auxVotes
    BY BvbVoteFields
<1>2. /\ a \in Instance /\ a.isDecided = s.isDecided /\ a.currentRound = s.currentRound
      /\ \A q \in Rounds, w \in Values : q # r \/ w # v => a.auxVotes[q][w] = s.auxVotes[q][w]
      /\ a.bvbVotes = s.bvbVotes
    BY AuxVoteFields
<1> HIDE DEF a, b
<1>3. NoAhead(b)
    BY <1>r, <1>1 DEF NoAhead
<1>4. NoAhead(a)
    BY <1>r, <1>2 DEF NoAhead
<1> QED
    BY <1>1, <1>2, <1>3, <1>4 DEF a, b

\* Steps that store no vote: they start, echo or move on to a later round.
LEMMA FieldsNoAhead ==
    ASSUME NEW s \in Instance, NoAhead(s), NEW r \in Rounds, NEW v \in Values
    PROVE  /\ [s EXCEPT !.started = TRUE] \in Instance /\ NoAhead([s EXCEPT !.started = TRUE])
           /\ NetworkBroadcastValue(s, r, v) \in Instance
           /\ NoAhead(NetworkBroadcastValue(s, r, v))
           /\ NetworkBroadcastValue(s, r, v).currentRound = s.currentRound
           /\ NetworkBroadcastValue(s, r, v).isDecided = s.isDecided
           /\ s.currentRound <= r =>
                /\ [s EXCEPT !.currentRound = r] \in Instance
                /\ NoAhead([s EXCEPT !.currentRound = r])
<1> DEFINE p == [s EXCEPT !.started = TRUE]
           b == NetworkBroadcastValue(s, r, v)
           q == [s EXCEPT !.currentRound = r]
<1>1. /\ p \in Instance /\ p.isDecided = s.isDecided /\ p.currentRound = s.currentRound
      /\ p.bvbVotes = s.bvbVotes /\ p.auxVotes = s.auxVotes
    BY DEF Instance
<1>2. /\ b.isDecided = s.isDecided /\ b.currentRound = s.currentRound
      /\ b.bvbVotes = s.bvbVotes /\ b.auxVotes = s.auxVotes
    BY DEF Instance, NetworkBroadcastValue
<1>3. b \in Instance
    <2> DEFINE f == [s.broadcastValues EXCEPT ![r] = @ \cup {v}]
    <2>1. f \in [Rounds -> SUBSET Values]
        BY DEF Instance
    <2>2. b = [s EXCEPT !.broadcastValues = f]
        BY DEF Instance, NetworkBroadcastValue
    <2> HIDE DEF f, b
    <2> QED
        BY <2>1, <2>2 DEF Instance
<1>4. /\ q \in Instance /\ q.isDecided = s.isDecided /\ q.currentRound = r
      /\ q.bvbVotes = s.bvbVotes /\ q.auxVotes = s.auxVotes
    BY DEF Instance
<1> HIDE DEF p, b, q
<1>5. NoAhead(p) /\ NoAhead(b)
    BY <1>1, <1>2 DEF NoAhead
<1>6. ASSUME s.currentRound <= r PROVE NoAhead(q)
    <2>1. s.currentRound \in Nat /\ r \in Nat /\ \A k \in Rounds : k \in Nat
        BY BoundAssumption DEF Instance, Rounds
    <2>2. \A k \in Rounds : k > r => k > s.currentRound
        BY <1>6, <2>1
    <2> QED
        BY <1>4, <2>2 DEF NoAhead
<1> QED
    BY <1>1, <1>2, <1>3, <1>4, <1>5, <1>6 DEF p, b, q

LEMMA InsertNoAhead ==
    ASSUME NEW s \in Instance, NoAhead(s), NEW n \in Nodes, NEW r \in Rounds,
           NEW v \in Values, MayStore(s, r)
    PROVE  InsertIntoBinValues(s, n, r, v) \in Instance /\ NoAhead(InsertIntoBinValues(s, n, r, v))
<1> DEFINE t == [s EXCEPT !.binValues[r] = @ \cup {v}]
           f == [s.binValues EXCEPT ![r] = @ \cup {v}]
<1>1. f \in [Rounds -> SUBSET Values] /\ t = [s EXCEPT !.binValues = f]
    BY DEF Instance
<1>d. InsertIntoBinValues(s, n, r, v) =
        IF s.binValues[r] = {} THEN AuxVote(t, n, r, v) ELSE t
    BY DEF InsertIntoBinValues, AuxSelfVoteAndBroadcastValue
<1> HIDE DEF t, f
<1>2. /\ t \in Instance /\ t.isDecided = s.isDecided /\ t.currentRound = s.currentRound
      /\ t.bvbVotes = s.bvbVotes /\ t.auxVotes = s.auxVotes
    BY <1>1 DEF Instance
<1>3. NoAhead(t) /\ MayStore(t, r)
    BY <1>2 DEF NoAhead, MayStore
<1> QED
    BY <1>d, <1>2, <1>3, VoteNoAhead

LEMMA NextRoundNoAhead ==
    ASSUME NEW s \in Instance, NoAhead(s), NEW n \in Nodes, NEW v \in Values
    PROVE  /\ ProceedWithNextRound(s, n, v) \in Instance
           /\ NoAhead(ProceedWithNextRound(s, n, v))
<1> DEFINE r == s.currentRound + 1
           p == [s EXCEPT !.currentRound = r]
           t == NetworkBroadcastValue(p, r, v)
           u == BvbVote(t, n, r, v)
<1>1. CASE s.currentRound = MaxRound \/ ~IsTwoThird(TotalAUXVotes(s, s.currentRound))
    BY <1>1 DEF ProceedWithNextRound
<1>2. CASE ~(s.currentRound = MaxRound \/ ~IsTwoThird(TotalAUXVotes(s, s.currentRound)))
    <2>1. r \in Rounds /\ s.currentRound <= r /\ r <= r
        BY <1>2, BoundAssumption DEF Instance, Rounds
    <2>2. p \in Instance /\ NoAhead(p) /\ p.currentRound = r
        BY <2>1, FieldsNoAhead DEF Instance
    <2>3. ProceedWithNextRound(s, n, v) =
            IF n \notin t.bvbVotes[r][v] /\ CanInsertIntoBinValues(u, r, v)
            THEN InsertIntoBinValues(u, n, r, v) ELSE u
        BY <1>2 DEF ProceedWithNextRound
    <2> HIDE DEF r, p
    <2>4. t \in Instance /\ NoAhead(t) /\ t.currentRound = r
        BY <2>1, <2>2, FieldsNoAhead
    <2> HIDE DEF t
    <2>5. MayStore(t, r)
        BY <2>1, <2>4 DEF MayStore
    <2>6. u \in Instance /\ NoAhead(u) /\ u.currentRound = r
        BY <2>1, <2>4, <2>5, VoteNoAhead, BvbVoteFields
    <2> HIDE DEF u
    <2>7. MayStore(u, r)
        BY <2>1, <2>6 DEF MayStore
    <2> QED
        BY <2>1, <2>3, <2>6, <2>7, InsertNoAhead
<1> QED
    BY <1>1, <1>2

LEMMA LotteryNoAhead ==
    ASSUME NEW s \in Instance, NoAhead(s), NEW n \in Nodes, NEW c \in [Rounds -> Values]
    PROVE  NoAhead(ProceedWithDecisionLotteryIfAUXTwoThird(s, n, c))
<1> DEFINE r == s.currentRound
           values == Counted(s, r)
           v == IF 1 \in values THEN 1 ELSE 0
<1>1. c[r] \in Values /\ v \in Values
    BY DEF Instance, Values
<1>2. NoAhead(Decide(s, v))
    BY DEF NoAhead, Decide, Instance
<1>3. NoAhead(ProceedWithNextRound(s, n, c[r])) /\ NoAhead(ProceedWithNextRound(s, n, v))
    BY <1>1, NextRoundNoAhead
<1>4. PlayDecisionLottery(s, n, c[r]) =
        IF values = Values THEN ProceedWithNextRound(s, n, c[r])
        ELSE IF v = c[r] THEN Decide(s, v)
        ELSE ProceedWithNextRound(s, n, v)
    BY DEF PlayDecisionLottery
<1>5. NoAhead(PlayDecisionLottery(s, n, c[r]))
    BY <1>2, <1>3, <1>4
<1> QED
    BY <1>5 DEF ProceedWithDecisionLotteryIfAUXTwoThird

LEMMA AddToBinNoAhead ==
    ASSUME NEW s \in Instance, NoAhead(s), NEW n \in Nodes, NEW c \in [Rounds -> Values],
           NEW r \in Rounds, NEW v \in Values, MayStore(s, r)
    PROVE  NoAhead(AddToBinValuesIfTwoThirds(s, n, r, v, c))
<1> DEFINE t == InsertIntoBinValues(s, n, r, v)
<1>1. t \in Instance /\ NoAhead(t)
    BY InsertNoAhead
<1>2. NoAhead(ProceedWithDecisionLotteryIfAUXTwoThird(t, n, c))
    BY <1>1, LotteryNoAhead
<1> QED
    BY <1>1, <1>2 DEF AddToBinValuesIfTwoThirds

\* processParentProposal.
LEMMA ProposalNoAhead ==
    ASSUME NEW s \in Instance, NoAhead(s), NEW n \in Nodes, NEW c \in [Rounds -> Values],
           NEW v \in Values
    PROVE  NoAhead(ProcessParentProposal(s, n, v, c))
<1> DEFINE p == [s EXCEPT !.started = TRUE]
           t == NetworkBroadcastValue(p, 0, v)
           u == BvbVote(t, n, 0, v)
<1>0. 0 \in Rounds /\ \A k \in Rounds : 0 <= k
    BY BoundAssumption DEF Rounds
<1>1. p \in Instance /\ NoAhead(p)
    BY <1>0, FieldsNoAhead
<1>2. ProcessParentProposal(s, n, v, c) = AddToBinValuesIfTwoThirds(u, n, 0, v, c)
    BY DEF ProcessParentProposal
<1> HIDE DEF p
<1>3. t \in Instance /\ NoAhead(t)
    BY <1>0, <1>1, FieldsNoAhead
<1> HIDE DEF t
<1>4. MayStore(t, 0)
    BY <1>0, <1>3 DEF MayStore, Instance
<1>5. u \in Instance /\ NoAhead(u)
    BY <1>0, <1>3, <1>4, VoteNoAhead
<1> HIDE DEF u
<1>6. MayStore(u, 0)
    BY <1>0, <1>5 DEF MayStore, Instance
<1> QED
    BY <1>0, <1>2, <1>5, <1>6, AddToBinNoAhead

\* A BVB or an AUX message that shouldPost lets through.
LEMMA MessageNoAhead ==
    ASSUME NEW s \in Instance, NoAhead(s), NEW n \in Nodes, NEW c \in [Rounds -> Values],
           NEW src \in Nodes, NEW r \in Rounds, NEW v \in Values, ShouldPost(s, r)
    PROVE  NoAhead(ProcessBVB(s, n, src, r, v, c)) /\ NoAhead(ProcessAUX(s, n, src, r, v, c))
<1> DEFINE p == BvbVote(s, src, r, v)
           a == AuxVote(s, src, r, v)
           t == NetworkBroadcastValueIfThird(p, r, v)
           u == IfAlreadyDecidedSendDelayedEstimateForNextRound(t, n, r)
<1>0. MayStore(s, r)
    BY DEF ShouldPost, MayStore
<1>1. /\ p \in Instance /\ NoAhead(p) /\ p.currentRound = s.currentRound
      /\ p.isDecided = s.isDecided
    BY <1>0, VoteNoAhead, BvbVoteFields
<1>2. a \in Instance /\ NoAhead(a)
    BY <1>0, VoteNoAhead
<1>3. ProcessBVB(s, n, src, r, v, c) = AddToBinValuesIfTwoThirds(u, n, r, v, c)
    BY DEF ProcessBVB
<1> HIDE DEF p
<1>4. /\ t \in Instance /\ NoAhead(t) /\ t.currentRound = s.currentRound
      /\ t.isDecided = s.isDecided
    BY <1>1, FieldsNoAhead DEF NetworkBroadcastValueIfThird
<1> HIDE DEF t
<1>5. u \in Instance /\ NoAhead(u) /\ MayStore(u, r)
    <2>1. CASE u = t
        BY <1>0, <1>4, <2>1 DEF MayStore
    <2>2. CASE u # t
        <3>1. t.isDecided /\ u = ProceedWithNextRound(t, n, t.decidedValue)
              /\ r = t.currentRound + 1
            BY <2>2 DEF IfAlreadyDecidedSendDelayedEstimateForNextRound
        <3>2. t.decidedValue \in Values
            BY <1>4 DEF Instance
        <3>3. u \in Instance /\ NoAhead(u)
            BY <1>4, <3>1, <3>2, NextRoundNoAhead
        <3>4. u.isDecided
            BY <1>4, <3>1 DEF ProceedWithNextRound, BvbVote, AuxVote, NetworkBroadcastValue,
                   InsertIntoBinValues, AuxSelfVoteAndBroadcastValue, Instance
        <3> QED
            BY <3>3, <3>4 DEF MayStore
    <2> QED
        BY <2>1, <2>2
<1> HIDE DEF u
<1>6. NoAhead(ProcessBVB(s, n, src, r, v, c))
    BY <1>3, <1>5, AddToBinNoAhead
<1>7. NoAhead(ProcessAUX(s, n, src, r, v, c))
    BY <1>2, LotteryNoAhead DEF ProcessAUX
<1> QED
    BY <1>6, <1>7

-----------------------------------------------------------------------------
(* Who has sent the BVB votes that an instance counts.                     *)

Origin(n, s, M) == \A q \in Nodes, r \in Rounds, v \in Values :
    q # n /\ q \in s.bvbVotes[r][v] => Vote("BVB", q, r, v) \in M

Origins == \A n \in Honest : Origin(n, node[n], msgs \cup ByzMessages)

VInv == NoVotesAhead /\ Origins /\ BVJustification

\* A handler counts what was counted before, its own votes and perhaps the
\* message that it handles.
LEMMA OriginStays ==
    ASSUME NEW n, NEW s \in Instance, NEW t \in Instance, NEW M, Origin(n, s, M),
           Extends(n, s, t)
    PROVE  Origin(n, t, M)
BY DEF Origin, Extends

\* What holds of the instance in which a handler of n ends.
GoodVotes(n, t) ==
    Handled(n, t) /\ NoAhead(t) /\ Origin(n, t, msgs \cup ByzMessages)

LEMMA ProposeVotes ==
    ASSUME IInv, VInv, NEW n \in Honest, Propose(n)
    PROVE  \E t : GoodVotes(n, t)
<1> DEFINE t == ProcessParentProposal(node[n], n, input[n], coin)
<1>1. /\ n \in Nodes /\ input[n] \in Values /\ coin \in [Rounds -> Values]
      /\ node[n] \in Instance /\ LocalInv(n, node[n], input[n], coin)
    BY NodeClasses DEF IInv, TypeOK, LocalInvs, LocalInv
<1>2. NoAhead(node[n]) /\ Origin(n, node[n], msgs \cup ByzMessages)
    BY DEF VInv, NoVotesAhead, NoAhead, Origins
<1>3. Grows(n, node[n], t, input[n], coin)
    BY <1>1, ProposalInv
<1>4. NoAhead(t)
    BY <1>1, <1>2, ProposalNoAhead
<1>5. Handled(n, t)
    BY DEF Propose
<1> HIDE DEF t
<1>6. Origin(n, t, msgs \cup ByzMessages)
    BY <1>1, <1>2, <1>3, OriginStays DEF Grows, LocalInv
<1> QED
    BY <1>4, <1>5, <1>6 DEF GoodVotes

LEMMA ReceiveVotes ==
    ASSUME IInv, VInv, NEW n \in Honest, NEW m \in msgs \cup ByzMessages, Receive(n, m)
    PROVE  \E t : GoodVotes(n, t)
<1> DEFINE s == node[n]
           M == msgs \cup ByzMessages
           p == BvbVote(s, m.src, m.round, m.value)
           a == AuxVote(s, m.src, m.round, m.value)
           t == ProcessBVB(s, n, m.src, m.round, m.value, coin)
           u == ProcessAUX(s, n, m.src, m.round, m.value, coin)
<1>1. /\ n \in Nodes /\ coin \in [Rounds -> Values]
      /\ LocalInv(n, s, input[n], coin) /\ s \in Instance
    BY NodeClasses DEF IInv, TypeOK, LocalInvs, LocalInv
<1>2. /\ m = Vote(m.type, m.src, m.round, m.value)
      /\ m.src \in Nodes /\ m.round \in Rounds /\ m.value \in Values
      /\ m.src # n /\ ShouldPost(s, m.round)
    BY MessageFacts DEF IInv, Receive
<1>3. NoAhead(s) /\ Origin(n, s, M)
    BY DEF VInv, NoVotesAhead, NoAhead, Origins
<1>4. NoAhead(t) /\ NoAhead(u)
    BY <1>1, <1>2, <1>3, MessageNoAhead
<1>5. CASE m.type = "BVB" /\ Handled(n, t)
    <2>1. Grows(n, p, t, input[n], coin)
        BY <1>1, <1>2, BVBInv
    <2>2. /\ p \in Instance
          /\ p.bvbVotes[m.round][m.value] = s.bvbVotes[m.round][m.value] \cup {m.src}
          /\ \A q \in Rounds, w \in Values :
                q # m.round \/ w # m.value => p.bvbVotes[q][w] = s.bvbVotes[q][w]
        <3>1. s \in Instance /\ m.src \in Nodes /\ m.round \in Rounds /\ m.value \in Values
            BY <1>1, <1>2
        <3> HIDE DEF s, t, a, u, M
        <3> QED
            BY <3>1, BvbVoteFields
    <2>3. Vote("BVB", m.src, m.round, m.value) \in M
        BY <1>2, <1>5
    <2> HIDE DEF p, t, M, s
    <2>4. Origin(n, p, M)
        <3> SUFFICES ASSUME NEW q \in Nodes, NEW r \in Rounds, NEW v \in Values,
                            q # n, q \in p.bvbVotes[r][v]
                     PROVE  Vote("BVB", q, r, v) \in M
            BY DEF Origin
        <3>1. CASE q \in s.bvbVotes[r][v]
            BY <1>3, <3>1 DEF Origin
        <3>2. CASE q \notin s.bvbVotes[r][v]
            <4>1. r = m.round /\ v = m.value /\ q = m.src
                BY <2>2, <3>2
            <4> QED
                BY <2>3, <4>1
        <3> QED
            BY <3>1, <3>2
    <2>5. Origin(n, t, M)
        BY <2>1, <2>2, <2>4, OriginStays DEF Grows, LocalInv
    <2> QED
        BY <1>4, <1>5, <2>5 DEF GoodVotes, M
<1>6. CASE m.type = "AUX" /\ Handled(n, u)
    <2>1. Grows(n, a, u, input[n], coin)
        BY <1>1, <1>2, AUXInv
    <2>2. a \in Instance /\ a.bvbVotes = s.bvbVotes
        BY <1>1, <1>2, AuxVoteFields
    <2> HIDE DEF a, u, M, s
    <2>3. Origin(n, a, M)
        BY <1>3, <2>2 DEF Origin
    <2>4. Origin(n, u, M)
        BY <2>1, <2>2, <2>3, OriginStays DEF Grows, LocalInv
    <2> QED
        BY <1>4, <1>6, <2>4 DEF GoodVotes, M
<1> QED
    BY <1>5, <1>6 DEF Receive

-----------------------------------------------------------------------------
(* Messages of round 0 are justified.                                      *)

\* The other nodes that have sent what m says.
Echoed(m, M) == {n \in Nodes \ {m.src} : [m EXCEPT !.src = n] \in M}

\* A justification by echoes stays one.
LEMMA EchoesStay ==
    ASSUME NEW m, NEW M, NEW K, M \subseteq K, IsThird(Cardinality(Echoed(m, M)))
    PROVE  IsThird(Cardinality(Echoed(m, K)))
<1>1. Echoed(m, K) \in SUBSET Nodes /\ Echoed(m, M) \in SUBSET Echoed(m, K)
    BY DEF Echoed
<1> QED
    BY <1>1, ThresholdsGrow

\* What an instance has broadcast in round 0 is justified by what it counts.
LEMMA SentJustified ==
    ASSUME NEW n \in Honest, NEW t, NEW i, NEW c, LocalInv(n, t, i, c), NEW M, Origin(n, t, M),
           NEW m \in Sent(n, t), m.type = "BVB", m.round = 0
    PROVE  m.value = i \/ IsThird(Cardinality(Echoed(m, M)))
<1>1. /\ m \in Messages /\ m.src = n /\ m.value \in t.broadcastValues[0]
      /\ t \in Instance /\ 0 \in Rounds /\ m.value \in Values
    BY BoundAssumption DEF Sent, Messages, LocalInv, Rounds
<1>2. BroadcastReason(n, t, i, c, 0, m.value)
    BY <1>1 DEF LocalInv, LocalBroadcast
<1>3. ~(t.decidedRound < 0)
    BY <1>1, BoundAssumption DEF Instance, Rounds
<1>4. m.value = i \/ IsThird(Cardinality(t.bvbVotes[0][m.value] \ {n}))
    BY <1>2, <1>3 DEF BroadcastReason
<1>5. t.bvbVotes[0][m.value] \ {n} \in SUBSET Echoed(m, M)
    <2> SUFFICES ASSUME NEW q \in t.bvbVotes[0][m.value] \ {n} PROVE q \in Echoed(m, M)
        OBVIOUS
    <2>1. q \in Nodes
        BY <1>1 DEF Instance
    <2>2. Vote("BVB", q, 0, m.value) \in M
        BY <1>1, <2>1 DEF Origin
    <2>3. [m EXCEPT !.src = q] = Vote("BVB", q, 0, m.value)
        BY <1>1 DEF Messages, Vote
    <2> QED
        BY <1>1, <2>1, <2>2, <2>3 DEF Echoed
<1>6. Echoed(m, M) \in SUBSET Nodes
    BY DEF Echoed
<1> QED
    BY <1>4, <1>5, <1>6, ThresholdsGrow

-----------------------------------------------------------------------------
(* The invariant is preserved.                                             *)

LEMMA HandledVotes ==
    ASSUME IInv, IInv', VInv, NEW n \in Honest, NEW t, GoodVotes(n, t)
    PROVE  VInv'
<1> DEFINE M == msgs \cup ByzMessages
           K == msgs' \cup ByzMessages
<1>0. /\ node' = [node EXCEPT ![n] = t] /\ msgs' = msgs \cup Sent(n, t)
      /\ input' = input /\ coin' = coin
    BY DEF GoodVotes, Handled
<1>n. node'[n] = t /\ \A p \in Honest : p # n => node'[p] = node[p]
    BY <1>0 DEF IInv, TypeOK
<1>m. M \subseteq K
    BY <1>0
<1>1. NoVotesAhead'
    BY <1>n DEF VInv, NoVotesAhead, GoodVotes, NoAhead
<1>2. Origins'
    <2>1. Origin(n, t, K)
        BY <1>m DEF GoodVotes, Origin
    <2>2. \A p \in Honest : p # n => Origin(p, node[p], K)
        BY <1>m DEF VInv, Origins, Origin
    <2> QED
        BY <1>n, <2>1, <2>2 DEF Origins
<1>3. BVJustification'
    <2> HIDE DEF M, K
    <2> SUFFICES ASSUME NEW m \in msgs', m.type = "BVB", m.round = 0
                 PROVE  m.value = input[m.src] \/ IsThird(Cardinality(Echoed(m, K)))
        BY <1>0 DEF BVJustification, Echoed, K
    <2>1. CASE m \in msgs
        <3>1. m.value = input[m.src] \/ IsThird(Cardinality(Echoed(m, M)))
            BY <2>1 DEF VInv, BVJustification, Echoed, M
        <3> QED
            BY <1>m, <3>1, EchoesStay
    <2>2. CASE m \in Sent(n, t)
        <3>1. LocalInv(n, t, input[n], coin)
            BY <1>0, <1>n DEF IInv, LocalInvs
        <3>2. Origin(n, t, K)
            BY <1>2, <1>n DEF Origins, K
        <3>3. m.src = n
            BY <2>2 DEF Sent
        <3> QED
            BY <2>2, <3>1, <3>2, <3>3, SentJustified
    <2> QED
        BY <1>0, <2>1, <2>2
<1> QED
    BY <1>1, <1>2, <1>3 DEF VInv

LEMMA RestartVotes ==
    ASSUME IInv, VInv, NEW n \in Honest, Restart(n)
    PROVE  VInv'
<1>0. /\ node' = [node EXCEPT ![n] = NewInstance]
      /\ input' = input /\ coin' = coin /\ msgs' = msgs
    BY DEF Restart
<1>n. node'[n] = NewInstance /\ \A p \in Honest : p # n => node'[p] = node[p]
    BY <1>0 DEF IInv, TypeOK
<1>1. /\ \A r \in Rounds, v \in Values :
            NewInstance.bvbVotes[r][v] = {} /\ NewInstance.auxVotes[r][v] = {}
    BY DEF NewInstance
<1>2. NoVotesAhead'
    BY <1>n, <1>1 DEF VInv, NoVotesAhead
<1>3. Origins'
    BY <1>0, <1>n, <1>1 DEF VInv, Origins, Origin
<1>4. BVJustification'
    BY <1>0 DEF VInv, BVJustification
<1> QED
    BY <1>2, <1>3, <1>4 DEF VInv

LEMMA InitVotes == Init => VInv
<1> SUFFICES ASSUME Init PROVE VInv
    OBVIOUS
<1>1. \A r \in Rounds, v \in Values :
        NewInstance.bvbVotes[r][v] = {} /\ NewInstance.auxVotes[r][v] = {}
    BY DEF NewInstance
<1> QED
    BY <1>1 DEF Init, VInv, NoVotesAhead, Origins, Origin, BVJustification

LEMMA NextVotes == IInv /\ IInv' /\ VInv /\ [Next]_vars => VInv'
<1> SUFFICES ASSUME IInv, IInv', VInv, [Next]_vars PROVE VInv'
    OBVIOUS
<1>1. CASE UNCHANGED vars
    BY <1>1 DEF vars, VInv, NoVotesAhead, Origins, BVJustification
<1>2. ASSUME NEW n \in Honest, Propose(n) PROVE VInv'
    BY <1>2, ProposeVotes, HandledVotes
<1>3. ASSUME NEW n \in Honest, NEW m \in msgs \cup ByzMessages, Receive(n, m) PROVE VInv'
    BY <1>3, ReceiveVotes, HandledVotes
<1>4. ASSUME NEW n \in Honest, Restart(n) PROVE VInv'
    BY <1>4, RestartVotes
<1> QED
    BY <1>1, <1>2, <1>3, <1>4 DEF Next

\* The votes that instances count and the messages of round 0 satisfy the
\* inductive invariant.
THEOREM VotesInvariance == Spec => []VInv
<1> QED BY InitVotes, NextVotes, Invariance, PTL DEF Spec

\* shouldPost and proceedWithNextRound: an undecided instance holds no vote of
\* a later round, for every number of nodes and rounds; the lottery of a new
\* round is never played at once.
THEOREM NoVotesAheadHolds == Spec => []NoVotesAhead
<1>1. VInv => NoVotesAhead
    BY DEF VInv
<1> QED BY <1>1, VotesInvariance, PTL

\* A BVB message of round 0 carries its sender's input or echoes more than N/3
\* other nodes, however often the sender is restarted.
THEOREM BVJustificationHolds == Spec => []BVJustification
<1>1. VInv => BVJustification
    BY DEF VInv
<1> QED BY <1>1, VotesInvariance, PTL


-----------------------------------------------------------------------------
(* What it takes to leave a round undecided.                               *)

\* The round of the lottery that decided, or of the one to come.
LotteryRound(s) == IF s.isDecided THEN s.decidedRound ELSE s.currentRound

\* An instance leaves a round undecided only with the value the coin did not
\* show in binValues.
Passed(s, c) == \A q \in Rounds : q < LotteryRound(s) => (1 - c[q]) \in s.binValues[q]

\* Instance t has the round and the decision of s, and its binValues.
Keeps(s, t) ==
    /\ t \in Instance
    /\ t.currentRound = s.currentRound
    /\ t.isDecided = s.isDecided
    /\ t.decidedRound = s.decidedRound
    /\ \A r \in Rounds : s.binValues[r] \subseteq t.binValues[r]

LEMMA KeepsPassed ==
    ASSUME NEW s, NEW t, NEW c, Keeps(s, t), Passed(s, c)
    PROVE  t \in Instance /\ Passed(t, c)
BY DEF Keeps, Passed, LotteryRound

LEMMA KeepsPreorder ==
    ASSUME NEW s \in Instance
    PROVE  /\ Keeps(s, s)
           /\ \A t : Keeps(s, t) => t \in Instance
           /\ \A t, u : Keeps(s, t) /\ Keeps(t, u) => Keeps(s, u)
<1>1. Keeps(s, s)
    BY DEF Keeps
<1>2. ASSUME NEW t, NEW u, Keeps(s, t), Keeps(t, u) PROVE Keeps(s, u)
    BY <1>2, Zenon DEF Keeps
<1> QED BY <1>1, <1>2 DEF Keeps

\* Votes, broadcasts and insertions.
LEMMA StepKeeps ==
    ASSUME NEW s \in Instance, NEW src \in Nodes, NEW r \in Rounds, NEW v \in Values
    PROVE  /\ Keeps(s, BvbVote(s, src, r, v))
           /\ Keeps(s, AuxVote(s, src, r, v))
           /\ Keeps(s, NetworkBroadcastValue(s, r, v))
           /\ Keeps(s, InsertIntoBinValues(s, src, r, v))
           /\ Keeps(s, [s EXCEPT !.started = TRUE])
<1>1. Keeps(s, BvbVote(s, src, r, v))
    BY BvbVoteFields DEF Keeps
<1>2. Keeps(s, AuxVote(s, src, r, v))
    BY AuxVoteFields DEF Keeps
<1>3. Keeps(s, NetworkBroadcastValue(s, r, v))
    <2> DEFINE b == [s.broadcastValues EXCEPT ![r] = @ \cup {v}]
               t == [s EXCEPT !.broadcastValues = b]
    <2>1. b \in [Rounds -> SUBSET Values] /\ NetworkBroadcastValue(s, r, v) = t
        BY DEF Instance, NetworkBroadcastValue
    <2> HIDE DEF b
    <2>2. Keeps(s, t)
        BY <2>1 DEF Instance, Keeps
    <2> QED BY <2>1, <2>2
<1>4. Keeps(s, InsertIntoBinValues(s, src, r, v))
    <2> DEFINE b == [s.binValues EXCEPT ![r] = @ \cup {v}]
               t == [s EXCEPT !.binValues = b]
    <2>1. b \in [Rounds -> SUBSET Values] /\ \A q \in Rounds : s.binValues[q] \subseteq b[q]
        BY DEF Instance
    <2>2. InsertIntoBinValues(s, src, r, v) \in {t, AuxVote(t, src, r, v)}
        BY DEF Instance, InsertIntoBinValues, AuxSelfVoteAndBroadcastValue
    <2> HIDE DEF b
    <2>3. Keeps(s, t)
        BY <2>1 DEF Instance, Keeps
    <2> HIDE DEF t
    <2>4. Keeps(t, AuxVote(t, src, r, v))
        BY <2>3, AuxVoteFields DEF Keeps
    <2> QED BY <2>2, <2>3, <2>4, KeepsPreorder
<1>5. Keeps(s, [s EXCEPT !.started = TRUE])
    BY DEF Instance, Keeps
<1> QED BY <1>1, <1>2, <1>3, <1>4, <1>5

\* proceedWithNextRound leaves a decision alone and moves one round at most.
LEMMA NextRoundKeeps ==
    ASSUME NEW s \in Instance, NEW n \in Nodes, NEW v \in Values
    PROVE  LET t == ProceedWithNextRound(s, n, v)
           IN  /\ t \in Instance
               /\ t.currentRound \in {s.currentRound, s.currentRound + 1}
               /\ t.isDecided = s.isDecided
               /\ t.decidedRound = s.decidedRound
               /\ \A r \in Rounds : s.binValues[r] \subseteq t.binValues[r]
<1> DEFINE r == s.currentRound + 1
           p == [s EXCEPT !.currentRound = r]
           t == NetworkBroadcastValue(p, r, v)
           u == BvbVote(t, n, r, v)
           w == InsertIntoBinValues(u, n, r, v)
<1>1. CASE s.currentRound = MaxRound \/ ~IsTwoThird(TotalAUXVotes(s, s.currentRound))
    BY <1>1 DEF ProceedWithNextRound
<1>2. CASE ~(s.currentRound = MaxRound \/ ~IsTwoThird(TotalAUXVotes(s, s.currentRound)))
    <2>1. r \in Rounds
        BY <1>2, BoundAssumption DEF Instance, Rounds
    <2>2. /\ p \in Instance /\ p.currentRound = r /\ p.isDecided = s.isDecided
          /\ p.decidedRound = s.decidedRound /\ p.binValues = s.binValues
        BY <2>1 DEF Instance
    <2>3. ProceedWithNextRound(s, n, v) \in {u, w}
        BY <1>2 DEF ProceedWithNextRound
    <2> HIDE DEF r, p
    <2>4. Keeps(p, t)
        BY <2>1, <2>2, StepKeeps
    <2> HIDE DEF t
    <2>5. Keeps(t, u)
        BY <2>1, <2>2, <2>4, StepKeeps, KeepsPreorder
    <2> HIDE DEF u
    <2>6. Keeps(u, w)
        <3>1. t \in Instance /\ u \in Instance
            BY <2>2, <2>4, <2>5, KeepsPreorder
        <3> QED BY <2>1, <3>1, StepKeeps
    <2> HIDE DEF w
    <2>7. Keeps(p, u) /\ Keeps(p, w)
        BY <2>2, <2>4, <2>5, <2>6, KeepsPreorder
    <2> QED
        BY <2>2, <2>3, <2>7 DEF Keeps, r
<1> QED
    BY <1>1, <1>2

\* The lottery.
LEMMA LotteryPassed ==
    ASSUME NEW s \in Instance, NEW n \in Nodes, NEW c \in [Rounds -> Values], Passed(s, c)
    PROVE  LET t == ProceedWithDecisionLotteryIfAUXTwoThird(s, n, c)
           IN  t \in Instance /\ Passed(t, c)
<1> DEFINE r == s.currentRound
           values == Counted(s, r)
           v == IF 1 \in values THEN 1 ELSE 0
           t == ProceedWithDecisionLotteryIfAUXTwoThird(s, n, c)
<1>1. r \in Rounds /\ r \in Nat /\ c[r] \in Values /\ v \in Values
    BY BoundAssumption DEF Instance, Values, Rounds
<1>2. CASE t = s
    BY <1>2
<1>3. CASE t # s
    <2>1. ~s.isDecided /\ IsTwoThird(CountedVotes(s, r)) /\ t = PlayDecisionLottery(s, n, c[r])
        BY <1>3 DEF ProceedWithDecisionLotteryIfAUXTwoThird
    <2>2. t = IF values = Values THEN ProceedWithNextRound(s, n, c[r])
              ELSE IF v = c[r] THEN Decide(s, v)
              ELSE ProceedWithNextRound(s, n, v)
        BY <2>1 DEF PlayDecisionLottery
    <2>3. ASSUME NEW w \in Values, (1 - c[r]) \in s.binValues[r]
          PROVE  ProceedWithNextRound(s, n, w) \in Instance
                 /\ Passed(ProceedWithNextRound(s, n, w), c)
        <3> DEFINE u == ProceedWithNextRound(s, n, w)
        <3>1. /\ u \in Instance
              /\ u.currentRound \in {s.currentRound, s.currentRound + 1}
              /\ u.isDecided = s.isDecided
              /\ \A q \in Rounds : s.binValues[q] \subseteq u.binValues[q]
            BY NextRoundKeeps
        <3> HIDE DEF u
        <3>2. ASSUME NEW q \in Rounds, q < u.currentRound
              PROVE  (1 - c[q]) \in u.binValues[q]
            <4>1. q < r \/ q = r
                BY <1>1, <3>1, <3>2 DEF Rounds
            <4> QED
                BY <2>1, <2>3, <3>1, <4>1 DEF Passed, LotteryRound
        <3> QED
            BY <2>1, <3>1, <3>2 DEF Passed, LotteryRound, u
    <2>4. CASE values = Values
        <3>1. (1 - c[r]) \in s.binValues[r]
            BY <1>1, <2>4 DEF Counted, Values
        <3> QED
            BY <1>1, <2>2, <2>3, <2>4, <3>1
    <2>5. CASE values # Values /\ v = c[r]
        <3>1. t = Decide(s, v)
            BY <2>2, <2>5
        <3>2. /\ t \in Instance /\ t.isDecided /\ t.decidedRound = r
              /\ t.binValues = s.binValues
            BY <1>1, <3>1 DEF Decide, Instance
        <3> QED
            BY <2>1, <3>2 DEF Passed, LotteryRound
    <2>6. CASE values # Values /\ v # c[r]
        <3>1. v \in s.binValues[r]
            BY <1>1, <2>1, <2>6, LotteryQuorum
        <3>2. v = 1 - c[r]
            BY <1>1, <2>6 DEF Values
        <3>3. t = ProceedWithNextRound(s, n, v)
            BY <2>2, <2>6
        <3> HIDE DEF v, t
        <3>4. t \in Instance /\ Passed(t, c)
            BY <1>1, <2>3, <3>1, <3>2, <3>3
        <3> QED
            BY <3>4 DEF t
    <2> QED
        BY <2>4, <2>5, <2>6
<1> QED
    BY <1>2, <1>3

LEMMA AddToBinPassed ==
    ASSUME NEW s \in Instance, NEW n \in Nodes, NEW c \in [Rounds -> Values], Passed(s, c),
           NEW r \in Rounds, NEW v \in Values
    PROVE  Passed(AddToBinValuesIfTwoThirds(s, n, r, v, c), c)
<1> DEFINE t == InsertIntoBinValues(s, n, r, v)
<1>1. t \in Instance /\ Passed(t, c)
    BY StepKeeps, KeepsPassed
<1>2. Passed(ProceedWithDecisionLotteryIfAUXTwoThird(t, n, c), c)
    BY <1>1, LotteryPassed
<1> QED
    BY <1>1, <1>2 DEF AddToBinValuesIfTwoThirds

\* The handlers.
LEMMA ProposalPassed ==
    ASSUME NEW s \in Instance, NEW n \in Nodes, NEW c \in [Rounds -> Values], Passed(s, c),
           NEW v \in Values
    PROVE  Passed(ProcessParentProposal(s, n, v, c), c)
<1> DEFINE p == [s EXCEPT !.started = TRUE]
           t == NetworkBroadcastValue(p, 0, v)
           u == BvbVote(t, n, 0, v)
<1>0. 0 \in Rounds
    BY BoundAssumption DEF Rounds
<1>1. ProcessParentProposal(s, n, v, c) = AddToBinValuesIfTwoThirds(u, n, 0, v, c)
    BY DEF ProcessParentProposal
<1>2. p \in Instance /\ Passed(p, c)
    BY <1>0, StepKeeps, KeepsPassed
<1> HIDE DEF p
<1>3. t \in Instance /\ Passed(t, c)
    BY <1>0, <1>2, StepKeeps, KeepsPassed
<1> HIDE DEF t
<1>4. u \in Instance /\ Passed(u, c)
    BY <1>0, <1>3, StepKeeps, KeepsPassed
<1> HIDE DEF u
<1> QED
    BY <1>0, <1>1, <1>4, AddToBinPassed

LEMMA BVBPassed ==
    ASSUME NEW s \in Instance, NEW n \in Nodes, NEW c \in [Rounds -> Values], Passed(s, c),
           NEW src \in Nodes, NEW r \in Rounds, NEW v \in Values
    PROVE  Passed(ProcessBVB(s, n, src, r, v, c), c)
<1> DEFINE p == BvbVote(s, src, r, v)
           t == NetworkBroadcastValueIfThird(p, r, v)
           w == ProceedWithNextRound(t, n, t.decidedValue)
           u == IfAlreadyDecidedSendDelayedEstimateForNextRound(t, n, r)
<1>1. ProcessBVB(s, n, src, r, v, c) = AddToBinValuesIfTwoThirds(u, n, r, v, c)
    BY DEF ProcessBVB
<1>2. p \in Instance /\ Passed(p, c)
    BY StepKeeps, KeepsPassed
<1>3. t \in {p, NetworkBroadcastValue(p, r, v)}
    BY DEF NetworkBroadcastValueIfThird
<1> HIDE DEF p
<1>4. t \in Instance /\ Passed(t, c)
    BY <1>2, <1>3, StepKeeps, KeepsPassed
<1> HIDE DEF t
<1>5. u = t \/ (t.isDecided /\ u = w)
    BY DEF IfAlreadyDecidedSendDelayedEstimateForNextRound
<1>6. ASSUME t.isDecided PROVE w \in Instance /\ Passed(w, c)
    <2>1. t.decidedValue \in Values
        BY <1>4 DEF Instance
    <2>2. /\ w \in Instance /\ w.isDecided /\ w.decidedRound = t.decidedRound
          /\ \A q \in Rounds : t.binValues[q] \subseteq w.binValues[q]
        BY <1>4, <1>6, <2>1, NextRoundKeeps
    <2> HIDE DEF w
    <2> QED
        BY <1>4, <1>6, <2>2 DEF Passed, LotteryRound
<1> HIDE DEF w
<1>7. u \in Instance /\ Passed(u, c)
    BY <1>4, <1>5, <1>6
<1> HIDE DEF u
<1> QED
    BY <1>1, <1>7, AddToBinPassed

LEMMA AUXPassed ==
    ASSUME NEW s \in Instance, NEW n \in Nodes, NEW c \in [Rounds -> Values], Passed(s, c),
           NEW src \in Nodes, NEW r \in Rounds, NEW v \in Values
    PROVE  Passed(ProcessAUX(s, n, src, r, v, c), c)
<1>1. AuxVote(s, src, r, v) \in Instance /\ Passed(AuxVote(s, src, r, v), c)
    BY StepKeeps, KeepsPassed
<1> QED
    BY <1>1, LotteryPassed DEF ProcessAUX

-----------------------------------------------------------------------------
\* In every instance.
AllPassed == \A n \in Honest : Passed(node[n], coin)

LEMMA FreshPassed ==
    ASSUME NEW c PROVE Passed(NewInstance, c)
BY BoundAssumption DEF Passed, LotteryRound, NewInstance, Rounds

LEMMA HandledPassed ==
    ASSUME IInv, AllPassed, NEW n \in Honest, NEW t, Passed(t, coin), Handled(n, t)
    PROVE  AllPassed'
BY DEF IInv, TypeOK, AllPassed, Handled

LEMMA NextPassed ==
    ASSUME IInv, AllPassed, [Next]_vars
    PROVE  AllPassed'
<1>0. coin \in [Rounds -> Values] /\ \A n \in Honest :
        n \in Nodes /\ node[n] \in Instance /\ Passed(node[n], coin) /\ input[n] \in Values
    BY NodeClasses DEF IInv, TypeOK, AllPassed
<1>1. CASE UNCHANGED vars
    BY <1>1 DEF vars, AllPassed
<1>2. ASSUME NEW n \in Honest, Propose(n) PROVE AllPassed'
    BY <1>0, <1>2, ProposalPassed, HandledPassed DEF Propose
<1>3. ASSUME NEW n \in Honest, NEW m \in msgs \cup ByzMessages, Receive(n, m) PROVE AllPassed'
    <2>1. m.src \in Nodes /\ m.round \in Rounds /\ m.value \in Values
        BY MessageFacts DEF IInv
    <2> QED
        BY <1>0, <1>3, <2>1, BVBPassed, AUXPassed, HandledPassed DEF Receive
<1>4. ASSUME NEW n \in Honest, Restart(n) PROVE AllPassed'
    BY <1>0, <1>4, FreshPassed DEF Restart, AllPassed, IInv, TypeOK
<1> QED
    BY <1>1, <1>2, <1>3, <1>4 DEF Next

LEMMA InitPassed == Init => AllPassed
BY FreshPassed DEF Init, AllPassed

\* Node d has decided and the coin of a later round q shows its decision: no
\* node is undecided after round q, or has decided later than in q.
LuckyRound ==
    \A d, n \in Honest, q \in Rounds :
        /\ node[d].isDecided
        /\ q > node[d].decidedRound
        /\ coin[q] = node[d].decidedValue
        => LotteryRound(node[n]) <= q

LEMMA LuckyRoundInv == IInv /\ AllPassed => LuckyRound
<1> SUFFICES ASSUME IInv, AllPassed, NEW d \in Honest, NEW n \in Honest, NEW q \in Rounds,
                    node[d].isDecided, q > node[d].decidedRound,
                    coin[q] = node[d].decidedValue, ~(LotteryRound(node[n]) <= q)
             PROVE  FALSE
    BY DEF LuckyRound
<1> DEFINE w == 1 - coin[q]
<1>1. /\ n \in Nodes /\ node[n] \in Instance /\ node[d] \in Instance
      /\ coin[q] \in Values
      /\ LocalInv(n, node[n], input[n], coin) /\ HeardBy(n, node[n], msgs)
    BY NodeClasses DEF IInv, TypeOK, LocalInvs, Heard
<1>2. q < LotteryRound(node[n])
    BY <1>1, BoundAssumption DEF LotteryRound, Instance, Rounds
<1>3. w \in node[n].binValues[q]
    BY <1>2 DEF AllPassed, Passed
<1>4. PICK x \in Stable : Vote("BVB", x, q, w) \in msgs
    BY <1>1, <1>3, BinHasBVB DEF StableBVB
<1>5. w = node[d].decidedValue
    BY <1>4, DecisionLocksInv DEF DecisionLocks, Vote
<1> QED
    BY <1>1, <1>5 DEF Values

\* playDecisionLottery: after the first decision the protocol is over for every
\* honest node by the first round whose coin shows the decided value.
THEOREM LuckyRoundDecides == Spec => []LuckyRound
<1>1. IInv /\ AllPassed /\ [Next]_vars => AllPassed'
    BY NextPassed
<1> QED
    BY <1>1, InitPassed, LuckyRoundInv, Invariance, PTL DEF Spec


-----------------------------------------------------------------------------
(* A consensus of the fewest nodes that make a quorum ends only if they    *)
(* all propose the same value.  f is the input.                            *)

\* The honest nodes are the fewest that make a quorum, and the others are down.
FewestAlive == ByzMessages = {} /\ ~IsTwoThird(Cardinality(Honest) - 1)

MixedInputs == \E m, n \in Honest : input[m] # input[n]

\* Nobody has got through round 0.
InRoundZero == \A n \in Honest : node[n].currentRound = 0 /\ ~node[n].isDecided

Backers(f, v) == {m \in Honest : f[m] = v}

\* Instance s of n: the node counts itself only for its input, so that no
\* other value gets into binValues, and counts AUX votes only of its backers.
Stuck(n, s, f) ==
    /\ s \in Instance
    /\ s.currentRound = 0 /\ ~s.isDecided
    /\ \A v \in Values : s.bvbVotes[0][v] \subseteq Honest
    /\ \A v \in Values : n \in s.bvbVotes[0][v] => v = f[n]
    /\ s.binValues[0] \subseteq {f[n]}
    /\ \A v \in Values : s.auxVotes[0][v] \subseteq Backers(f, v)

\* Without one honest node there is no quorum.
LEMMA NoQuorum ==
    ASSUME FewestAlive, NEW x \in Honest, NEW S \in SUBSET (Honest \ {x})
    PROVE  ~IsTwoThird(Cardinality(S))
<1>1. Honest \in SUBSET Nodes /\ Honest \ {x} \in SUBSET Nodes
    BY DEF Honest
<1>2. IsFiniteSet(Honest) /\ Cardinality(Honest) \in Nat /\ N \in Nat
    BY <1>1, NodeSets DEF N
<1>3. Cardinality(Honest \ {x}) = Cardinality(Honest) - 1
    BY <1>2, FS_RemoveElement
<1>4. /\ Cardinality(S) \in Nat /\ Cardinality(Honest \ {x}) \in Nat
      /\ Cardinality(S) <= Cardinality(Honest \ {x})
    BY <1>1, NodeSets
<1> QED
    BY <1>2, <1>3, <1>4 DEF FewestAlive, IsTwoThird

\* A new instance is stuck.
LEMMA FreshStuck ==
    ASSUME NEW n, NEW f PROVE Stuck(n, NewInstance, f)
<1>1. 0 \in Rounds
    BY BoundAssumption DEF Rounds
<1>2. NewInstance \in Instance
    BY <1>1 DEF NewInstance, Instance, Values
<1> QED
    BY <1>1, <1>2 DEF Stuck, NewInstance, Values

\* The lottery is not played.
LEMMA StuckLottery ==
    ASSUME FewestAlive, NEW n \in Honest, NEW s, NEW c, NEW f \in [Honest -> Values],
           Stuck(n, s, f), \E m, k \in Honest : f[m] # f[k]
    PROVE  ProceedWithDecisionLotteryIfAUXTwoThird(s, n, c) = s
<1>1. 0 \in Rounds /\ 0 \in Values /\ 1 \in Values /\ f[n] \in Values
    BY BoundAssumption DEF Rounds, Values
<1>2. \A v \in Values : \E x \in Honest : x \notin Backers(f, v)
    BY DEF Backers
<1>3. \A v \in Values : ~IsTwoThird(Cardinality(s.auxVotes[0][v]))
    <2> TAKE v \in Values
    <2>1. PICK x \in Honest : x \notin Backers(f, v)
        BY <1>2
    <2>2. s.auxVotes[0][v] \in SUBSET (Honest \ {x})
        BY <2>1 DEF Stuck, Backers
    <2> QED
        BY <2>2, NoQuorum
<1>4. Counted(s, 0) \subseteq {f[n]}
    BY DEF Stuck, Counted
<1>5. Counted(s, 0) # Values
    BY <1>1, <1>4 DEF Values
<1>6. ~IsTwoThird(CountedVotes(s, 0))
    <2> SUFFICES ASSUME IsTwoThird(CountedVotes(s, 0)) PROVE FALSE
        OBVIOUS
    <2> DEFINE v == IF 1 \in Counted(s, 0) THEN 1 ELSE 0
    <2>1. s \in Instance /\ v \in Values
        BY <1>1 DEF Stuck
    <2>2. IsTwoThird(Cardinality(s.auxVotes[0][v]))
        BY <1>1, <1>5, <2>1, LotteryQuorum
    <2> QED
        BY <1>3, <2>1, <2>2
<1> QED
    BY <1>6 DEF Stuck, ProceedWithDecisionLotteryIfAUXTwoThird

\* addToBinValuesIfTwoThirds inserts the node's own input or nothing.
LEMMA StuckAdd ==
    ASSUME FewestAlive, NEW n \in Honest, NEW s, NEW c, NEW f \in [Honest -> Values],
           Stuck(n, s, f), \E m, k \in Honest : f[m] # f[k], NEW v \in Values
    PROVE  Stuck(n, AddToBinValuesIfTwoThirds(s, n, 0, v, c), f)
<1> DEFINE p == [s EXCEPT !.binValues[0] = @ \cup {v}]
           b == [s.binValues EXCEPT ![0] = @ \cup {v}]
           t == InsertIntoBinValues(s, n, 0, v)
           a == AuxVote(p, n, 0, v)
<1>0. 0 \in Rounds /\ n \in Nodes /\ s \in Instance /\ s.currentRound = 0
    BY BoundAssumption, NodeClasses DEF Rounds, Stuck
<1>1. CASE ~CanInsertIntoBinValues(s, 0, v)
    BY <1>1 DEF AddToBinValuesIfTwoThirds
<1>2. CASE CanInsertIntoBinValues(s, 0, v)
    <2>1. v = f[n]
        <3> SUFFICES ASSUME v # f[n] PROVE FALSE
            OBVIOUS
        <3>1. s.bvbVotes[0][v] \in SUBSET (Honest \ {n})
            BY DEF Stuck
        <3>2. ~IsTwoThird(Cardinality(s.bvbVotes[0][v]))
            BY <3>1, NoQuorum
        <3> QED
            BY <1>2, <3>2 DEF CanInsertIntoBinValues
    <2>2. b \in [Rounds -> SUBSET Values] /\ p = [s EXCEPT !.binValues = b]
          /\ b[0] = s.binValues[0] \cup {v}
        BY <1>0 DEF Instance
    <2>3. t = IF s.binValues[0] = {} THEN a ELSE p
        BY DEF InsertIntoBinValues, AuxSelfVoteAndBroadcastValue
    <2>4. AddToBinValuesIfTwoThirds(s, n, 0, v, c) =
            ProceedWithDecisionLotteryIfAUXTwoThird(t, n, c)
        BY <1>0, <1>2 DEF AddToBinValuesIfTwoThirds
    <2> HIDE DEF b, p, t
    <2>5. /\ p \in Instance /\ p.currentRound = s.currentRound /\ p.isDecided = s.isDecided
          /\ p.bvbVotes = s.bvbVotes /\ p.auxVotes = s.auxVotes /\ p.binValues = b
        BY <1>0, <2>2 DEF Instance
    <2>6. Stuck(n, p, f)
        BY <2>1, <2>2, <2>5 DEF Stuck
    <2>7. /\ a \in Instance /\ a.currentRound = p.currentRound /\ a.isDecided = p.isDecided
          /\ a.bvbVotes = p.bvbVotes /\ a.binValues = p.binValues
          /\ a.auxVotes[0][v] = p.auxVotes[0][v] \cup {n}
          /\ \A w \in Values : w # v => a.auxVotes[0][w] = p.auxVotes[0][w]
        BY <1>0, <2>5, AuxVoteFields
    <2> HIDE DEF a
    <2>8. Stuck(n, a, f)
        BY <2>1, <2>6, <2>7 DEF Stuck, Backers
    <2>9. Stuck(n, t, f)
        BY <2>3, <2>6, <2>8
    <2> QED
        BY <2>4, <2>9, StuckLottery
<1> QED
    BY <1>1, <1>2

\* A broadcast, or a vote of another honest node or of n for its input, keeps
\* the instance stuck.
LEMMA StuckBroadcast ==
    ASSUME NEW n \in Honest, NEW s, NEW f, Stuck(n, s, f), NEW v \in Values
    PROVE  Stuck(n, NetworkBroadcastValue(s, 0, v), f)
<1> DEFINE t == NetworkBroadcastValue(s, 0, v)
           b == [s.broadcastValues EXCEPT ![0] = @ \cup {v}]
<1>0. 0 \in Rounds /\ s \in Instance
    BY BoundAssumption DEF Rounds, Stuck
<1>1. b \in [Rounds -> SUBSET Values] /\ t = [s EXCEPT !.broadcastValues = b]
    BY <1>0 DEF Instance, NetworkBroadcastValue
<1> HIDE DEF b, t
<1>2. /\ t \in Instance /\ t.currentRound = s.currentRound /\ t.isDecided = s.isDecided
      /\ t.bvbVotes = s.bvbVotes /\ t.auxVotes = s.auxVotes /\ t.binValues = s.binValues
    BY <1>0, <1>1 DEF Instance
<1> QED
    BY <1>2 DEF Stuck, t

LEMMA StuckVote ==
    ASSUME NEW n \in Honest, NEW s, NEW f, Stuck(n, s, f), NEW src \in Honest,
           NEW v \in Values, src = n => v = f[n]
    PROVE  Stuck(n, BvbVote(s, src, 0, v), f)
<1> DEFINE t == BvbVote(s, src, 0, v)
<1>0. 0 \in Rounds /\ src \in Nodes /\ s \in Instance
    BY BoundAssumption, NodeClasses DEF Rounds, Stuck
<1>1. /\ t \in Instance /\ t.currentRound = s.currentRound /\ t.isDecided = s.isDecided
      /\ t.auxVotes = s.auxVotes /\ t.binValues = s.binValues
      /\ t.bvbVotes[0][v] = s.bvbVotes[0][v] \cup {src}
      /\ \A w \in Values : w # v => t.bvbVotes[0][w] = s.bvbVotes[0][w]
    BY <1>0, BvbVoteFields
<1> HIDE DEF t
<1> QED
    BY <1>1 DEF Stuck, t

\* processParentProposal.
LEMMA StuckProposal ==
    ASSUME FewestAlive, NEW n \in Honest, NEW s, NEW c, NEW f \in [Honest -> Values],
           Stuck(n, s, f), \E m, k \in Honest : f[m] # f[k]
    PROVE  Stuck(n, ProcessParentProposal(s, n, f[n], c), f)
<1> DEFINE v == f[n]
           p == [s EXCEPT !.started = TRUE]
           t == NetworkBroadcastValue(p, 0, v)
           u == BvbVote(t, n, 0, v)
<1>0. 0 \in Rounds /\ n \in Nodes /\ s \in Instance /\ v \in Values
    BY BoundAssumption, NodeClasses DEF Rounds, Stuck
<1>1. /\ p \in Instance /\ p.currentRound = s.currentRound /\ p.isDecided = s.isDecided
      /\ p.bvbVotes = s.bvbVotes /\ p.auxVotes = s.auxVotes /\ p.binValues = s.binValues
    BY <1>0 DEF Instance
<1>2. ProcessParentProposal(s, n, v, c) = AddToBinValuesIfTwoThirds(u, n, 0, v, c)
    BY DEF ProcessParentProposal
<1> HIDE DEF p, v
<1>3. Stuck(n, p, f)
    BY <1>1 DEF Stuck
<1>4. Stuck(n, t, f)
    BY <1>0, <1>3, StuckBroadcast
<1> HIDE DEF t
<1>5. Stuck(n, u, f)
    BY <1>0, <1>4, StuckVote DEF v
<1> HIDE DEF u
<1> QED
    BY <1>0, <1>2, <1>5, StuckAdd DEF v

\* processNetworkMessageImpl with a BVB message of another node.
LEMMA StuckBVB ==
    ASSUME FewestAlive, NEW n \in Honest, NEW s, NEW c, NEW f \in [Honest -> Values],
           Stuck(n, s, f), \E m, k \in Honest : f[m] # f[k],
           NEW src \in Honest, src # n, NEW v \in Values
    PROVE  Stuck(n, ProcessBVB(s, n, src, 0, v, c), f)
<1> DEFINE t == BvbVote(s, src, 0, v)
           u == NetworkBroadcastValueIfThird(t, 0, v)
<1>1. Stuck(n, t, f)
    BY StuckVote
<1>2. u = NetworkBroadcastValue(t, 0, v) \/ u = t
    BY DEF NetworkBroadcastValueIfThird
<1> HIDE DEF t
<1>3. Stuck(n, u, f)
    BY <1>1, <1>2, StuckBroadcast
<1>4. ProcessBVB(s, n, src, 0, v, c) =
        AddToBinValuesIfTwoThirds(
            IfAlreadyDecidedSendDelayedEstimateForNextRound(u, n, 0), n, 0, v, c)
    BY DEF ProcessBVB, t
<1> HIDE DEF u
<1>5. IfAlreadyDecidedSendDelayedEstimateForNextRound(u, n, 0) = u
    BY <1>3 DEF IfAlreadyDecidedSendDelayedEstimateForNextRound, Stuck
<1> QED
    BY <1>3, <1>4, <1>5, StuckAdd

\* ... and with an AUX message for the input of its source.
LEMMA StuckAUX ==
    ASSUME FewestAlive, NEW n \in Honest, NEW s, NEW c, NEW f \in [Honest -> Values],
           Stuck(n, s, f), \E m, k \in Honest : f[m] # f[k],
           NEW src \in Honest
    PROVE  Stuck(n, ProcessAUX(s, n, src, 0, f[src], c), f)
<1> DEFINE v == f[src]
           t == AuxVote(s, src, 0, v)
<1>0. 0 \in Rounds /\ src \in Nodes /\ s \in Instance /\ v \in Values
    BY BoundAssumption, NodeClasses DEF Rounds, Stuck
<1>1. /\ t \in Instance /\ t.currentRound = s.currentRound /\ t.isDecided = s.isDecided
      /\ t.bvbVotes = s.bvbVotes /\ t.binValues = s.binValues
      /\ t.auxVotes[0][v] = s.auxVotes[0][v] \cup {src}
      /\ \A w \in Values : w # v => t.auxVotes[0][w] = s.auxVotes[0][w]
    BY <1>0, AuxVoteFields
<1>2. ProcessAUX(s, n, src, 0, v, c) \in {t, ProceedWithDecisionLotteryIfAUXTwoThird(t, n, c)}
    BY DEF ProcessAUX
<1> HIDE DEF t
<1>3. Stuck(n, t, f)
    BY <1>1 DEF Stuck, Backers
<1> QED
    BY <1>2, <1>3, StuckLottery

-----------------------------------------------------------------------------
(* The stalled states are closed under every step.                         *)

\* Every instance is stuck, and an AUX message of round 0 carries the input of
\* its source, also when the source has forgotten it.
Stalled ==
    /\ \A n \in Honest : Stuck(n, node[n], input)
    /\ \A m \in msgs : m.type = "AUX" /\ m.round = 0 => m.value = input[m.src]

LEMMA StalledHandled ==
    ASSUME IInv, Stalled, NEW n \in Honest, NEW t, Stuck(n, t, input), Handled(n, t)
    PROVE  Stalled'
<1>1. /\ node' = [node EXCEPT ![n] = t] /\ msgs' = msgs \cup Sent(n, t) /\ input' = input
    BY DEF Handled
<1>2. node'[n] = t /\ \A p \in Honest : p # n => node'[p] = node[p]
    BY <1>1 DEF IInv, TypeOK
<1>3. \A p \in Honest : Stuck(p, node'[p], input')
    BY <1>1, <1>2 DEF Stalled
<1>4. ASSUME NEW m \in Sent(n, t), m.type = "AUX", m.round = 0
      PROVE  m.value = input[m.src]
    <2>1. m.src = n /\ m.value \in Values /\ n \in t.auxVotes[0][m.value]
        BY <1>4 DEF Sent, Messages
    <2> QED
        BY <2>1 DEF Stuck, Backers
<1> QED
    BY <1>1, <1>3, <1>4 DEF Stalled

LEMMA StalledRestart ==
    ASSUME IInv, Stalled, NEW n \in Honest, Restart(n)
    PROVE  Stalled'
<1>0. 0 \in Rounds
    BY BoundAssumption DEF Rounds
<1>1. /\ node' = [node EXCEPT ![n] = NewInstance] /\ msgs' = msgs /\ input' = input
    BY DEF Restart
<1>2. node'[n] = NewInstance /\ \A p \in Honest : p # n => node'[p] = node[p]
    BY <1>1 DEF IInv, TypeOK
<1>3. Stuck(n, NewInstance, input)
    BY FreshStuck
<1> QED
    BY <1>1, <1>2, <1>3 DEF Stalled

LEMMA StalledNext ==
    ASSUME FewestAlive, IInv, Stalled, MixedInputs, [Next]_vars
    PROVE  Stalled'
<1>0. /\ input \in [Honest -> Values] /\ \E m, k \in Honest : input[m] # input[k]
      /\ 0 \in Rounds
    BY BoundAssumption DEF IInv, TypeOK, MixedInputs, Rounds
<1>1. CASE UNCHANGED vars
    BY <1>1 DEF vars, Stalled
<1>2. ASSUME NEW n \in Honest, Propose(n) PROVE Stalled'
    <2>1. Stuck(n, node[n], input)
        BY DEF Stalled
    <2>2. Stuck(n, ProcessParentProposal(node[n], n, input[n], coin), input)
        BY <1>0, <2>1, StuckProposal
    <2> QED
        BY <1>2, <2>2, StalledHandled DEF Propose
<1>3. ASSUME NEW n \in Honest, NEW m \in msgs \cup ByzMessages, Receive(n, m) PROVE Stalled'
    <2>1. Stuck(n, node[n], input)
        BY DEF Stalled
    <2>2. m \in msgs /\ m.src \in Honest /\ m.value \in Values /\ m.round \in Rounds
        BY DEF FewestAlive, IInv, TypeOK, Messages
    <2>3. m.src # n /\ m.round = 0
        BY <1>3, <2>1, <2>2, BoundAssumption DEF Receive, ShouldPost, Stuck, Rounds
    <2>4. CASE m.type = "BVB"
        <3>1. Handled(n, ProcessBVB(node[n], n, m.src, 0, m.value, coin))
            BY <1>3, <2>3, <2>4 DEF Receive
        <3>2. Stuck(n, ProcessBVB(node[n], n, m.src, 0, m.value, coin), input)
            BY <1>0, <2>1, <2>2, <2>3, StuckBVB
        <3> QED
            BY <3>1, <3>2, StalledHandled
    <2>5. CASE m.type = "AUX"
        <3>1. m.value = input[m.src]
            BY <2>2, <2>3, <2>5 DEF Stalled
        <3>2. Handled(n, ProcessAUX(node[n], n, m.src, 0, input[m.src], coin))
            BY <1>3, <2>3, <2>5, <3>1 DEF Receive
        <3>3. Stuck(n, ProcessAUX(node[n], n, m.src, 0, input[m.src], coin), input)
            BY <1>0, <2>1, <2>2, StuckAUX
        <3> QED
            BY <3>2, <3>3, StalledHandled
    <2> QED
        BY <1>3, <2>4, <2>5 DEF Receive
<1>4. ASSUME NEW n \in Honest, Restart(n) PROVE Stalled'
    BY <1>4, StalledRestart
<1> QED
    BY <1>1, <1>2, <1>3, <1>4 DEF Next

LEMMA StalledInit == Init => Stalled
<1> SUFFICES ASSUME Init PROVE Stalled
    OBVIOUS
<1>1. \A n \in Honest : Stuck(n, NewInstance, input)
    BY FreshStuck
<1> QED
    BY <1>1 DEF Init, Stalled

LEMMA InputStays == [Next]_vars /\ ~MixedInputs => ~MixedInputs'
<1> QED
    BY DEF Next, vars, Propose, Receive, Restart, Handled, MixedInputs

\* networkBroadcastValue does not count the node's own echo: when exactly the
\* fewest nodes that make a quorum are running and they do not all propose the
\* same value, no node ever ends round 0, whatever is delivered and in which
\* order, and whoever is restarted.
THEOREM SmallestQuorumStalls ==
    ASSUME FewestAlive
    PROVE  Spec => [](MixedInputs => InRoundZero)
<1>1. Init => (MixedInputs => Stalled)
    BY StalledInit
<1>2. IInv /\ (MixedInputs => Stalled) /\ [Next]_vars => (MixedInputs => Stalled)'
    BY StalledNext, InputStays
<1>3. Stalled => InRoundZero
    BY DEF Stalled, Stuck, InRoundZero
<1> QED
    BY <1>1, <1>2, <1>3, Invariance, PTL DEF Spec
=============================================================================
