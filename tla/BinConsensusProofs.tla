------------------------- MODULE BinConsensusProofs -------------------------
(***************************************************************************)
(* Proofs about BinConsensus for every number of nodes, every fault set    *)
(* within the bound, every coin and every number of rounds.                *)
(***************************************************************************)
EXTENDS BinConsensus, FiniteSetTheorems, TLAPS

-----------------------------------------------------------------------------
(* Sets of nodes and the two thresholds.                                   *)

\* Sets of nodes are finite and a larger set has more elements.
LEMMA NodeSets ==
    ASSUME NEW S \in SUBSET Nodes
    PROVE  /\ IsFiniteSet(S)
           /\ Cardinality(S) \in Nat
           /\ \A T \in SUBSET S : Cardinality(T) \in Nat /\ Cardinality(T) <= Cardinality(S)
<1>1. IsFiniteSet(S)
    BY NodesAssumption, FS_Subset
<1>2. \A T \in SUBSET S : IsFiniteSet(T) /\ Cardinality(T) <= Cardinality(S)
    BY <1>1, FS_Subset
<1> QED
    BY <1>1, <1>2, FS_CardinalityType

\* isThird: more than N/3 nodes include a node that is neither Byzantine nor
\* restarted.
LEMMA ThirdHasStable ==
    ASSUME NEW S \in SUBSET Nodes, IsThird(Cardinality(S))
    PROVE  \E x \in S : x \in Stable
<1> SUFFICES ASSUME \A x \in S : x \notin Stable PROVE FALSE
    OBVIOUS
<1>1. S \in SUBSET (Faulty \cup Unstable) /\ Faulty \cup Unstable \in SUBSET Nodes
    BY FaultAssumption DEF Stable, Honest
<1>2. /\ Cardinality(S) \in Nat
      /\ Cardinality(Faulty \cup Unstable) \in Nat
      /\ Cardinality(S) <= Cardinality(Faulty \cup Unstable)
    BY <1>1, NodeSets
<1>3. N \in Nat
    BY NodesAssumption, FS_CardinalityType DEF N
<1> QED
    BY <1>2, <1>3, FaultAssumption DEF IsThird

\* isTwoThird: two such sets have a stable node in common.
LEMMA QuorumsMeet ==
    ASSUME NEW S \in SUBSET Nodes, NEW T \in SUBSET Nodes,
           IsTwoThird(Cardinality(S)), IsTwoThird(Cardinality(T))
    PROVE  \E x \in S \cap T : x \in Stable
<1>1. IsFiniteSet(S) /\ IsFiniteSet(T) /\ S \cup T \in SUBSET Nodes /\ S \cap T \in SUBSET Nodes
    BY NodeSets
<1>2. /\ Cardinality(S) \in Nat /\ Cardinality(T) \in Nat
      /\ Cardinality(S \cup T) \in Nat /\ Cardinality(S \cap T) \in Nat /\ N \in Nat
      /\ Cardinality(S \cup T) <= N
    BY <1>1, NodeSets DEF N
<1>3. Cardinality(S \cup T) = Cardinality(S) + Cardinality(T) - Cardinality(S \cap T)
    BY <1>1, FS_Union
<1>4. IsThird(Cardinality(S \cap T))
    BY <1>2, <1>3 DEF IsTwoThird, IsThird
<1> QED
    BY <1>1, <1>4, ThirdHasStable

\* A quorum without one node n still has more than N/3 nodes, because N > 1.
LEMMA QuorumWithoutOne ==
    ASSUME NEW S \in SUBSET Nodes, NEW n, IsTwoThird(Cardinality(S))
    PROVE  IsThird(Cardinality(S \ {n}))
<1>1. IsFiniteSet(S) /\ Cardinality(S) \in Nat /\ N \in Nat
    BY NodeSets DEF N
<1>2. Cardinality(S \ {n}) = IF n \in S THEN Cardinality(S) - 1 ELSE Cardinality(S)
    BY <1>1, FS_RemoveElement
<1> QED
    BY <1>1, <1>2, NodesAssumption DEF IsTwoThird, IsThird

\* The thresholds are monotone.
LEMMA ThresholdsGrow ==
    ASSUME NEW T \in SUBSET Nodes, NEW S \in SUBSET T
    PROVE  /\ IsThird(Cardinality(S)) => IsThird(Cardinality(T))
           /\ IsTwoThird(Cardinality(S)) => IsTwoThird(Cardinality(T))
<1>1. Cardinality(S) \in Nat /\ Cardinality(T) \in Nat /\ Cardinality(S) <= Cardinality(T)
    BY NodeSets
<1>2. N \in Nat
    BY NodeSets DEF N
<1> QED
    BY <1>1, <1>2 DEF IsThird, IsTwoThird

\* A nonempty set of naturals has a least element.
LEMMA LeastNat ==
    ASSUME NEW S, S \subseteq Nat, S # {}
    PROVE  \E x \in S : \A y \in S : x <= y
<1> DEFINE R == {ss \in Nat \X Nat : ss[1] < ss[2]}
<1>1. IsWellFoundedOn(R, Nat)
    BY NatLessThanWellFounded, Zenon DEF OpToRel
<1>2. PICK x \in S : \A y \in S : ~ (<<y, x>> \in R)
    <2> HIDE DEF R
    <2> QED BY <1>1, WFMin
<1>3. ASSUME NEW y \in S, y < x PROVE FALSE
    <2>1. <<y, x>> \in R
        BY <1>3
    <2> QED BY <2>1, <1>2
<1>4. \A y \in S : x <= y
    BY <1>3
<1> QED BY <1>4

-----------------------------------------------------------------------------
(* What holds of one instance s of node n, with input i and coin c,        *)
(* whatever it receives.                                                   *)

\* Why an instance may have broadcast v in round r: its input, an echo of
\* more than N/3 other nodes, the outcome of the lottery of round r - 1, or
\* its decision.
BroadcastReason(n, s, i, c, r, v) ==
    \/ r = 0 /\ v = i /\ s.started
    \/ IsThird(Cardinality(s.bvbVotes[r][v] \ {n}))
    \/ /\ r > 0
       /\ v \in s.binValues[r - 1]
       /\ c[r - 1] = v \/ IsTwoThird(Cardinality(s.auxVotes[r - 1][v]))
    \/ s.isDecided /\ s.decidedValue = v /\ s.decidedRound < r

LocalSelf(n, s) == \A r \in Rounds, v \in Values :
    n \in s.bvbVotes[r][v] => v \in s.broadcastValues[r]

LocalBin(s) == \A r \in Rounds : \A v \in s.binValues[r] :
    IsTwoThird(Cardinality(s.bvbVotes[r][v]))

LocalAux(n, s) == \A r \in Rounds :
    /\ \A v \in Values : n \in s.auxVotes[r][v] => v \in s.binValues[r]
    /\ ~(n \in s.auxVotes[r][1] /\ n \in s.auxVotes[r][0])

LocalDecision(s, c) == s.isDecided =>
    /\ s.decidedRound <= s.currentRound
    /\ c[s.decidedRound] = s.decidedValue
    /\ IsTwoThird(Cardinality(s.auxVotes[s.decidedRound][s.decidedValue]))

LocalBroadcast(n, s, i, c) == \A r \in Rounds : \A v \in s.broadcastValues[r] :
    BroadcastReason(n, s, i, c, r, v)

LocalInv(n, s, i, c) ==
    /\ s \in Instance
    /\ LocalSelf(n, s)
    /\ LocalBin(s)
    /\ LocalAux(n, s)
    /\ LocalDecision(s, c)
    /\ LocalBroadcast(n, s, i, c)

\* Instance t follows from s without a message from another node.
Extends(n, s, t) ==
    /\ \A r \in Rounds, v \in Values :
        /\ s.bvbVotes[r][v] \subseteq t.bvbVotes[r][v]
        /\ t.bvbVotes[r][v] \subseteq s.bvbVotes[r][v] \cup {n}
        /\ s.auxVotes[r][v] \subseteq t.auxVotes[r][v]
        /\ t.auxVotes[r][v] \subseteq s.auxVotes[r][v] \cup {n}
    /\ \A r \in Rounds :
        /\ s.binValues[r] \subseteq t.binValues[r]
        /\ s.broadcastValues[r] \subseteq t.broadcastValues[r]
    /\ s.currentRound <= t.currentRound
    /\ s.started => t.started
    /\ s.isDecided => /\ t.isDecided
                      /\ t.decidedRound = s.decidedRound
                      /\ t.decidedValue = s.decidedValue

\* Extends is a preorder on instances.
LEMMA ExtendsTransitive ==
    ASSUME NEW n, NEW s \in Instance, NEW t \in Instance, NEW u \in Instance,
           Extends(n, s, t), Extends(n, t, u)
    PROVE  Extends(n, s, u)
<1>1. s.currentRound \in Nat /\ t.currentRound \in Nat /\ u.currentRound \in Nat
    BY BoundAssumption DEF Instance, Rounds
<1>2. s.currentRound <= u.currentRound
    BY <1>1 DEF Extends
<1> QED
    BY <1>2, Zenon DEF Extends

\* A reason to broadcast stays one when votes are added.
LEMMA ReasonsStay ==
    ASSUME NEW n, NEW i, NEW c, NEW r \in Rounds, NEW v \in Values,
           NEW s \in Instance, NEW t \in Instance,
           \A q \in Rounds, w \in Values :
                /\ s.bvbVotes[q][w] \subseteq t.bvbVotes[q][w]
                /\ s.auxVotes[q][w] \subseteq t.auxVotes[q][w],
           \A q \in Rounds : s.binValues[q] \subseteq t.binValues[q],
           s.started => t.started,
           s.isDecided => /\ t.isDecided
                          /\ t.decidedRound = s.decidedRound
                          /\ t.decidedValue = s.decidedValue,
           BroadcastReason(n, s, i, c, r, v)
    PROVE  BroadcastReason(n, t, i, c, r, v)
<1>1. /\ t.bvbVotes[r][v] \in SUBSET Nodes
      /\ r > 0 => r - 1 \in Rounds /\ t.auxVotes[r - 1][v] \in SUBSET Nodes
    BY BoundAssumption DEF Instance, Rounds
<1>2. CASE r = 0 /\ v = i /\ s.started
    BY <1>2 DEF BroadcastReason
<1>3. CASE IsThird(Cardinality(s.bvbVotes[r][v] \ {n}))
    <2>1. s.bvbVotes[r][v] \ {n} \in SUBSET (t.bvbVotes[r][v] \ {n})
        OBVIOUS
    <2>2. IsThird(Cardinality(t.bvbVotes[r][v] \ {n}))
        BY <1>1, <1>3, <2>1, ThresholdsGrow
    <2> QED
        BY <2>2 DEF BroadcastReason
<1>4. CASE /\ r > 0
           /\ v \in s.binValues[r - 1]
           /\ c[r - 1] = v \/ IsTwoThird(Cardinality(s.auxVotes[r - 1][v]))
    <2>1. IsTwoThird(Cardinality(s.auxVotes[r - 1][v])) =>
          IsTwoThird(Cardinality(t.auxVotes[r - 1][v]))
        BY <1>1, <1>4, ThresholdsGrow
    <2>2. v \in t.binValues[r - 1]
        BY <1>1, <1>4
    <2> QED
        BY <1>4, <2>1, <2>2 DEF BroadcastReason
<1>5. CASE s.isDecided /\ s.decidedValue = v /\ s.decidedRound < r
    BY <1>5 DEF BroadcastReason
<1> QED
    BY <1>2, <1>3, <1>4, <1>5 DEF BroadcastReason

-----------------------------------------------------------------------------
(* The steps of the handlers keep LocalInv.                                *)

\* bvbVote adds one voter.
LEMMA BvbVoteFields ==
    ASSUME NEW s \in Instance, NEW src \in Nodes, NEW r \in Rounds, NEW v \in Values
    PROVE  LET t == BvbVote(s, src, r, v)
           IN  /\ t \in Instance
               /\ t.bvbVotes[r][v] = s.bvbVotes[r][v] \cup {src}
               /\ \A q \in Rounds, w \in Values :
                     q # r \/ w # v => t.bvbVotes[q][w] = s.bvbVotes[q][w]
               /\ t.started = s.started /\ t.currentRound = s.currentRound
               /\ t.isDecided = s.isDecided /\ t.decidedRound = s.decidedRound
               /\ t.decidedValue = s.decidedValue /\ t.auxVotes = s.auxVotes
               /\ t.binValues = s.binValues /\ t.broadcastValues = s.broadcastValues
<1> DEFINE t == BvbVote(s, src, r, v)
           b == [s.bvbVotes EXCEPT ![r][v] = @ \cup {src}]
<1>1. s.bvbVotes \in [Rounds -> [Values -> SUBSET Nodes]]
    BY DEF Instance
<1>2. b \in [Rounds -> [Values -> SUBSET Nodes]]
    BY <1>1
<1>3. t = [s EXCEPT !.bvbVotes = b]
    BY DEF BvbVote, Instance
<1>4. t \in Instance
    <2> HIDE DEF b, t
    <2> QED BY <1>2, <1>3 DEF Instance
<1>5. t.bvbVotes[r][v] = s.bvbVotes[r][v] \cup {src}
    BY DEF BvbVote, Instance
<1>6. \A q \in Rounds, w \in Values : q # r \/ w # v => t.bvbVotes[q][w] = s.bvbVotes[q][w]
    BY DEF BvbVote, Instance
<1> QED
    BY <1>4, <1>5, <1>6 DEF BvbVote, Instance

\* auxVote adds one voter.
LEMMA AuxVoteFields ==
    ASSUME NEW s \in Instance, NEW src \in Nodes, NEW r \in Rounds, NEW v \in Values
    PROVE  LET t == AuxVote(s, src, r, v)
           IN  /\ t \in Instance
               /\ t.auxVotes[r][v] = s.auxVotes[r][v] \cup {src}
               /\ \A q \in Rounds, w \in Values :
                     q # r \/ w # v => t.auxVotes[q][w] = s.auxVotes[q][w]
               /\ t.started = s.started /\ t.currentRound = s.currentRound
               /\ t.isDecided = s.isDecided /\ t.decidedRound = s.decidedRound
               /\ t.decidedValue = s.decidedValue /\ t.bvbVotes = s.bvbVotes
               /\ t.binValues = s.binValues /\ t.broadcastValues = s.broadcastValues
<1> DEFINE t == AuxVote(s, src, r, v)
           b == [s.auxVotes EXCEPT ![r][v] = @ \cup {src}]
<1>1. s.auxVotes \in [Rounds -> [Values -> SUBSET Nodes]]
    BY DEF Instance
<1>2. b \in [Rounds -> [Values -> SUBSET Nodes]]
    BY <1>1
<1>3. t = [s EXCEPT !.auxVotes = b]
    BY DEF AuxVote, Instance
<1>4. t \in Instance
    <2> HIDE DEF b, t
    <2> QED BY <1>2, <1>3 DEF Instance
<1>5. t.auxVotes[r][v] = s.auxVotes[r][v] \cup {src}
    BY DEF AuxVote, Instance
<1>6. \A q \in Rounds, w \in Values : q # r \/ w # v => t.auxVotes[q][w] = s.auxVotes[q][w]
    BY DEF AuxVote, Instance
<1> QED
    BY <1>4, <1>5, <1>6 DEF AuxVote, Instance

\* A BVB vote of another node, or of the node itself for a value that it has
\* broadcast, keeps the local invariant.
LEMMA BvbVoteInv ==
    ASSUME NEW n, NEW i, NEW c, NEW s, LocalInv(n, s, i, c),
           NEW src \in Nodes, NEW r \in Rounds, NEW v \in Values,
           src = n => v \in s.broadcastValues[r]
    PROVE  LocalInv(n, BvbVote(s, src, r, v), i, c)
<1> DEFINE t == BvbVote(s, src, r, v)
<1>s. s \in Instance
    BY DEF LocalInv
<1>f. /\ t \in Instance
      /\ t.bvbVotes[r][v] = s.bvbVotes[r][v] \cup {src}
      /\ \A q \in Rounds, w \in Values :
            q # r \/ w # v => t.bvbVotes[q][w] = s.bvbVotes[q][w]
      /\ t.started = s.started /\ t.currentRound = s.currentRound
      /\ t.isDecided = s.isDecided /\ t.decidedRound = s.decidedRound
      /\ t.decidedValue = s.decidedValue /\ t.auxVotes = s.auxVotes
      /\ t.binValues = s.binValues /\ t.broadcastValues = s.broadcastValues
    BY <1>s, BvbVoteFields
<1> HIDE DEF t
<1>1. LocalSelf(n, t)
    BY <1>f DEF LocalInv, LocalSelf
<1>2. LocalBin(t)
    <2> SUFFICES ASSUME NEW q \in Rounds, NEW w \in t.binValues[q]
                 PROVE  IsTwoThird(Cardinality(t.bvbVotes[q][w]))
        BY DEF LocalBin
    <2>1. w \in Values /\ t.bvbVotes[q][w] \in SUBSET Nodes
        BY <1>f DEF Instance
    <2>2. s.bvbVotes[q][w] \in SUBSET t.bvbVotes[q][w]
        BY <1>f, <2>1
    <2>3. IsTwoThird(Cardinality(s.bvbVotes[q][w]))
        BY <1>f DEF LocalInv, LocalBin
    <2> QED
        BY <2>1, <2>2, <2>3, ThresholdsGrow
<1>3. LocalAux(n, t) /\ LocalDecision(t, c)
    BY <1>f DEF LocalInv, LocalAux, LocalDecision
<1>4. LocalBroadcast(n, t, i, c)
    <2> SUFFICES ASSUME NEW q \in Rounds, NEW w \in t.broadcastValues[q]
                 PROVE  BroadcastReason(n, t, i, c, q, w)
        BY DEF LocalBroadcast
    <2>1. w \in Values
        BY <1>f DEF Instance
    <2>2. BroadcastReason(n, s, i, c, q, w)
        BY <1>f DEF LocalInv, LocalBroadcast
    <2> QED
        BY <1>s, <1>f, <2>1, <2>2, ReasonsStay
<1> QED
    BY <1>f, <1>1, <1>2, <1>3, <1>4 DEF LocalInv, t

\* An AUX vote of another node, or of the node itself for a value that is in
\* binValues when it has not sent the other one, keeps the local invariant.
LEMMA AuxVoteInv ==
    ASSUME NEW n, NEW i, NEW c, NEW s, LocalInv(n, s, i, c),
           NEW src \in Nodes, NEW r \in Rounds, NEW v \in Values,
           src = n => v \in s.binValues[r] /\ n \notin s.auxVotes[r][1 - v]
    PROVE  LocalInv(n, AuxVote(s, src, r, v), i, c)
<1> DEFINE t == AuxVote(s, src, r, v)
<1>s. s \in Instance
    BY DEF LocalInv
<1>f. /\ t \in Instance
      /\ t.auxVotes[r][v] = s.auxVotes[r][v] \cup {src}
      /\ \A q \in Rounds, w \in Values :
            q # r \/ w # v => t.auxVotes[q][w] = s.auxVotes[q][w]
      /\ t.started = s.started /\ t.currentRound = s.currentRound
      /\ t.isDecided = s.isDecided /\ t.decidedRound = s.decidedRound
      /\ t.decidedValue = s.decidedValue /\ t.bvbVotes = s.bvbVotes
      /\ t.binValues = s.binValues /\ t.broadcastValues = s.broadcastValues
    BY <1>s, AuxVoteFields
<1> HIDE DEF t
<1>1. LocalSelf(n, t) /\ LocalBin(t)
    BY <1>f DEF LocalInv, LocalSelf, LocalBin
<1>2. LocalAux(n, t)
    <2> SUFFICES ASSUME NEW q \in Rounds
                 PROVE  /\ \A w \in Values : n \in t.auxVotes[q][w] => w \in t.binValues[q]
                        /\ ~(n \in t.auxVotes[q][1] /\ n \in t.auxVotes[q][0])
        BY DEF LocalAux
    <2>1. /\ \A w \in Values : n \in s.auxVotes[q][w] => w \in s.binValues[q]
          /\ ~(n \in s.auxVotes[q][1] /\ n \in s.auxVotes[q][0])
        BY DEF LocalInv, LocalAux
    <2>2. CASE src # n \/ q # r
        <3>1. \A w \in Values : n \in t.auxVotes[q][w] <=> n \in s.auxVotes[q][w]
            BY <1>f, <2>2
        <3> QED
            BY <1>f, <2>1, <3>1 DEF Values
    <2>3. CASE src = n /\ q = r /\ v = 1
        BY <1>f, <2>1, <2>3 DEF Values
    <2>4. CASE src = n /\ q = r /\ v = 0
        BY <1>f, <2>1, <2>4 DEF Values
    <2> QED
        BY <2>2, <2>3, <2>4 DEF Values
<1>3. LocalDecision(t, c)
    <2> SUFFICES ASSUME t.isDecided
                 PROVE  /\ t.decidedRound <= t.currentRound
                        /\ c[t.decidedRound] = t.decidedValue
                        /\ IsTwoThird(Cardinality(t.auxVotes[t.decidedRound][t.decidedValue]))
        BY DEF LocalDecision
    <2>1. /\ s.decidedRound <= s.currentRound
          /\ c[s.decidedRound] = s.decidedValue
          /\ IsTwoThird(Cardinality(s.auxVotes[s.decidedRound][s.decidedValue]))
        BY <1>f DEF LocalInv, LocalDecision
    <2>2. /\ s.decidedRound \in Rounds /\ s.decidedValue \in Values
          /\ t.auxVotes[s.decidedRound][s.decidedValue] \in SUBSET Nodes
        BY <1>f, <1>s DEF Instance
    <2>3. s.auxVotes[s.decidedRound][s.decidedValue]
            \in SUBSET t.auxVotes[s.decidedRound][s.decidedValue]
        BY <1>f, <2>2
    <2> QED
        BY <1>f, <2>1, <2>2, <2>3, ThresholdsGrow
<1>4. LocalBroadcast(n, t, i, c)
    <2> SUFFICES ASSUME NEW q \in Rounds, NEW w \in t.broadcastValues[q]
                 PROVE  BroadcastReason(n, t, i, c, q, w)
        BY DEF LocalBroadcast
    <2>1. w \in Values
        BY <1>f DEF Instance
    <2>2. BroadcastReason(n, s, i, c, q, w)
        BY <1>f DEF LocalInv, LocalBroadcast
    <2> QED
        BY <1>s, <1>f, <2>1, <2>2, ReasonsStay
<1> QED
    BY <1>f, <1>1, <1>2, <1>3, <1>4 DEF LocalInv, t

\* The node's own vote extends the instance.
LEMMA SelfVoteExtends ==
    ASSUME NEW n \in Nodes, NEW s \in Instance, NEW r \in Rounds, NEW v \in Values
    PROVE  Extends(n, s, BvbVote(s, n, r, v)) /\ Extends(n, s, AuxVote(s, n, r, v))
<1>1. s.currentRound <= s.currentRound
    BY BoundAssumption DEF Instance, Rounds
<1>2. Extends(n, s, BvbVote(s, n, r, v))
    <2> DEFINE t == BvbVote(s, n, r, v)
    <2>1. /\ t.bvbVotes[r][v] = s.bvbVotes[r][v] \cup {n}
          /\ \A q \in Rounds, w \in Values : q # r \/ w # v => t.bvbVotes[q][w] = s.bvbVotes[q][w]
          /\ t.started = s.started /\ t.currentRound = s.currentRound
          /\ t.isDecided = s.isDecided /\ t.decidedRound = s.decidedRound
          /\ t.decidedValue = s.decidedValue /\ t.auxVotes = s.auxVotes
          /\ t.binValues = s.binValues /\ t.broadcastValues = s.broadcastValues
        BY BvbVoteFields
    <2> HIDE DEF t
    <2>2. Extends(n, s, t)
        BY <1>1, <2>1 DEF Extends
    <2> QED BY <2>2 DEF t
<1>3. Extends(n, s, AuxVote(s, n, r, v))
    <2> DEFINE t == AuxVote(s, n, r, v)
    <2>1. /\ t.auxVotes[r][v] = s.auxVotes[r][v] \cup {n}
          /\ \A q \in Rounds, w \in Values : q # r \/ w # v => t.auxVotes[q][w] = s.auxVotes[q][w]
          /\ t.started = s.started /\ t.currentRound = s.currentRound
          /\ t.isDecided = s.isDecided /\ t.decidedRound = s.decidedRound
          /\ t.decidedValue = s.decidedValue /\ t.bvbVotes = s.bvbVotes
          /\ t.binValues = s.binValues /\ t.broadcastValues = s.broadcastValues
        BY AuxVoteFields
    <2> HIDE DEF t
    <2>2. Extends(n, s, t)
        BY <1>1, <2>1 DEF Extends
    <2> QED BY <2>2 DEF t
<1> QED
    BY <1>2, <1>3

\* networkBroadcastValue with a reason keeps the local invariant.
LEMMA BroadcastInv ==
    ASSUME NEW n, NEW i, NEW c, NEW s, LocalInv(n, s, i, c),
           NEW r \in Rounds, NEW v \in Values, BroadcastReason(n, s, i, c, r, v)
    PROVE  LET t == NetworkBroadcastValue(s, r, v)
           IN  /\ LocalInv(n, t, i, c)
               /\ Extends(n, s, t)
               /\ v \in t.broadcastValues[r]
               /\ t.started = s.started /\ t.currentRound = s.currentRound
<1> DEFINE t == NetworkBroadcastValue(s, r, v)
           b == [s.broadcastValues EXCEPT ![r] = @ \cup {v}]
<1>s. s \in Instance
    BY DEF LocalInv
<1>1. b \in [Rounds -> SUBSET Values]
    BY <1>s DEF Instance
<1>2. t = [s EXCEPT !.broadcastValues = b]
    BY <1>s DEF NetworkBroadcastValue, Instance
<1>3. /\ b[r] = s.broadcastValues[r] \cup {v}
      /\ \A q \in Rounds : q # r => b[q] = s.broadcastValues[q]
    BY <1>s DEF Instance
<1> HIDE DEF b, t
<1>4. /\ t \in Instance
      /\ t.started = s.started /\ t.currentRound = s.currentRound
      /\ t.isDecided = s.isDecided /\ t.decidedRound = s.decidedRound
      /\ t.decidedValue = s.decidedValue /\ t.bvbVotes = s.bvbVotes
      /\ t.auxVotes = s.auxVotes /\ t.binValues = s.binValues /\ t.broadcastValues = b
    BY <1>s, <1>1, <1>2 DEF Instance
<1>5. LocalSelf(n, t) /\ LocalBin(t) /\ LocalAux(n, t) /\ LocalDecision(t, c)
    BY <1>3, <1>4 DEF LocalInv, LocalSelf, LocalBin, LocalAux, LocalDecision
<1>6. LocalBroadcast(n, t, i, c)
    <2> SUFFICES ASSUME NEW q \in Rounds, NEW w \in t.broadcastValues[q]
                 PROVE  BroadcastReason(n, t, i, c, q, w)
        BY DEF LocalBroadcast
    <2>1. w \in Values
        BY <1>4 DEF Instance
    <2>2. w \in s.broadcastValues[q] \/ (q = r /\ w = v)
        BY <1>3, <1>4
    <2>3. BroadcastReason(n, s, i, c, q, w)
        BY <2>2 DEF LocalInv, LocalBroadcast
    <2> QED
        BY <1>s, <1>4, <2>1, <2>3, ReasonsStay
<1>7. Extends(n, s, t)
    <2>1. s.currentRound <= s.currentRound
        BY <1>s, BoundAssumption DEF Instance, Rounds
    <2> QED
        BY <2>1, <1>3, <1>4 DEF Extends
<1> QED
    BY <1>3, <1>4, <1>5, <1>6, <1>7 DEF LocalInv, t

\* Moving to a later round keeps the local invariant, and so does started.
LEMMA SetFieldsInv ==
    ASSUME NEW n, NEW i, NEW c, NEW s, LocalInv(n, s, i, c)
    PROVE  /\ LocalInv(n, [s EXCEPT !.started = TRUE], i, c)
           /\ Extends(n, s, [s EXCEPT !.started = TRUE])
           /\ \A r \in Rounds : s.currentRound <= r =>
                /\ LocalInv(n, [s EXCEPT !.currentRound = r], i, c)
                /\ Extends(n, s, [s EXCEPT !.currentRound = r])
<1>s. s \in Instance
    BY DEF LocalInv
<1>r. s.currentRound \in Nat /\ s.decidedRound \in Nat
    BY <1>s, BoundAssumption DEF Instance, Rounds
<1>1. ASSUME NEW t \in Instance, s.currentRound <= t.currentRound,
             s.started => t.started,
             t.isDecided = s.isDecided, t.decidedRound = s.decidedRound,
             t.decidedValue = s.decidedValue, t.bvbVotes = s.bvbVotes,
             t.auxVotes = s.auxVotes, t.binValues = s.binValues,
             t.broadcastValues = s.broadcastValues
      PROVE  LocalInv(n, t, i, c) /\ Extends(n, s, t)
    <2>1. t.currentRound \in Nat
        BY BoundAssumption DEF Instance, Rounds
    <2>2. LocalSelf(n, t) /\ LocalBin(t) /\ LocalAux(n, t)
        BY <1>1 DEF LocalInv, LocalSelf, LocalBin, LocalAux
    <2>3. LocalDecision(t, c)
        BY <1>r, <1>1, <2>1 DEF LocalInv, LocalDecision
    <2>4. LocalBroadcast(n, t, i, c)
        BY <1>1 DEF LocalInv, LocalBroadcast, BroadcastReason
    <2>5. Extends(n, s, t)
        BY <1>1 DEF Extends
    <2> QED
        BY <2>2, <2>3, <2>4, <2>5 DEF LocalInv
<1>2. LocalInv(n, [s EXCEPT !.started = TRUE], i, c) /\ Extends(n, s, [s EXCEPT !.started = TRUE])
    <2> DEFINE t == [s EXCEPT !.started = TRUE]
    <2>0. t.currentRound = s.currentRound
        BY <1>s DEF Instance
    <2>1. t \in Instance
        BY <1>s DEF Instance
    <2>4. s.currentRound <= t.currentRound
        BY <1>r, <2>0
    <2>2. /\ s.started => t.started
          /\ t.isDecided = s.isDecided /\ t.decidedRound = s.decidedRound
          /\ t.decidedValue = s.decidedValue /\ t.bvbVotes = s.bvbVotes
          /\ t.auxVotes = s.auxVotes /\ t.binValues = s.binValues
          /\ t.broadcastValues = s.broadcastValues
        BY <1>s DEF Instance
    <2> HIDE DEF t
    <2>3. LocalInv(n, t, i, c) /\ Extends(n, s, t)
        BY <1>1, <2>1, <2>2, <2>4
    <2> QED BY <2>3 DEF t
<1>3. ASSUME NEW r \in Rounds, s.currentRound <= r
      PROVE  /\ LocalInv(n, [s EXCEPT !.currentRound = r], i, c)
             /\ Extends(n, s, [s EXCEPT !.currentRound = r])
    <2> DEFINE t == [s EXCEPT !.currentRound = r]
    <2>1. t \in Instance /\ s.currentRound <= t.currentRound
        BY <1>s, <1>3 DEF Instance
    <2>2. /\ s.started => t.started
          /\ t.isDecided = s.isDecided /\ t.decidedRound = s.decidedRound
          /\ t.decidedValue = s.decidedValue /\ t.bvbVotes = s.bvbVotes
          /\ t.auxVotes = s.auxVotes /\ t.binValues = s.binValues
          /\ t.broadcastValues = s.broadcastValues
        BY <1>s DEF Instance
    <2> HIDE DEF t
    <2>3. LocalInv(n, t, i, c) /\ Extends(n, s, t)
        BY <1>1, <2>1, <2>2
    <2> QED BY <2>3 DEF t
<1> QED
    BY <1>2, <1>3

-----------------------------------------------------------------------------
(* Instance t follows from s in a handler and keeps the local invariant.   *)
Grows(n, s, t, i, c) == LocalInv(n, t, i, c) /\ Extends(n, s, t)

\* Grows is reflexive and transitive.
LEMMA GrowsPreorder ==
    ASSUME NEW n, NEW i, NEW c, NEW s, LocalInv(n, s, i, c)
    PROVE  /\ Grows(n, s, s, i, c)
           /\ \A t, u : Grows(n, s, t, i, c) /\ Grows(n, t, u, i, c) => Grows(n, s, u, i, c)
<1>1. s.currentRound <= s.currentRound
    BY BoundAssumption DEF LocalInv, Instance, Rounds
<1>2. Extends(n, s, s)
    BY <1>1, Zenon DEF Extends
<1> QED
    BY <1>2, ExtendsTransitive DEF Grows, LocalInv

\* insertIntoBinValues: a value joins binValues on a quorum of BVB votes and
\* the first one is sent in the only AUX message of the round.
LEMMA InsertInv ==
    ASSUME NEW n \in Nodes, NEW i, NEW c, NEW s, LocalInv(n, s, i, c),
           NEW r \in Rounds, NEW v \in Values, CanInsertIntoBinValues(s, r, v)
    PROVE  Grows(n, s, InsertIntoBinValues(s, n, r, v), i, c)
<1> DEFINE t == [s EXCEPT !.binValues[r] = @ \cup {v}]
           b == [s.binValues EXCEPT ![r] = @ \cup {v}]
<1>s. s \in Instance
    BY DEF LocalInv
<1>1. b \in [Rounds -> SUBSET Values]
    BY <1>s DEF Instance
<1>2. t = [s EXCEPT !.binValues = b]
    BY <1>s DEF Instance
<1>3. /\ b[r] = s.binValues[r] \cup {v}
      /\ \A q \in Rounds : q # r => b[q] = s.binValues[q]
    BY <1>s DEF Instance
<1>d. InsertIntoBinValues(s, n, r, v) =
        IF s.binValues[r] = {} THEN AuxVote(t, n, r, v) ELSE t
    BY DEF InsertIntoBinValues, AuxSelfVoteAndBroadcastValue
<1> HIDE DEF b, t
<1>4. /\ t \in Instance
      /\ t.started = s.started /\ t.currentRound = s.currentRound
      /\ t.isDecided = s.isDecided /\ t.decidedRound = s.decidedRound
      /\ t.decidedValue = s.decidedValue /\ t.bvbVotes = s.bvbVotes
      /\ t.auxVotes = s.auxVotes /\ t.binValues = b
      /\ t.broadcastValues = s.broadcastValues
    BY <1>s, <1>1, <1>2 DEF Instance
<1>5. LocalSelf(n, t) /\ LocalDecision(t, c)
    BY <1>4 DEF LocalInv, LocalSelf, LocalDecision
<1>6. LocalBin(t) /\ LocalAux(n, t)
    BY <1>3, <1>4 DEF LocalInv, LocalBin, LocalAux, CanInsertIntoBinValues
<1>7. LocalBroadcast(n, t, i, c)
    <2> SUFFICES ASSUME NEW q \in Rounds, NEW w \in t.broadcastValues[q]
                 PROVE  BroadcastReason(n, t, i, c, q, w)
        BY DEF LocalBroadcast
    <2>1. w \in Values
        BY <1>4 DEF Instance
    <2>2. BroadcastReason(n, s, i, c, q, w)
        BY <1>4 DEF LocalInv, LocalBroadcast
    <2>3. \A p \in Rounds : s.binValues[p] \subseteq t.binValues[p]
        BY <1>3, <1>4
    <2> QED
        BY <1>s, <1>4, <2>1, <2>2, <2>3, ReasonsStay
<1>8. Grows(n, s, t, i, c)
    <2>1. s.currentRound <= s.currentRound
        BY <1>s, BoundAssumption DEF Instance, Rounds
    <2>2. Extends(n, s, t)
        BY <2>1, <1>3, <1>4 DEF Extends
    <2> QED
        BY <2>2, <1>4, <1>5, <1>6, <1>7 DEF LocalInv, Grows
<1>9. CASE s.binValues[r] = {}
    <2>1. v \in t.binValues[r] /\ n \notin t.auxVotes[r][1 - v]
        BY <1>3, <1>4, <1>9 DEF LocalInv, LocalAux, Values
    <2>2. Grows(n, t, AuxVote(t, n, r, v), i, c)
        BY <1>4, <1>8, <2>1, AuxVoteInv, SelfVoteExtends DEF Grows
    <2> QED
        BY <1>d, <1>8, <1>9, <2>2, GrowsPreorder
<1> QED
    BY <1>d, <1>8, <1>9

\* decide: the coin of the current round and a quorum of AUX votes.
LEMMA DecideInv ==
    ASSUME NEW n, NEW i, NEW c, NEW s, LocalInv(n, s, i, c), ~s.isDecided,
           NEW v \in Values, c[s.currentRound] = v,
           IsTwoThird(Cardinality(s.auxVotes[s.currentRound][v]))
    PROVE  Grows(n, s, Decide(s, v), i, c)
<1> DEFINE t == Decide(s, v)
<1>s. s \in Instance
    BY DEF LocalInv
<1>1. t \in Instance
    BY <1>s DEF Decide, Instance
<1>2. /\ t.started = s.started /\ t.currentRound = s.currentRound
      /\ t.isDecided /\ t.decidedRound = s.currentRound
      /\ t.decidedValue = v /\ t.bvbVotes = s.bvbVotes
      /\ t.auxVotes = s.auxVotes /\ t.binValues = s.binValues
      /\ t.broadcastValues = s.broadcastValues
    BY <1>s DEF Decide, Instance
<1>3. s.currentRound <= s.currentRound
    BY <1>s, BoundAssumption DEF Instance, Rounds
<1> HIDE DEF t
<1>4. LocalSelf(n, t) /\ LocalBin(t) /\ LocalAux(n, t)
    BY <1>2 DEF LocalInv, LocalSelf, LocalBin, LocalAux
<1>5. LocalDecision(t, c)
    BY <1>2, <1>3 DEF LocalDecision
<1>6. LocalBroadcast(n, t, i, c)
    <2> SUFFICES ASSUME NEW q \in Rounds, NEW w \in t.broadcastValues[q]
                 PROVE  BroadcastReason(n, t, i, c, q, w)
        BY DEF LocalBroadcast
    <2>1. w \in Values
        BY <1>1 DEF Instance
    <2>2. BroadcastReason(n, s, i, c, q, w)
        BY <1>2 DEF LocalInv, LocalBroadcast
    <2> QED
        BY <1>s, <1>1, <1>2, <2>1, <2>2, ReasonsStay
<1>7. Extends(n, s, t)
    BY <1>2, <1>3 DEF Extends
<1> QED
    BY <1>1, <1>4, <1>5, <1>6, <1>7 DEF LocalInv, Grows, t

\* proceedWithNextRound with a reason to vote v there.
LEMMA NextRoundInv ==
    ASSUME NEW n \in Nodes, NEW i, NEW c, NEW s, LocalInv(n, s, i, c), NEW v \in Values,
           s.currentRound # MaxRound => BroadcastReason(n, s, i, c, s.currentRound + 1, v)
    PROVE  Grows(n, s, ProceedWithNextRound(s, n, v), i, c)
<1> DEFINE r == s.currentRound + 1
           p == [s EXCEPT !.currentRound = r]
           t == NetworkBroadcastValue(p, r, v)
           u == BvbVote(t, n, r, v)
<1>s. s \in Instance
    BY DEF LocalInv
<1>0. Grows(n, s, s, i, c)
    BY GrowsPreorder
<1>1. CASE s.currentRound = MaxRound \/ ~IsTwoThird(TotalAUXVotes(s, s.currentRound))
    BY <1>0, <1>1 DEF ProceedWithNextRound
<1>2. CASE ~(s.currentRound = MaxRound \/ ~IsTwoThird(TotalAUXVotes(s, s.currentRound)))
    <2>1. r \in Rounds /\ s.currentRound <= r
        BY <1>s, <1>2, BoundAssumption DEF Instance, Rounds
    <2>2. Grows(n, s, p, i, c)
        BY <2>1, SetFieldsInv DEF Grows
    <2>3. BroadcastReason(n, p, i, c, r, v)
        <3> HIDE DEF p, r
        <3> QED BY <1>s, <1>2, <2>1, <2>2, ReasonsStay DEF Grows, Extends, LocalInv, r
    <2>4. Grows(n, p, t, i, c) /\ v \in t.broadcastValues[r]
        BY <2>1, <2>2, <2>3, BroadcastInv DEF Grows
    <2>5. Grows(n, t, u, i, c)
        BY <2>1, <2>4, BvbVoteInv, SelfVoteExtends DEF Grows, LocalInv
    <2>6. ProceedWithNextRound(s, n, v) =
            IF n \notin t.bvbVotes[r][v] /\ CanInsertIntoBinValues(u, r, v)
            THEN InsertIntoBinValues(u, n, r, v) ELSE u
        BY <1>2 DEF ProceedWithNextRound
    <2> HIDE DEF p, t, u, r
    <2>7. Grows(n, s, u, i, c)
        BY <2>2, <2>4, <2>5, GrowsPreorder
    <2>8. CanInsertIntoBinValues(u, r, v) =>
            Grows(n, u, InsertIntoBinValues(u, n, r, v), i, c)
        BY <2>1, <2>7, InsertInv DEF Grows
    <2> QED
        BY <2>6, <2>7, <2>8, GrowsPreorder
<1> QED
    BY <1>1, <1>2

\* A lottery that counts one value only has a quorum of AUX votes for it.
LEMMA LotteryQuorum ==
    ASSUME NEW s \in Instance, NEW r \in Rounds, IsTwoThird(CountedVotes(s, r)),
           Counted(s, r) # Values
    PROVE  LET v == IF 1 \in Counted(s, r) THEN 1 ELSE 0
           IN  v \in s.binValues[r] /\ IsTwoThird(Cardinality(s.auxVotes[r][v]))
<1>1. /\ Counted(s, r) \subseteq {0, 1}
      /\ Counted(s, r) \subseteq s.binValues[r]
    BY DEF Counted, Instance, Values
<1>2. /\ Cardinality(s.auxVotes[r][1]) \in Nat
      /\ Cardinality(s.auxVotes[r][0]) \in Nat
      /\ N \in Nat
    <2>1. s.auxVotes[r][1] \in SUBSET Nodes /\ s.auxVotes[r][0] \in SUBSET Nodes
        BY DEF Instance, Values
    <2> QED BY <2>1, NodeSets DEF N
<1>3. CASE 1 \in Counted(s, r)
    <2>1. 0 \notin Counted(s, r)
        BY <1>1, <1>3 DEF Values
    <2>2. CountedVotes(s, r) = Cardinality(s.auxVotes[r][1])
        BY <1>2, <1>3, <2>1 DEF CountedVotes
    <2> QED BY <1>1, <1>3, <2>2
<1>4. CASE 1 \notin Counted(s, r)
    <2>1. 0 \in Counted(s, r)
        <3> SUFFICES ASSUME 0 \notin Counted(s, r) PROVE FALSE
            OBVIOUS
        <3>1. CountedVotes(s, r) = 0
            BY <1>4 DEF CountedVotes
        <3> QED BY <1>2, <3>1 DEF IsTwoThird
    <2>2. CountedVotes(s, r) = Cardinality(s.auxVotes[r][0])
        BY <1>2, <1>4, <2>1 DEF CountedVotes
    <2> QED BY <1>1, <1>4, <2>1, <2>2
<1> QED BY <1>3, <1>4

\* The decision lottery keeps the local invariant, whatever the coin shows.
LEMMA LotteryInv ==
    ASSUME NEW n \in Nodes, NEW i, NEW c \in [Rounds -> Values], NEW s, LocalInv(n, s, i, c)
    PROVE  Grows(n, s, ProceedWithDecisionLotteryIfAUXTwoThird(s, n, c), i, c)
<1> DEFINE r == s.currentRound
           v == IF 1 \in Counted(s, r) THEN 1 ELSE 0
<1>s. s \in Instance
    BY DEF LocalInv
<1>r. r \in Rounds /\ r \in Nat /\ c[r] \in Values
    BY <1>s, BoundAssumption DEF Instance, Rounds
<1>0. Grows(n, s, s, i, c)
    BY GrowsPreorder
<1>1. CASE ~(~s.isDecided /\ IsTwoThird(CountedVotes(s, r)) /\ CoinAvailable(s, r))
    BY <1>0, <1>1 DEF ProceedWithDecisionLotteryIfAUXTwoThird
<1>2. CASE ~s.isDecided /\ IsTwoThird(CountedVotes(s, r)) /\ CoinAvailable(s, r)
    <2>1. ProceedWithDecisionLotteryIfAUXTwoThird(s, n, c) = PlayDecisionLottery(s, n, c[r])
        BY <1>2 DEF ProceedWithDecisionLotteryIfAUXTwoThird
    <2>2. CASE Counted(s, r) = Values
        <3>1. c[r] \in s.binValues[r]
            BY <1>r, <2>2 DEF Counted
        <3>2. BroadcastReason(n, s, i, c, r + 1, c[r])
            BY <1>r, <3>1 DEF BroadcastReason
        <3>3. PlayDecisionLottery(s, n, c[r]) = ProceedWithNextRound(s, n, c[r])
            BY <2>2 DEF PlayDecisionLottery
        <3> QED
            BY <1>r, <2>1, <3>2, <3>3, NextRoundInv
    <2>3. CASE Counted(s, r) # Values
        <3>1. v \in s.binValues[r] /\ IsTwoThird(Cardinality(s.auxVotes[r][v]))
            BY <1>s, <1>r, <1>2, <2>3, LotteryQuorum
        <3>2. v \in Values
            BY DEF Values
        <3>3. PlayDecisionLottery(s, n, c[r]) =
                IF v = c[r] THEN Decide(s, v) ELSE ProceedWithNextRound(s, n, v)
            BY <2>3 DEF PlayDecisionLottery
        <3> HIDE DEF v
        <3>4. v = c[r] => Grows(n, s, Decide(s, v), i, c)
            BY <1>2, <3>1, <3>2, DecideInv
        <3>5. BroadcastReason(n, s, i, c, r + 1, v)
            BY <1>r, <3>1 DEF BroadcastReason
        <3>6. Grows(n, s, ProceedWithNextRound(s, n, v), i, c)
            BY <3>2, <3>5, NextRoundInv
        <3> QED
            BY <2>1, <3>3, <3>4, <3>6
    <2> QED
        BY <2>2, <2>3
<1> QED
    BY <1>1, <1>2

\* addToBinValuesIfTwoThirds keeps the local invariant.
LEMMA AddToBinInv ==
    ASSUME NEW n \in Nodes, NEW i, NEW c \in [Rounds -> Values], NEW s, LocalInv(n, s, i, c),
           NEW r \in Rounds, NEW v \in Values
    PROVE  Grows(n, s, AddToBinValuesIfTwoThirds(s, n, r, v, c), i, c)
<1> DEFINE t == InsertIntoBinValues(s, n, r, v)
           u == ProceedWithDecisionLotteryIfAUXTwoThird(t, n, c)
<1>1. Grows(n, s, s, i, c)
    BY GrowsPreorder
<1>2. AddToBinValuesIfTwoThirds(s, n, r, v, c) =
        IF ~CanInsertIntoBinValues(s, r, v) THEN s
        ELSE IF r = s.currentRound THEN u ELSE t
    BY DEF AddToBinValuesIfTwoThirds
<1>3. CanInsertIntoBinValues(s, r, v) => Grows(n, s, t, i, c)
    BY InsertInv
<1>4. CanInsertIntoBinValues(s, r, v) => Grows(n, t, u, i, c)
    BY <1>3, LotteryInv DEF Grows
<1> HIDE DEF t, u
<1>5. CanInsertIntoBinValues(s, r, v) => Grows(n, s, u, i, c)
    BY <1>3, <1>4, GrowsPreorder
<1> QED
    BY <1>1, <1>2, <1>3, <1>5

\* A decided node that joins the next round votes for its decision.
LEMMA AlreadyDecidedInv ==
    ASSUME NEW n \in Nodes, NEW i, NEW c, NEW s, LocalInv(n, s, i, c), NEW r \in Rounds
    PROVE  Grows(n, s, IfAlreadyDecidedSendDelayedEstimateForNextRound(s, n, r), i, c)
<1>1. Grows(n, s, s, i, c)
    BY GrowsPreorder
<1>2. ASSUME s.isDecided
      PROVE  Grows(n, s, ProceedWithNextRound(s, n, s.decidedValue), i, c)
    <2>1. /\ s.decidedValue \in Values
          /\ s.currentRound \in Nat /\ s.decidedRound \in Nat
          /\ s.decidedRound <= s.currentRound
        BY <1>2, BoundAssumption DEF LocalInv, LocalDecision, Instance, Rounds
    <2>2. BroadcastReason(n, s, i, c, s.currentRound + 1, s.decidedValue)
        BY <1>2, <2>1 DEF BroadcastReason
    <2> QED
        BY <2>1, <2>2, NextRoundInv
<1> QED
    BY <1>1, <1>2 DEF IfAlreadyDecidedSendDelayedEstimateForNextRound

\* networkBroadcastValueIfThird echoes other nodes: a node that counts its own
\* vote for the value has sent it before.
LEMMA EchoInv ==
    ASSUME NEW n, NEW i, NEW c, NEW s, LocalInv(n, s, i, c), NEW r \in Rounds, NEW v \in Values
    PROVE  Grows(n, s, NetworkBroadcastValueIfThird(s, r, v), i, c)
<1>1. Grows(n, s, s, i, c)
    BY GrowsPreorder
<1>2. ASSUME IsThird(Cardinality(s.bvbVotes[r][v]))
      PROVE  BroadcastReason(n, s, i, c, r, v)
    <2>1. CASE n \in s.bvbVotes[r][v]
        BY <2>1 DEF LocalInv, LocalSelf, LocalBroadcast
    <2>2. CASE n \notin s.bvbVotes[r][v]
        <3>1. s.bvbVotes[r][v] \ {n} = s.bvbVotes[r][v]
            BY <2>2
        <3> QED BY <1>2, <3>1 DEF BroadcastReason
    <2> QED BY <2>1, <2>2
<1>3. IsThird(Cardinality(s.bvbVotes[r][v])) =>
        Grows(n, s, NetworkBroadcastValue(s, r, v), i, c)
    BY <1>2, BroadcastInv DEF Grows
<1> QED
    BY <1>1, <1>3 DEF NetworkBroadcastValueIfThird

-----------------------------------------------------------------------------
(* The handlers.                                                           *)

\* processParentProposal.
LEMMA ProposalInv ==
    ASSUME NEW n \in Nodes, NEW i \in Values, NEW c \in [Rounds -> Values],
           NEW s, LocalInv(n, s, i, c)
    PROVE  Grows(n, s, ProcessParentProposal(s, n, i, c), i, c)
<1> DEFINE p == [s EXCEPT !.started = TRUE]
           t == NetworkBroadcastValue(p, 0, i)
           u == BvbVote(t, n, 0, i)
           w == AddToBinValuesIfTwoThirds(u, n, 0, i, c)
<1>0. 0 \in Rounds
    BY BoundAssumption DEF Rounds
<1>1. Grows(n, s, p, i, c)
    BY SetFieldsInv DEF Grows
<1>2. BroadcastReason(n, p, i, c, 0, i)
    <2>1. p.started
        BY DEF LocalInv, Instance
    <2> QED BY <2>1 DEF BroadcastReason
<1>3. Grows(n, p, t, i, c) /\ i \in t.broadcastValues[0]
    BY <1>0, <1>1, <1>2, BroadcastInv DEF Grows
<1>4. Grows(n, t, u, i, c)
    BY <1>0, <1>3, BvbVoteInv, SelfVoteExtends DEF Grows, LocalInv
<1>5. Grows(n, u, w, i, c)
    BY <1>0, <1>4, AddToBinInv DEF Grows
<1>6. ProcessParentProposal(s, n, i, c) = w
    BY DEF ProcessParentProposal
<1> HIDE DEF p, t, u, w
<1>7. Grows(n, s, u, i, c)
    BY <1>1, <1>3, <1>4, GrowsPreorder
<1> QED
    BY <1>5, <1>6, <1>7, GrowsPreorder

\* processNetworkMessageImpl for a BVB message of another node.
LEMMA BVBInv ==
    ASSUME NEW n \in Nodes, NEW i, NEW c \in [Rounds -> Values], NEW s, LocalInv(n, s, i, c),
           NEW src \in Nodes, src # n, NEW r \in Rounds, NEW v \in Values
    PROVE  Grows(n, BvbVote(s, src, r, v), ProcessBVB(s, n, src, r, v, c), i, c)
<1> DEFINE p == BvbVote(s, src, r, v)
           t == NetworkBroadcastValueIfThird(p, r, v)
           u == IfAlreadyDecidedSendDelayedEstimateForNextRound(t, n, r)
           w == AddToBinValuesIfTwoThirds(u, n, r, v, c)
<1>1. LocalInv(n, p, i, c)
    BY BvbVoteInv
<1>2. Grows(n, p, t, i, c)
    BY <1>1, EchoInv
<1>3. Grows(n, t, u, i, c)
    BY <1>2, AlreadyDecidedInv DEF Grows
<1>4. Grows(n, u, w, i, c)
    BY <1>3, AddToBinInv DEF Grows
<1>5. ProcessBVB(s, n, src, r, v, c) = w
    BY DEF ProcessBVB
<1> HIDE DEF p, t, u, w
<1>6. Grows(n, p, u, i, c)
    BY <1>1, <1>2, <1>3, GrowsPreorder
<1>7. Grows(n, p, w, i, c)
    BY <1>1, <1>4, <1>6, GrowsPreorder
<1> QED
    BY <1>5, <1>7 DEF p

\* processNetworkMessageImpl for an AUX message of another node.
LEMMA AUXInv ==
    ASSUME NEW n \in Nodes, NEW i, NEW c \in [Rounds -> Values], NEW s, LocalInv(n, s, i, c),
           NEW src \in Nodes, src # n, NEW r \in Rounds, NEW v \in Values
    PROVE  Grows(n, AuxVote(s, src, r, v), ProcessAUX(s, n, src, r, v, c), i, c)
<1>1. LocalInv(n, AuxVote(s, src, r, v), i, c)
    BY AuxVoteInv
<1> QED
    BY <1>1, LotteryInv, GrowsPreorder DEF ProcessAUX

-----------------------------------------------------------------------------
(* The inductive invariant.  M is the set of messages, c the coin.         *)

Vote(type, q, r, v) == [type |-> type, src |-> q, round |-> r, value |-> v]

\* What instance t of node n counts of other stable nodes, they have sent.
HeardBy(n, t, M) == \A q \in Stable, r \in Rounds, v \in Values : q # n =>
    /\ q \in t.bvbVotes[r][v] => Vote("BVB", q, r, v) \in M
    /\ q \in t.auxVotes[r][v] => Vote("AUX", q, r, v) \in M

\* A quorum whose stable members all sent AUX v in round r.
QuorumAUX(M, r, v) == \E Q \in SUBSET Nodes :
    /\ IsTwoThird(Cardinality(Q))
    /\ \A q \in Q : q \in Stable => Vote("AUX", q, r, v) \in M

\* What a decision of v in round r needs.
Certified(M, c, r, v) == c[r] = v /\ QuorumAUX(M, r, v)

\* What a vote for v after round r needs.
Unlocked(M, c, r, v) ==
    \/ c[r] = v
    \/ QuorumAUX(M, r, v)
    \/ \E q \in Rounds : q < r /\ Certified(M, c, q, v)

\* A stable node sent BVB v in round r.
StableBVB(M, r, v) == \E q \in Stable : Vote("BVB", q, r, v) \in M

LocalInvs == \A n \in Honest : LocalInv(n, node[n], input[n], coin)
Heard == \A n \in Honest : HeardBy(n, node[n], msgs)
SentAll == \A n \in Honest : Sent(n, node[n]) \subseteq msgs
SentOnly == \A m \in msgs : m.src \in Stable => m \in Sent(m.src, node[m.src])

BVBValid == \A r \in Rounds, v \in Values :
    StableBVB(msgs, r, v) => \E n \in Stable : node[n].started /\ input[n] = v

BVBUnlocked == \A r \in Rounds, v \in Values : StableBVB(msgs, r, v) =>
    \A q \in Rounds : q < r => Unlocked(msgs, coin, q, v)

DecisionsCertified ==
    \A d \in decisions : \E r \in Rounds : Certified(msgs, coin, r, d.value)

IInv ==
    /\ TypeOK
    /\ LocalInvs
    /\ Heard
    /\ SentAll
    /\ SentOnly
    /\ BVBValid
    /\ BVBUnlocked
    /\ DecisionsCertified

-----------------------------------------------------------------------------
(* Facts about messages.                                                   *)

\* Stable nodes are honest and honest nodes are nodes.
LEMMA NodeClasses == Stable \subseteq Honest /\ Honest \subseteq Nodes
BY DEF Stable, Honest

\* The messages of an instance are its broadcastValues and its own AUX votes.
LEMMA SentVotes ==
    ASSUME NEW n \in Nodes, NEW t, NEW r \in Rounds, NEW v \in Values
    PROVE  /\ Vote("BVB", n, r, v) \in Sent(n, t) <=> v \in t.broadcastValues[r]
           /\ Vote("AUX", n, r, v) \in Sent(n, t) <=> n \in t.auxVotes[r][v]
BY DEF Sent, Vote, Messages

\* Nobody sends for another node.
LEMMA SentSource ==
    ASSUME NEW n, NEW t
    PROVE  /\ Sent(n, t) \subseteq {m \in Messages : m.src = n}
           /\ \A q, r, v, type : Vote(type, q, r, v) \in Sent(n, t) => q = n
BY DEF Sent, Vote

\* Quorums, certificates and votes stay when messages are added.
LEMMA MoreMessages ==
    ASSUME NEW M, NEW K, M \subseteq K, NEW c, NEW r, NEW v
    PROVE  /\ QuorumAUX(M, r, v) => QuorumAUX(K, r, v)
           /\ Certified(M, c, r, v) => Certified(K, c, r, v)
           /\ Unlocked(M, c, r, v) => Unlocked(K, c, r, v)
           /\ StableBVB(M, r, v) => StableBVB(K, r, v)
<1>1. \A q : QuorumAUX(M, q, v) => QuorumAUX(K, q, v)
    BY DEF QuorumAUX
<1>2. \A q : Certified(M, c, q, v) => Certified(K, c, q, v)
    BY <1>1 DEF Certified
<1> QED
    BY <1>1, <1>2 DEF Unlocked, StableBVB

\* A value in binValues was sent by another, stable node.
LEMMA BinHasBVB ==
    ASSUME NEW n \in Nodes, NEW i, NEW c, NEW t, NEW M, LocalInv(n, t, i, c), HeardBy(n, t, M),
           NEW r \in Rounds, NEW v \in t.binValues[r]
    PROVE  StableBVB(M, r, v)
<1>1. v \in Values /\ t.bvbVotes[r][v] \in SUBSET Nodes
    BY DEF LocalInv, Instance
<1>2. IsTwoThird(Cardinality(t.bvbVotes[r][v]))
    BY DEF LocalInv, LocalBin
<1>3. PICK x \in t.bvbVotes[r][v] \ {n} : x \in Stable
    BY <1>1, <1>2, QuorumWithoutOne, ThirdHasStable
<1> QED
    BY <1>1, <1>3 DEF HeardBy, StableBVB

\* A quorum of AUX votes in an instance is one of AUX messages.
LEMMA VotesAreQuorum ==
    ASSUME NEW n \in Nodes, NEW t \in Instance, NEW M, HeardBy(n, t, M), Sent(n, t) \subseteq M,
           NEW r \in Rounds, NEW v \in Values, IsTwoThird(Cardinality(t.auxVotes[r][v]))
    PROVE  QuorumAUX(M, r, v)
<1>1. t.auxVotes[r][v] \in SUBSET Nodes
    BY DEF Instance
<1>2. ASSUME NEW q \in t.auxVotes[r][v], q \in Stable
      PROVE  Vote("AUX", q, r, v) \in M
    <2>1. CASE q = n
        BY <2>1, SentVotes
    <2>2. CASE q # n
        BY <1>2, <2>2 DEF HeardBy
    <2> QED BY <2>1, <2>2
<1> QED
    BY <1>1, <1>2 DEF QuorumAUX

\* An AUX message of a stable node follows a BVB message of a stable node.
LEMMA AUXHasBVB ==
    ASSUME IInv, NEW q \in Stable, NEW r \in Rounds, NEW v \in Values,
           Vote("AUX", q, r, v) \in msgs
    PROVE  StableBVB(msgs, r, v)
<1>1. q \in Nodes /\ q \in Honest
    BY NodeClasses
<1>2. Vote("AUX", q, r, v) \in Sent(q, node[q])
    BY DEF IInv, SentOnly, Vote
<1>3. q \in node[q].auxVotes[r][v]
    BY <1>1, <1>2, SentVotes
<1>4. LocalInv(q, node[q], input[q], coin) /\ HeardBy(q, node[q], msgs)
    BY <1>1 DEF IInv, LocalInvs, Heard
<1>5. v \in node[q].binValues[r]
    BY <1>3, <1>4 DEF LocalInv, LocalAux
<1> QED
    BY <1>1, <1>4, <1>5, BinHasBVB

\* A stable node sends AUX for one value of a round.
LEMMA OneAUX ==
    ASSUME IInv, NEW q \in Stable, NEW r \in Rounds, NEW v \in Values, NEW w \in Values,
           Vote("AUX", q, r, v) \in msgs, Vote("AUX", q, r, w) \in msgs
    PROVE  v = w
<1>1. q \in Nodes /\ q \in Honest
    BY NodeClasses
<1>2. Vote("AUX", q, r, v) \in Sent(q, node[q]) /\ Vote("AUX", q, r, w) \in Sent(q, node[q])
    BY DEF IInv, SentOnly, Vote
<1>3. q \in node[q].auxVotes[r][v] /\ q \in node[q].auxVotes[r][w]
    BY <1>1, <1>2, SentVotes
<1> QED
    BY <1>1, <1>3 DEF IInv, LocalInvs, LocalInv, LocalAux, Values

\* Two quorums of AUX messages of one round are for the same value.
LEMMA OneQuorum ==
    ASSUME IInv, NEW r \in Rounds, NEW v \in Values, NEW w \in Values,
           QuorumAUX(msgs, r, v), QuorumAUX(msgs, r, w)
    PROVE  v = w
<1>1. PICK P \in SUBSET Nodes :
        /\ IsTwoThird(Cardinality(P))
        /\ \A q \in P : q \in Stable => Vote("AUX", q, r, v) \in msgs
    BY DEF QuorumAUX
<1>2. PICK Q \in SUBSET Nodes :
        /\ IsTwoThird(Cardinality(Q))
        /\ \A q \in Q : q \in Stable => Vote("AUX", q, r, w) \in msgs
    BY DEF QuorumAUX
<1>3. PICK x \in P \cap Q : x \in Stable
    BY <1>1, <1>2, QuorumsMeet
<1> QED
    BY <1>1, <1>2, <1>3, OneAUX

\* A quorum of AUX messages follows a BVB message of a stable node.
LEMMA QuorumHasBVB ==
    ASSUME IInv, NEW r \in Rounds, NEW v \in Values, QuorumAUX(msgs, r, v)
    PROVE  StableBVB(msgs, r, v)
<1>1. PICK Q \in SUBSET Nodes :
        /\ IsTwoThird(Cardinality(Q))
        /\ \A q \in Q : q \in Stable => Vote("AUX", q, r, v) \in msgs
    BY DEF QuorumAUX
<1>2. PICK x \in Q : x \in Stable
    BY <1>1, QuorumsMeet
<1> QED
    BY <1>1, <1>2, AUXHasBVB

-----------------------------------------------------------------------------
(* Certificates agree: the least certified round locks its value.          *)

LEMMA CertificatesAgree ==
    ASSUME IInv, NEW r \in Rounds, NEW q \in Rounds, NEW v \in Values, NEW w \in Values,
           Certified(msgs, coin, r, v), Certified(msgs, coin, q, w)
    PROVE  v = w
<1> DEFINE S == {p \in Rounds : \E x \in Values : Certified(msgs, coin, p, x)}
<1>1. Rounds \subseteq Nat
    BY BoundAssumption DEF Rounds
<1>2. PICK least \in S : \A p \in S : least <= p
    <2>1. S \subseteq Nat /\ r \in S
        BY <1>1
    <2> HIDE DEF S
    <2> QED BY <2>1, LeastNat
<1>3. PICK a \in Values : Certified(msgs, coin, least, a)
    OBVIOUS
<1>4. ASSUME NEW p \in Rounds, NEW x \in Values, Certified(msgs, coin, p, x)
      PROVE  x = a
    <2>1. least <= p /\ least \in Nat /\ p \in Nat
        BY <1>1, <1>2, <1>4
    <2>2. CASE p = least
        BY <1>3, <1>4, <2>2 DEF Certified
    <2>3. CASE least < p
        <3>1. StableBVB(msgs, p, x)
            BY <1>4, QuorumHasBVB DEF Certified
        <3>2. Unlocked(msgs, coin, least, x)
            BY <2>3, <3>1 DEF IInv, BVBUnlocked
        <3>3. coin[least] = x => x = a
            BY <1>3 DEF Certified
        <3>4. QuorumAUX(msgs, least, x) => x = a
            BY <1>3, OneQuorum DEF Certified
        <3>5. ~ \E o \in Rounds : o < least /\ Certified(msgs, coin, o, x)
            <4> SUFFICES ASSUME NEW o \in Rounds, o < least, Certified(msgs, coin, o, x)
                         PROVE  FALSE
                OBVIOUS
            <4>1. o \in S
                OBVIOUS
            <4> QED BY <1>1, <1>2, <2>1, <4>1
        <3> QED
            BY <3>2, <3>3, <3>4, <3>5 DEF Unlocked
    <2> QED
        BY <2>1, <2>2, <2>3
<1> QED
    BY <1>4

-----------------------------------------------------------------------------
(* A handler keeps the invariant.                                          *)

\* Where a broadcast value comes from, in terms of the messages.
LEMMA BroadcastSource ==
    ASSUME IInv, NEW n \in Honest, NEW t, LocalInv(n, t, input[n], coin), HeardBy(n, t, msgs),
           NEW M, msgs \subseteq M, Sent(n, t) \subseteq M,
           NEW r \in Rounds, NEW v \in t.broadcastValues[r]
    PROVE  \/ r = 0 /\ v = input[n] /\ t.started
           \/ StableBVB(msgs, r, v)
           \/ /\ r - 1 \in Rounds
              /\ StableBVB(msgs, r - 1, v)
              /\ coin[r - 1] = v \/ QuorumAUX(M, r - 1, v)
           \/ \E d \in Rounds : d < r /\ StableBVB(msgs, d, v) /\ Certified(M, coin, d, v)
<1>1. n \in Nodes /\ v \in Values /\ t \in Instance /\ r \in Nat
    BY NodeClasses, BoundAssumption DEF LocalInv, Instance, Rounds
<1>2. BroadcastReason(n, t, input[n], coin, r, v)
    BY DEF LocalInv, LocalBroadcast
<1>h. HeardBy(n, t, M)
    BY DEF HeardBy
<1>3. CASE r = 0 /\ v = input[n] /\ t.started
    BY <1>3
<1>4. CASE IsThird(Cardinality(t.bvbVotes[r][v] \ {n}))
    <2>1. t.bvbVotes[r][v] \ {n} \in SUBSET Nodes
        BY <1>1 DEF Instance
    <2>2. PICK x \in t.bvbVotes[r][v] \ {n} : x \in Stable
        BY <1>4, <2>1, ThirdHasStable
    <2>3. StableBVB(msgs, r, v)
        BY <1>1, <2>2 DEF HeardBy, StableBVB
    <2> QED BY <2>3
<1>5. CASE /\ r > 0
           /\ v \in t.binValues[r - 1]
           /\ coin[r - 1] = v \/ IsTwoThird(Cardinality(t.auxVotes[r - 1][v]))
    <2>1. r - 1 \in Rounds
        BY <1>1, <1>5, BoundAssumption DEF Rounds
    <2>2. StableBVB(msgs, r - 1, v)
        BY <1>1, <1>5, <2>1, BinHasBVB
    <2>3. coin[r - 1] = v \/ QuorumAUX(M, r - 1, v)
        BY <1>1, <1>h, <1>5, <2>1, VotesAreQuorum
    <2> QED BY <2>1, <2>2, <2>3
<1>6. CASE t.isDecided /\ t.decidedValue = v /\ t.decidedRound < r
    <2> DEFINE d == t.decidedRound
    <2>1. d \in Rounds /\ coin[d] = v /\ IsTwoThird(Cardinality(t.auxVotes[d][v]))
        BY <1>1, <1>6 DEF LocalInv, LocalDecision, Instance
    <2>2. Certified(M, coin, d, v)
        BY <1>1, <1>h, <2>1, VotesAreQuorum DEF Certified
    <2>3. t.auxVotes[d][v] \in SUBSET Nodes
        <3>1. t.auxVotes \in [Rounds -> [Values -> SUBSET Nodes]]
            BY <1>1 DEF Instance
        <3> QED BY <1>1, <2>1, <3>1
    <2>4. PICK x \in t.auxVotes[d][v] \ {n} : x \in Stable
        BY <2>1, <2>3, QuorumWithoutOne, ThirdHasStable
    <2>5. Vote("AUX", x, d, v) \in msgs
        BY <1>1, <2>1, <2>4 DEF HeardBy
    <2>6. StableBVB(msgs, d, v)
        BY <1>1, <2>1, <2>4, <2>5, AUXHasBVB
    <2> QED
        BY <1>6, <2>1, <2>2, <2>6
<1> QED
    BY <1>2, <1>3, <1>4, <1>5, <1>6 DEF BroadcastReason

\* Node n ends a handler with an instance t that keeps the local invariant,
\* counts only votes that were sent and forgets none of its own.
GoodHandler(n, t) ==
    /\ LocalInv(n, t, input[n], coin)
    /\ HeardBy(n, t, msgs)
    /\ Sent(n, node[n]) \subseteq Sent(n, t)
    /\ node[n].started => t.started
    /\ Handled(n, t)

\* Such a handler keeps the invariant.
LEMMA HandledInv ==
    ASSUME IInv, NEW n \in Honest, NEW t, GoodHandler(n, t)
    PROVE  IInv'
<1> DEFINE M == msgs \cup Sent(n, t)
<1> SUFFICES ASSUME LocalInv(n, t, input[n], coin), HeardBy(n, t, msgs),
                    Sent(n, node[n]) \subseteq Sent(n, t),
                    node[n].started => t.started,
                    Handled(n, t)
             PROVE  IInv'
    BY DEF GoodHandler
<1>0. /\ node' = [node EXCEPT ![n] = t]
      /\ msgs' = M
      /\ decisions' = decisions \cup Reported(n, t)
      /\ input' = input /\ coin' = coin /\ restarts' = restarts
    BY DEF Handled
<1>t. TypeOK /\ t \in Instance /\ n \in Nodes
    BY NodeClasses DEF IInv, LocalInv
<1>n. /\ node'[n] = t
      /\ \A p \in Honest : p # n => node'[p] = node[p]
    BY <1>0, <1>t DEF TypeOK
<1>m. msgs \subseteq M /\ Sent(n, t) \subseteq M
    OBVIOUS
<1> HIDE DEF M
<1>1. TypeOK'
    <2>1. node' \in [Honest -> Instance]
        BY <1>0, <1>t DEF TypeOK
    <2>2. msgs' \subseteq {m \in Messages : m.src \in Honest}
        BY <1>0, <1>t, SentSource DEF TypeOK, M
    <2>3. decisions' \subseteq [node : Honest, value : Values]
        BY <1>0, <1>t DEF TypeOK, Reported, Instance
    <2> QED
        BY <2>1, <2>2, <2>3, <1>0, <1>t DEF TypeOK
<1>2. LocalInvs'
    BY <1>0, <1>n DEF IInv, LocalInvs
<1>3. Heard'
    BY <1>0, <1>n, <1>m DEF IInv, Heard, HeardBy
<1>4. SentAll'
    BY <1>0, <1>n, <1>m DEF IInv, SentAll
<1>5. SentOnly'
    <2> SUFFICES ASSUME NEW m \in msgs', m.src \in Stable
                 PROVE  m \in Sent(m.src, node'[m.src])
        BY DEF SentOnly, Sent
    <2>1. CASE m \in Sent(n, t)
        BY <2>1, <1>n, SentSource
    <2>2. CASE m \in msgs
        <3>1. m \in Sent(m.src, node[m.src])
            BY <2>2 DEF IInv, SentOnly
        <3> QED
            BY <3>1, <1>n, NodeClasses
    <2> QED BY <2>1, <2>2, <1>0 DEF M
<1>6. ASSUME NEW r \in Rounds, NEW v \in Values, StableBVB(M, r, v)
      PROVE  \/ StableBVB(msgs, r, v)
             \/ n \in Stable /\ v \in t.broadcastValues[r]
    <2>1. PICK x \in Stable : Vote("BVB", x, r, v) \in M
        BY <1>6 DEF StableBVB
    <2>2. CASE Vote("BVB", x, r, v) \in msgs
        BY <2>2 DEF StableBVB
    <2>3. CASE Vote("BVB", x, r, v) \in Sent(n, t)
        BY <1>t, <2>1, <2>3, SentVotes, SentSource
    <2> QED BY <2>1, <2>2, <2>3 DEF M
<1>7. BVBValid'
    <2> SUFFICES ASSUME NEW r \in Rounds, NEW v \in Values, StableBVB(M, r, v)
                 PROVE  \E p \in Stable : node'[p].started /\ input[p] = v
        BY <1>0 DEF BVBValid, StableBVB
    <2>1. CASE \E q \in Rounds : StableBVB(msgs, q, v)
        <3>1. PICK p \in Stable : node[p].started /\ input[p] = v
            BY <2>1 DEF IInv, BVBValid
        <3>2. node'[p].started
            BY <3>1, <1>n, NodeClasses
        <3> QED BY <3>1, <3>2
    <2>2. CASE n \in Stable /\ v = input[n] /\ t.started
        BY <2>2, <1>n
    <2> QED
        BY <1>m, <1>6, <2>1, <2>2, BroadcastSource
<1>8. BVBUnlocked'
    <2> SUFFICES ASSUME NEW r \in Rounds, NEW v \in Values, StableBVB(M, r, v),
                        NEW q \in Rounds, q < r
                 PROVE  Unlocked(M, coin, q, v)
        BY <1>0 DEF BVBUnlocked
    <2>1. \A p \in Rounds : StableBVB(msgs, p, v) /\ q < p => Unlocked(M, coin, q, v)
        BY <1>m, MoreMessages DEF IInv, BVBUnlocked
    <2>2. q \in Nat /\ r \in Nat /\ Rounds \subseteq Nat
        BY BoundAssumption DEF Rounds
    <2>3. CASE StableBVB(msgs, r, v)
        BY <2>1, <2>3
    <2>4. CASE n \in Stable /\ v \in t.broadcastValues[r]
        <3>1. \/ r = 0 /\ v = input[n]
              \/ StableBVB(msgs, r, v)
              \/ /\ r - 1 \in Rounds
                 /\ StableBVB(msgs, r - 1, v)
                 /\ coin[r - 1] = v \/ QuorumAUX(M, r - 1, v)
              \/ \E d \in Rounds : d < r /\ StableBVB(msgs, d, v) /\ Certified(M, coin, d, v)
            BY <1>m, <2>4, BroadcastSource
        <3>2. CASE r = 0
            BY <2>2, <3>2
        <3>3. CASE /\ r - 1 \in Rounds
                   /\ StableBVB(msgs, r - 1, v)
                   /\ coin[r - 1] = v \/ QuorumAUX(M, r - 1, v)
            <4>1. q < r - 1 \/ q = r - 1
                BY <2>2
            <4> QED
                BY <2>1, <3>3, <4>1 DEF Unlocked
        <3>4. ASSUME NEW d \in Rounds, d < r, StableBVB(msgs, d, v), Certified(M, coin, d, v)
              PROVE  Unlocked(M, coin, q, v)
            <4>1. q < d \/ q = d \/ d < q
                BY <2>2
            <4> QED
                BY <2>1, <3>4, <4>1 DEF Unlocked, Certified
        <3> QED
            BY <2>3, <3>1, <3>2, <3>3, <3>4
    <2> QED
        BY <1>6, <2>3, <2>4
<1>9. DecisionsCertified'
    <2> SUFFICES ASSUME NEW d \in decisions'
                 PROVE  \E r \in Rounds : Certified(M, coin, r, d.value)
        BY <1>0 DEF DecisionsCertified
    <2>1. CASE d \in decisions
        <3>1. PICK r \in Rounds : Certified(msgs, coin, r, d.value)
            BY <2>1 DEF IInv, DecisionsCertified
        <3> QED BY <3>1, <1>m, MoreMessages
    <2>2. CASE d \in Reported(n, t)
        <3>1. t.isDecided /\ d.value = t.decidedValue
            BY <2>2 DEF Reported
        <3>2. /\ t.decidedRound \in Rounds /\ t.decidedValue \in Values
              /\ coin[t.decidedRound] = t.decidedValue
              /\ IsTwoThird(Cardinality(t.auxVotes[t.decidedRound][t.decidedValue]))
            BY <3>1, <1>t DEF LocalInv, LocalDecision, Instance
        <3>3. HeardBy(n, t, M)
            BY <1>m DEF HeardBy
        <3>4. QuorumAUX(M, t.decidedRound, t.decidedValue)
            BY <1>t, <1>m, <3>2, <3>3, VotesAreQuorum
        <3> QED
            BY <3>1, <3>2, <3>4 DEF Certified
    <2> QED BY <1>0, <2>1, <2>2
<1> QED
    BY <1>1, <1>2, <1>3, <1>4, <1>5, <1>7, <1>8, <1>9 DEF IInv

\* Growing keeps the own messages and adds no vote of another node.
LEMMA GrowsMessages ==
    ASSUME NEW n, NEW s, NEW t, Extends(n, s, t)
    PROVE  /\ Sent(n, s) \subseteq Sent(n, t)
           /\ \A M : HeardBy(n, s, M) => HeardBy(n, t, M)
<1>1. Sent(n, s) \subseteq Sent(n, t)
    BY DEF Extends, Sent, Messages
<1>2. \A M : HeardBy(n, s, M) => HeardBy(n, t, M)
    BY DEF Extends, HeardBy
<1> QED BY <1>1, <1>2

\* A message is determined by its fields, and a stable source has sent it.
LEMMA MessageFacts ==
    ASSUME TypeOK, NEW m \in msgs \cup ByzMessages
    PROVE  /\ m \in Messages
           /\ m = Vote(m.type, m.src, m.round, m.value)
           /\ m.src \in Nodes /\ m.round \in Rounds /\ m.value \in Values
           /\ m.src \in Stable => m \in msgs
<1>1. m \in Messages
    BY ByzAssumption DEF TypeOK
<1>2. m.src \in Stable => m \in msgs
    BY ByzAssumption DEF Stable, Honest
<1> QED
    BY <1>1, <1>2 DEF Messages, Vote

\* A BVB vote that was sent may be counted.
LEMMA BVBVoteHeard ==
    ASSUME NEW n, NEW s \in Instance, NEW M, HeardBy(n, s, M),
           NEW src \in Nodes, src # n, NEW r \in Rounds, NEW v \in Values,
           src \in Stable => Vote("BVB", src, r, v) \in M
    PROVE  /\ HeardBy(n, BvbVote(s, src, r, v), M)
           /\ Sent(n, s) \subseteq Sent(n, BvbVote(s, src, r, v))
           /\ BvbVote(s, src, r, v).started = s.started
<1> DEFINE t == BvbVote(s, src, r, v)
<1>1. /\ t.bvbVotes[r][v] = s.bvbVotes[r][v] \cup {src}
      /\ \A q \in Rounds, w \in Values :
            q # r \/ w # v => t.bvbVotes[q][w] = s.bvbVotes[q][w]
      /\ t.auxVotes = s.auxVotes /\ t.broadcastValues = s.broadcastValues
      /\ t.started = s.started
    BY BvbVoteFields
<1> HIDE DEF t
<1>2. HeardBy(n, t, M)
    BY <1>1 DEF HeardBy
<1>3. Sent(n, s) \subseteq Sent(n, t)
    BY <1>1 DEF Sent, Messages
<1> QED
    BY <1>1, <1>2, <1>3 DEF t

\* A AUX vote that was sent may be counted.
LEMMA AUXVoteHeard ==
    ASSUME NEW n, NEW s \in Instance, NEW M, HeardBy(n, s, M),
           NEW src \in Nodes, src # n, NEW r \in Rounds, NEW v \in Values,
           src \in Stable => Vote("AUX", src, r, v) \in M
    PROVE  /\ HeardBy(n, AuxVote(s, src, r, v), M)
           /\ Sent(n, s) \subseteq Sent(n, AuxVote(s, src, r, v))
           /\ AuxVote(s, src, r, v).started = s.started
<1> DEFINE t == AuxVote(s, src, r, v)
<1>1. /\ t.auxVotes[r][v] = s.auxVotes[r][v] \cup {src}
      /\ \A q \in Rounds, w \in Values :
            q # r \/ w # v => t.auxVotes[q][w] = s.auxVotes[q][w]
      /\ t.bvbVotes = s.bvbVotes /\ t.broadcastValues = s.broadcastValues
      /\ t.started = s.started
    BY AuxVoteFields
<1> HIDE DEF t
<1>2. HeardBy(n, t, M)
    BY <1>1 DEF HeardBy
<1>3. Sent(n, s) \subseteq Sent(n, t)
    BY <1>1 DEF Sent, Messages
<1> QED
    BY <1>1, <1>2, <1>3 DEF t

\* A new instance satisfies the local invariant.
LEMMA NewInstanceInv ==
    ASSUME NEW n, NEW i, NEW c
    PROVE  /\ LocalInv(n, NewInstance, i, c)
           /\ \A M : HeardBy(n, NewInstance, M)
           /\ Sent(n, NewInstance) = {}
<1>1. NewInstance \in Instance
    BY BoundAssumption DEF NewInstance, Instance, Rounds, Values
<1>2. LocalSelf(n, NewInstance) /\ LocalBin(NewInstance) /\ LocalAux(n, NewInstance)
    BY DEF NewInstance, LocalSelf, LocalBin, LocalAux, Values
<1>3. LocalDecision(NewInstance, c) /\ LocalBroadcast(n, NewInstance, i, c)
    BY DEF NewInstance, LocalDecision, LocalBroadcast
<1>4. \A M : HeardBy(n, NewInstance, M)
    BY DEF NewInstance, HeardBy
<1>5. Sent(n, NewInstance) = {}
    BY DEF NewInstance, Sent, Messages
<1> QED
    BY <1>1, <1>2, <1>3, <1>4, <1>5 DEF LocalInv

-----------------------------------------------------------------------------
(* The invariant is inductive.                                             *)

LEMMA InitInv == Init => IInv
<1> SUFFICES ASSUME Init PROVE IInv
    OBVIOUS
<1>1. TypeOK
    <2>1. NewInstance \in Instance
        BY NewInstanceInv DEF LocalInv
    <2> QED
        BY <2>1, InputAssumption, BoundAssumption DEF Init, TypeOK
<1>2. LocalInvs /\ Heard /\ SentAll
    BY NewInstanceInv DEF Init, LocalInvs, Heard, SentAll
<1>3. SentOnly /\ DecisionsCertified
    BY DEF Init, SentOnly, DecisionsCertified
<1>4. BVBValid /\ BVBUnlocked
    BY DEF Init, BVBValid, BVBUnlocked, StableBVB
<1> QED
    BY <1>1, <1>2, <1>3, <1>4 DEF IInv

\* propose.
LEMMA ProposeHandler ==
    ASSUME IInv, NEW n \in Honest, Propose(n)
    PROVE  \E t : GoodHandler(n, t)
<1> DEFINE t == ProcessParentProposal(node[n], n, input[n], coin)
<1>1. /\ n \in Nodes /\ input[n] \in Values /\ coin \in [Rounds -> Values]
      /\ LocalInv(n, node[n], input[n], coin) /\ HeardBy(n, node[n], msgs)
    BY NodeClasses DEF IInv, TypeOK, LocalInvs, Heard
<1>2. Grows(n, node[n], t, input[n], coin)
    BY <1>1, ProposalInv
<1>3. Handled(n, t)
    BY DEF Propose
<1> HIDE DEF t
<1>4. LocalInv(n, t, input[n], coin) /\ HeardBy(n, t, msgs) /\ Sent(n, node[n]) \subseteq Sent(n, t)
    BY <1>1, <1>2, GrowsMessages DEF Grows
<1>5. node[n].started => t.started
    BY <1>2 DEF Grows, Extends
<1> QED
    BY <1>3, <1>4, <1>5 DEF GoodHandler

\* A BVB or an AUX message.
LEMMA ReceiveHandler ==
    ASSUME IInv, NEW n \in Honest, NEW m \in msgs \cup ByzMessages, Receive(n, m)
    PROVE  \E t : GoodHandler(n, t)
<1> DEFINE s == node[n]
           p == BvbVote(s, m.src, m.round, m.value)
           a == AuxVote(s, m.src, m.round, m.value)
           t == ProcessBVB(s, n, m.src, m.round, m.value, coin)
           u == ProcessAUX(s, n, m.src, m.round, m.value, coin)
<1>1. /\ n \in Nodes /\ coin \in [Rounds -> Values]
      /\ LocalInv(n, s, input[n], coin) /\ HeardBy(n, s, msgs) /\ s \in Instance
    BY NodeClasses DEF IInv, TypeOK, LocalInvs, Heard, LocalInv
<1>2. /\ m = Vote(m.type, m.src, m.round, m.value)
      /\ m.src \in Nodes /\ m.round \in Rounds /\ m.value \in Values
      /\ m.src \in Stable => m \in msgs
      /\ m.src # n
    BY MessageFacts DEF IInv, Receive
<1>3. CASE m.type = "BVB" /\ Handled(n, t)
    <2>1. Grows(n, p, t, input[n], coin)
        BY <1>1, <1>2, BVBInv
    <2>2. m.src \in Stable => Vote("BVB", m.src, m.round, m.value) \in msgs
        BY <1>2, <1>3
    <2>3. HeardBy(n, p, msgs) /\ Sent(n, s) \subseteq Sent(n, p) /\ p.started = s.started
        BY <1>1, <1>2, <2>2, BVBVoteHeard
    <2> HIDE DEF p, t
    <2>4. LocalInv(n, t, input[n], coin) /\ HeardBy(n, t, msgs) /\ Sent(n, s) \subseteq Sent(n, t)
        BY <2>1, <2>3, GrowsMessages DEF Grows
    <2>5. s.started => t.started
        BY <2>1, <2>3 DEF Grows, Extends
    <2> QED
        BY <1>3, <2>4, <2>5 DEF GoodHandler
<1>4. CASE m.type = "AUX" /\ Handled(n, u)
    <2>1. Grows(n, a, u, input[n], coin)
        BY <1>1, <1>2, AUXInv
    <2>2. m.src \in Stable => Vote("AUX", m.src, m.round, m.value) \in msgs
        BY <1>2, <1>4
    <2> HIDE DEF s, u
    <2>3. HeardBy(n, a, msgs) /\ Sent(n, s) \subseteq Sent(n, a) /\ a.started = s.started
        BY <1>1, <1>2, <2>2, AUXVoteHeard
    <2> HIDE DEF a
    <2>4. LocalInv(n, u, input[n], coin) /\ HeardBy(n, u, msgs) /\ Sent(n, s) \subseteq Sent(n, u)
        BY <2>1, <2>3, GrowsMessages DEF Grows
    <2>5. s.started => u.started
        BY <2>1, <2>3 DEF Grows, Extends
    <2> QED
        BY <1>4, <2>4, <2>5 DEF GoodHandler, s
<1> QED
    BY <1>3, <1>4 DEF Receive

\* A restarted node is not stable: nothing the invariant says of stable nodes
\* depends on its instance.
LEMMA RestartStep ==
    ASSUME IInv, NEW n \in Honest, Restart(n)
    PROVE  IInv'
<1>0. /\ n \notin Stable
      /\ node' = [node EXCEPT ![n] = NewInstance]
      /\ restarts < MaxRestarts /\ restarts' = restarts + 1
      /\ input' = input /\ coin' = coin /\ msgs' = msgs /\ decisions' = decisions
    BY DEF Restart, Stable
<1>n. /\ node'[n] = NewInstance
      /\ \A p \in Honest : p # n => node'[p] = node[p]
    BY <1>0 DEF IInv, TypeOK
<1>1. TypeOK'
    <2>1. NewInstance \in Instance
        BY NewInstanceInv DEF LocalInv
    <2>2. restarts' \in 0 .. MaxRestarts
        BY <1>0, BoundAssumption DEF IInv, TypeOK
    <2>3. node' \in [Honest -> Instance]
        BY <1>0, <2>1 DEF IInv, TypeOK
    <2> QED
        BY <1>0, <2>2, <2>3 DEF IInv, TypeOK
<1>2. LocalInvs' /\ Heard' /\ SentAll'
    BY <1>0, <1>n, NewInstanceInv DEF IInv, LocalInvs, Heard, SentAll
<1>3. SentOnly'
    BY <1>0, <1>n, NodeClasses DEF IInv, SentOnly
<1>4. BVBValid' /\ BVBUnlocked' /\ DecisionsCertified'
    BY <1>0 DEF IInv, BVBValid, BVBUnlocked, DecisionsCertified
<1> QED
    BY <1>1, <1>2, <1>3, <1>4 DEF IInv

\* Every step keeps the invariant.
LEMMA NextInv == IInv /\ [Next]_vars => IInv'
<1> SUFFICES ASSUME IInv, [Next]_vars PROVE IInv'
    OBVIOUS
<1>1. CASE UNCHANGED vars
    BY <1>1 DEF vars, IInv, TypeOK, LocalInvs, Heard, SentAll, SentOnly, BVBValid,
                BVBUnlocked, DecisionsCertified
<1>2. ASSUME NEW n \in Honest, Propose(n) PROVE IInv'
    BY <1>2, ProposeHandler, HandledInv
<1>3. ASSUME NEW n \in Honest, NEW m \in msgs \cup ByzMessages, Receive(n, m) PROVE IInv'
    BY <1>3, ReceiveHandler, HandledInv
<1>4. ASSUME NEW n \in Honest, Restart(n) PROVE IInv'
    BY <1>4, RestartStep
<1> QED
    BY <1>1, <1>2, <1>3, <1>4 DEF Next

\* The invariant holds in every reachable state.
THEOREM Invariance == Spec => []IInv
<1> QED BY InitInv, NextInv, PTL DEF Spec

-----------------------------------------------------------------------------
(* What follows from it.                                                   *)

\* A decision has a value that a certificate carries.
LEMMA DecisionFacts ==
    ASSUME IInv, NEW d \in decisions
    PROVE  d.value \in Values /\ \E r \in Rounds : Certified(msgs, coin, r, d.value)
BY DEF IInv, TypeOK, DecisionsCertified

LEMMA AgreementInv == IInv => Agreement
<1> SUFFICES ASSUME IInv, NEW d \in decisions, NEW e \in decisions PROVE d.value = e.value
    BY DEF Agreement
<1> QED
    BY DecisionFacts, CertificatesAgree

LEMMA ValidityInv == IInv => Validity
<1> SUFFICES ASSUME IInv, NEW d \in decisions
             PROVE  \E n \in Stable : node[n].started /\ input[n] = d.value
    BY DEF Validity
<1>1. PICK r \in Rounds : d.value \in Values /\ StableBVB(msgs, r, d.value)
    BY DecisionFacts, QuorumHasBVB DEF Certified
<1> QED
    BY <1>1 DEF IInv, BVBValid

LEMMA DecisionLocksInv == IInv => DecisionLocks
<1> SUFFICES ASSUME IInv, NEW n \in Honest, NEW m \in msgs, node[n].isDecided,
                    m.type = "BVB", m.src \in Stable, m.round > node[n].decidedRound
             PROVE  m.value = node[n].decidedValue
    BY DEF DecisionLocks
<1> DEFINE r == node[n].decidedRound
           v == node[n].decidedValue
           w == m.value
<1>1. /\ n \in Nodes /\ node[n] \in Instance
      /\ LocalInv(n, node[n], input[n], coin) /\ HeardBy(n, node[n], msgs)
      /\ Sent(n, node[n]) \subseteq msgs
    BY NodeClasses DEF IInv, LocalInvs, LocalInv, Heard, SentAll
<1>2. r \in Rounds /\ v \in Values
    BY <1>1 DEF Instance
<1>3. coin[r] = v /\ IsTwoThird(Cardinality(node[n].auxVotes[r][v]))
    BY <1>1 DEF LocalInv, LocalDecision
<1>4. Certified(msgs, coin, r, v)
    BY <1>1, <1>2, <1>3, VotesAreQuorum DEF Certified
<1>5. m.round \in Rounds /\ w \in Values /\ StableBVB(msgs, m.round, w)
    <2>1. m.round \in Rounds /\ w \in Values /\ m = Vote("BVB", m.src, m.round, w)
        BY MessageFacts DEF IInv
    <2> QED BY <2>1 DEF StableBVB
<1>6. r < m.round
    BY <1>2, <1>5, BoundAssumption DEF Rounds
<1> HIDE DEF r, v, w
<1>7. Unlocked(msgs, coin, r, w)
    BY <1>2, <1>5, <1>6 DEF IInv, BVBUnlocked
<1>8. coin[r] = w => w = v
    BY <1>4 DEF Certified
<1>9. QuorumAUX(msgs, r, w) => w = v
    BY <1>2, <1>4, <1>5, OneQuorum DEF Certified
<1>10. (\E q \in Rounds : q < r /\ Certified(msgs, coin, q, w)) => w = v
    BY <1>2, <1>4, <1>5, CertificatesAgree
<1> QED
    BY <1>7, <1>8, <1>9, <1>10 DEF Unlocked, v, w

LEMMA OneAUXInv == IInv => OneAUXPerRound
<1> SUFFICES ASSUME IInv, NEW m \in msgs, NEW k \in msgs, m.type = "AUX", k.type = "AUX",
                    m.src \in Stable, k.src = m.src, k.round = m.round
             PROVE  k.value = m.value
    BY DEF OneAUXPerRound
<1>1. /\ m = Vote("AUX", m.src, m.round, m.value) /\ m.round \in Rounds /\ m.value \in Values
      /\ k = Vote("AUX", m.src, m.round, k.value) /\ k.value \in Values
    BY MessageFacts DEF IInv
<1> QED
    BY <1>1, OneAUX

\* Every instance keeps its ranges, for every number of nodes and rounds.
THEOREM TypeCorrect == Spec => []TypeOK
<1>1. IInv => TypeOK
    BY DEF IInv
<1> QED BY <1>1, Invariance, PTL

\* No two honest nodes report different values to their BlockConsensusAgents,
\* for every N, every fault set below N/3, every coin and message order.
THEOREM AgreementHolds == Spec => []Agreement
<1> QED BY Invariance, AgreementInv, PTL

\* A reported value is the input of a stable node.
THEOREM ValidityHolds == Spec => []Validity
<1> QED BY Invariance, ValidityInv, PTL

\* A decision in round r rules out votes for the other value after r.
THEOREM DecisionLocksHolds == Spec => []DecisionLocks
<1> QED BY Invariance, DecisionLocksInv, PTL

\* A stable node sends one AUX value per round.
THEOREM OneAUXHolds == Spec => []OneAUXPerRound
<1> QED BY Invariance, OneAUXInv, PTL

-----------------------------------------------------------------------------
(* Refinement.                                                             *)

Proposed == {n \in Stable : node[n].started}

\* A handler of n is a step of the promise: n itself may have proposed and
\* decided in it, and the value was proposed by another node before.
LEMMA HandledRefines ==
    ASSUME IInv, NEW n \in Honest, NEW t, GoodHandler(n, t), Agreement'
    PROVE  Promise!Step(n)
<1> SUFFICES ASSUME LocalInv(n, t, input[n], coin), HeardBy(n, t, msgs),
                    node[n].started => t.started, Handled(n, t)
             PROVE  Promise!Step(n)
    BY DEF GoodHandler
<1>0. /\ node' = [node EXCEPT ![n] = t] /\ input' = input
      /\ decisions' = decisions \cup Reported(n, t)
      /\ n \in Nodes /\ node \in [Honest -> Instance] /\ t \in Instance
    BY NodeClasses DEF Handled, IInv, TypeOK, LocalInv
<1>1. Proposed' \in {Proposed, Proposed \cup ({n} \cap Stable)}
    <2>1. node'[n] = t /\ \A p \in Honest : p # n => node'[p] = node[p]
        BY <1>0
    <2>2. \A p \in Stable : p # n => (node'[p].started <=> node[p].started)
        BY <2>1, NodeClasses
    <2>3. n \in Stable => (node'[n].started <=> t.started)
        BY <2>1
    <2>4. CASE n \in Stable /\ t.started
        BY <2>2, <2>3, <2>4 DEF Proposed
    <2>5. CASE ~(n \in Stable /\ t.started)
        BY <2>2, <2>3, <2>5 DEF Proposed
    <2> QED BY <2>4, <2>5
<1>2. ASSUME t.isDecided
      PROVE  \E v \in {0, 1} : Promise!Report(n, v)
    <2> DEFINE d == t.decidedRound
               v == t.decidedValue
    <2>1. d \in Rounds /\ v \in Values /\ t.auxVotes \in [Rounds -> [Values -> SUBSET Nodes]]
        BY <1>0 DEF Instance
    <2>2. IsTwoThird(Cardinality(t.auxVotes[d][v]))
        BY <1>2 DEF LocalInv, LocalDecision
    <2>3. decisions' = decisions \cup {[node |-> n, value |-> v]}
        BY <1>0, <1>2 DEF Reported
    <2> HIDE DEF d, v
    <2>4. t.auxVotes[d][v] \in SUBSET Nodes
        BY <2>1
    <2>5. PICK x \in t.auxVotes[d][v] \ {n} : x \in Stable
        BY <2>2, <2>4, QuorumWithoutOne, ThirdHasStable
    <2>6. Vote("AUX", x, d, v) \in msgs
        BY <2>1, <2>5 DEF HeardBy
    <2>7. \E p \in Proposed : input[p] = v
        BY <2>1, <2>5, <2>6, AUXHasBVB DEF IInv, BVBValid, Proposed
    <2>8. \A e \in decisions : e.value = v
        <3>1. [node |-> n, value |-> v] \in decisions'
            BY <2>3
        <3> QED BY <2>3, <3>1 DEF Agreement
    <2>9. Promise!Report(n, v)
        BY <2>3, <2>7, <2>8 DEF Promise!Report, Promise!Allowed, Proposed
    <2> QED
        BY <2>1, <2>9 DEF Values
<1>3. ~t.isDecided => decisions' = decisions
    BY <1>0 DEF Reported
<1> QED
    BY <1>0, <1>1, <1>2, <1>3 DEF Promise!Step, Proposed

\* A step of the protocol is a step of the promise or leaves it alone.
LEMMA StepRefines ==
    ASSUME IInv, [Next]_vars
    PROVE  [Promise!Next]_<<input, Proposed, decisions>>
<1>1. Agreement'
    <2>1. IInv'
        BY NextInv
    <2> QED
        BY <2>1, AgreementInv, PTL
<1>2. CASE UNCHANGED vars
    BY <1>2 DEF vars, Proposed
<1>3. ASSUME NEW n \in Honest, Propose(n)
      PROVE  Promise!Step(n)
    BY <1>1, <1>3, ProposeHandler, HandledRefines
<1>4. ASSUME NEW n \in Honest, NEW m \in msgs \cup ByzMessages, Receive(n, m)
      PROVE  Promise!Step(n)
    BY <1>1, <1>4, ReceiveHandler, HandledRefines
<1>5. ASSUME NEW n \in Honest, Restart(n)
      PROVE  UNCHANGED <<input, Proposed, decisions>>
    <2>1. n \notin Stable /\ node' = [node EXCEPT ![n] = NewInstance]
        BY <1>5 DEF Restart, Stable
    <2>2. \A p \in Stable : node'[p] = node[p]
        BY <2>1, NodeClasses DEF IInv, TypeOK
    <2>3. Proposed' = Proposed
        BY <2>2 DEF Proposed
    <2> QED BY <1>5, <2>3 DEF Restart
<1> QED
    BY <1>2, <1>3, <1>4, <1>5 DEF Next, Promise!Next

\* BinConsensus implements what BlockConsensusAgent relies on.
THEOREM Refinement == Spec => ImplementsAgreement
<1>1. Init => Promise!Init
    BY InputAssumption DEF Init, Promise!Init, Values, NewInstance, Stable, Honest
<1>2. IInv /\ [Next]_vars => [Promise!Next]_<<input, Proposed, decisions>>
    BY StepRefines
<1> QED
    BY <1>1, <1>2, Invariance, PTL DEF Spec, ImplementsAgreement, Promise!Spec, Proposed

=============================================================================
