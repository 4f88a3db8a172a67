------------------------ MODULE BlockConsensusProofs -------------------------
(***************************************************************************)
(* Proofs about BlockConsensus for every number of nodes with fewer than a *)
(* third faulty or restarted, every set of proven proposals and everything *)
(* that the Byzantine nodes sign.                                          *)
(*                                                                         *)
(* The argument: the binary consensuses never report both values, so two   *)
(* winners that scans of partial decisions find are the same (Justified).  *)
(* Every committed block has a threshold signature, and every threshold    *)
(* signature holds a share of an honest node (SignedByHonest).  A proposer *)
(* wins only when a stable node had its proof in its vector, and a stable  *)
(* node keeps the proposals of its vector until it commits (HeldInv).      *)
(* Hence every step commits nothing, or at one node the one block that the *)
(* shares allow: BlockConsensus implements BlockAgreement.                 *)
(***************************************************************************)
EXTENDS BlockConsensus, FiniteSetTheorems, TLAPS

\* The binary consensus on p has reported v somewhere.
Reported(p, v) == \E d \in decided[p] : d.value = v

DecisionsAgree == \A p \in Nodes : ~(Reported(p, 0) /\ Reported(p, 1))

\* A stable node has proposed every decision that was reported.
OneBacked ==
    \A p \in Nodes : Reported(p, 1) => \E m \in Stable : \E v \in vectors[m] : p \in v

ZeroBacked ==
    \A p \in Nodes : Reported(p, 0) =>
        \E m \in Stable : agent[m].started /\ \A v \in vectors[m] : p \notin v

AgentDecisions ==
    \A n \in Honest :
        /\ \A p \in agent[n].trueDecisions : Reported(p, 1)
        /\ \A p \in agent[n].falseDecisions : Reported(p, 0)

\* The reported decisions make i the winner.
Justified(i) ==
    \/ i = 0 /\ \A p \in Nodes : Reported(p, 0)
    \/ \E k \in 0 .. N - 1 :
        /\ i = ProposerAt(k)
        /\ Reported(ProposerAt(k), 1)
        /\ \A j \in 0 .. k - 1 : Reported(ProposerAt(j), 0)

SharesJustified == \A s \in shares : Justified(s.index)

DecisionInv ==
    DecisionsAgree /\ OneBacked /\ ZeroBacked /\ AgentDecisions /\ SharesJustified

\* A consensus is started with a saved vector, and a completed vector that is
\* not saved yet holds proofs of the node.
StartInv ==
    \A n \in Honest :
        /\ agent[n].startPosted \/ agent[n].started => vectors[n] # {}
        /\ \A v \in agent[n].vectorReady : v \subseteq daProofs[n]

\* A stable node has what its vector promises until it commits.
HeldInv ==
    \A n \in Stable : committed[n] = None =>
        /\ \A v \in vectors[n] : v \subseteq daProofs[n]
        /\ daProofs[n] \subseteq proposals[n]

\* Nodes store shares that were sent, and only signed blocks are downloaded
\* or committed.
ShareInv ==
    /\ \A n \in Honest, i \in Indices : \A q \in agent[n].sigShares[i] :
        [signer |-> q, index |-> i] \in shares \cup ByzShares
    /\ \A n \in Honest, i \in Indices :
        agent[n].downloading = i \/ committed[n] = i => Signed(i)

IInv == TypeOK /\ DecisionInv /\ StartInv /\ HeldInv /\ ShareInv

-----------------------------------------------------------------------------
(* Facts about the constants.                                              *)

LEMMA NodesFinite == IsFiniteSet(Nodes) /\ Cardinality(Nodes) = N
<1>1. 1 \in Int /\ N \in Int /\ 1 <= N
    BY NAssumption
<1> QED
    BY <1>1, FS_Interval DEF Nodes

LEMMA NoneNoIndex == None \notin Indices
BY NAssumption DEF None, Indices

\* More shares are required than there are Byzantine nodes.
LEMMA SignersOutnumber ==
    /\ RequiredSigners \in Nat
    /\ IsFiniteSet(Faulty)
    /\ Cardinality(Faulty) \in Nat
    /\ RequiredSigners > Cardinality(Faulty)
<1>1. IsFiniteSet(Faulty \cup Unstable)
    BY NodesFinite, FaultAssumption, FS_Subset DEF Honest
<1>2. IsFiniteSet(Faulty) /\ Cardinality(Faulty) <= Cardinality(Faulty \cup Unstable)
    BY <1>1, FS_Subset
<1>3. Cardinality(Faulty) \in Nat /\ Cardinality(Faulty \cup Unstable) \in Nat
    BY <1>1, <1>2, FS_CardinalityType
<1>4. 3 * Cardinality(Faulty) < N
    BY <1>2, <1>3, FaultAssumption, NAssumption
<1>5. (2 * N) \div 3 \in Nat /\ 2 * N < 3 * ((2 * N) \div 3) + 3
    BY NAssumption
<1> QED
    BY <1>2, <1>3, <1>4, <1>5, NAssumption DEF RequiredSigners

LEMMA ProposerAtType == \A k \in 0 .. N - 1 : ProposerAt(k) \in Nodes
<1>1. SeedOfBlock \in Nat
    BY BlockAssumption DEF SeedOfBlock
<1>2. SeedOfBlock % N \in 0 .. N - 1
    BY <1>1, NAssumption
<1>3. ASSUME NEW k \in 0 .. N - 1, NEW s \in 0 .. N - 1
      PROVE  (s + k) % N \in 0 .. N - 1
    BY <1>3, NAssumption
<1>4. ASSUME NEW k \in 0 .. N - 1
      PROVE  ((SeedOfBlock % N) + k) % N \in 0 .. N - 1
    BY <1>2, <1>3
<1> QED
    BY <1>4, NAssumption DEF ProposerAt, Nodes

\* The scan returns proposers, or the default block.
LEMMA WinnersType ==
    ASSUME NEW trues, NEW falses, NEW i \in Winners(trues, falses)
    PROVE  i \in Indices
BY ProposerAtType, NAssumption DEF Winners, Indices, Nodes

\* One winner can be justified.
LEMMA OneJustified ==
    ASSUME DecisionsAgree, NEW i, NEW j, Justified(i), Justified(j)
    PROVE  i = j
<1>1. CASE i = 0 /\ \A p \in Nodes : Reported(p, 0)
    BY <1>1, ProposerAtType DEF Justified, DecisionsAgree
<1>2. CASE j = 0 /\ \A p \in Nodes : Reported(p, 0)
    BY <1>2, ProposerAtType DEF Justified, DecisionsAgree
<1>3. CASE \E k, l \in 0 .. N - 1 :
            /\ i = ProposerAt(k) /\ Reported(ProposerAt(k), 1)
            /\ \A m \in 0 .. k - 1 : Reported(ProposerAt(m), 0)
            /\ j = ProposerAt(l) /\ Reported(ProposerAt(l), 1)
            /\ \A m \in 0 .. l - 1 : Reported(ProposerAt(m), 0)
    <2> PICK k \in 0 .. N - 1, l \in 0 .. N - 1 :
            /\ i = ProposerAt(k) /\ Reported(ProposerAt(k), 1)
            /\ \A m \in 0 .. k - 1 : Reported(ProposerAt(m), 0)
            /\ j = ProposerAt(l) /\ Reported(ProposerAt(l), 1)
            /\ \A m \in 0 .. l - 1 : Reported(ProposerAt(m), 0)
        BY <1>3
    <2>1. ~(k < l) /\ ~(l < k)
        BY ProposerAtType, NAssumption DEF DecisionsAgree
    <2>2. k = l
        BY <2>1, NAssumption
    <2> QED
        BY <2>2
<1> QED
    BY <1>1, <1>2, <1>3 DEF Justified

\* A threshold signature holds a share of an honest node.
LEMMA SignedByHonest ==
    ASSUME TypeOK, NEW i, Signed(i)
    PROVE  \E s \in shares : s.index = i
<1> DEFINE S == {s.signer : s \in {s \in shares \cup ByzShares : s.index = i}}
<1>1. SUFFICES ASSUME \A s \in shares : s.index # i PROVE FALSE
    OBVIOUS
<1>2. S \subseteq Faulty
    BY <1>1, ProvenAssumption
<1>3. Cardinality(S) <= Cardinality(Faulty) /\ Cardinality(S) \in Nat
    BY <1>2, SignersOutnumber, FS_Subset, FS_CardinalityType
<1>4. Cardinality(S) >= RequiredSigners
    BY DEF Signed
<1> QED
    BY <1>3, <1>4, SignersOutnumber

\* Signatures stay.
LEMMA SignedStays ==
    ASSUME TypeOK', shares \subseteq shares', NEW i, Signed(i)
    PROVE  Signed(i)'
<1> DEFINE S == {s.signer : s \in {s \in shares \cup ByzShares : s.index = i}}
           T == {s.signer : s \in {s \in shares' \cup ByzShares : s.index = i}}
<1>1. S \subseteq T
    OBVIOUS
<1>2. T \subseteq Nodes
    BY ProvenAssumption, FaultAssumption DEF TypeOK, Honest
<1>3. IsFiniteSet(T)
    BY <1>2, NodesFinite, FS_Subset
<1>4. Cardinality(S) <= Cardinality(T) /\ Cardinality(S) \in Nat /\ Cardinality(T) \in Nat
    BY <1>1, <1>3, FS_Subset, FS_CardinalityType
<1>5. Cardinality(S) >= RequiredSigners
    BY DEF Signed
<1>6. Cardinality(T) >= RequiredSigners
    BY <1>4, <1>5, SignersOutnumber
<1> QED
    BY <1>6 DEF Signed

-----------------------------------------------------------------------------
(* What most steps leave alone.                                            *)

\* A vector is saved once, from proofs that the node has.
VectorsKept ==
    \A m \in Honest :
        \/ vectors'[m] = vectors[m]
        \/ vectors[m] = {} /\ \E v \in SUBSET daProofs[m] : vectors'[m] = {v}

\* Node n gets the memory a, which knows no new decision.
QuietAgent(n, a) ==
    /\ agent' = [agent EXCEPT ![n] = a]
    /\ a.trueDecisions \subseteq agent[n].trueDecisions
    /\ a.falseDecisions \subseteq agent[n].falseDecisions
    /\ n \in Stable /\ agent[n].started => a.started
    /\ UNCHANGED decided

\* No share is sent, and n stores and downloads nothing new.
QuietShares(n, a) ==
    /\ agent' = [agent EXCEPT ![n] = a]
    /\ \A i \in Indices : a.sigShares[i] \subseteq agent[n].sigShares[i]
    /\ a.downloading \in {None, agent[n].downloading}
    /\ UNCHANGED shares

\* Proofs and proposals stay until the commit.
ProofsKept ==
    \A m \in Stable : committed'[m] = None =>
        /\ committed[m] = None
        /\ daProofs[m] \subseteq daProofs'[m]
        /\ daProofs'[m] \subseteq proposals'[m]

LEMMA QuietDecisions ==
    ASSUME IInv, VectorsKept, UNCHANGED shares,
           NEW n \in Honest, NEW a \in Agent, QuietAgent(n, a)
    PROVE  DecisionInv'
<1>1. \A p, v : Reported(p, v)' <=> Reported(p, v)
    BY DEF QuietAgent, Reported
<1>2. DecisionsAgree'
    BY <1>1 DEF IInv, DecisionInv, DecisionsAgree
<1>3. OneBacked'
    BY <1>1 DEF IInv, DecisionInv, OneBacked, VectorsKept, Stable
<1>4. ZeroBacked'
    <2> SUFFICES ASSUME NEW p \in Nodes, Reported(p, 0)
                 PROVE  \E m \in Stable : agent'[m].started /\ \A v \in vectors'[m] : p \notin v
        BY <1>1 DEF ZeroBacked
    <2>1. PICK m \in Stable : agent[m].started /\ \A v \in vectors[m] : p \notin v
        BY DEF IInv, DecisionInv, ZeroBacked
    <2>2. m \in Honest /\ vectors'[m] = vectors[m]
        BY <2>1 DEF IInv, StartInv, VectorsKept, Stable
    <2>3. agent'[m].started
        BY <2>1, <2>2 DEF QuietAgent, IInv, TypeOK
    <2> QED
        BY <2>1, <2>2, <2>3
<1>5. AgentDecisions'
    BY <1>1 DEF IInv, TypeOK, DecisionInv, AgentDecisions, QuietAgent
<1>6. SharesJustified'
    BY <1>1 DEF IInv, DecisionInv, SharesJustified, Justified
<1> QED
    BY <1>2, <1>3, <1>4, <1>5, <1>6 DEF DecisionInv

LEMMA StartHolds ==
    ASSUME IInv, VectorsKept, NEW n \in Honest, NEW a \in Agent,
           agent' = [agent EXCEPT ![n] = a],
           a.startPosted \/ a.started => vectors'[n] # {},
           \A m \in Honest : daProofs[m] \subseteq daProofs'[m],
           \A v \in a.vectorReady : v \subseteq daProofs'[n]
    PROVE  StartInv'
BY DEF IInv, TypeOK, StartInv, VectorsKept

LEMMA HeldHolds ==
    ASSUME IInv, VectorsKept, ProofsKept
    PROVE  HeldInv'
BY DEF IInv, HeldInv, VectorsKept, ProofsKept, Stable

\* Node n stores, downloads or commits what was signed.
LEMMA SharesHold ==
    ASSUME IInv, TypeOK', shares \subseteq shares', NEW n \in Honest, NEW a \in Agent,
           agent' = [agent EXCEPT ![n] = a],
           \A i \in Indices : \A q \in a.sigShares[i] :
               q \in agent[n].sigShares[i] \/ [signer |-> q, index |-> i] \in shares' \cup ByzShares,
           \/ a.downloading \in {None, agent[n].downloading}
           \/ \E i \in Indices : a.downloading = i /\ Signed(i)',
           \A m \in Honest :
               committed'[m] = committed[m] \/ \E i \in Indices : committed'[m] = i /\ Signed(i)'
    PROVE  ShareInv'
<1>1. \A m \in Honest, i \in Indices : \A q \in agent'[m].sigShares[i] :
        [signer |-> q, index |-> i] \in shares' \cup ByzShares
    BY DEF IInv, TypeOK, ShareInv
<1>2. \A i \in Indices : Signed(i) => Signed(i)'
    BY SignedStays
<1>3. ASSUME NEW m \in Honest, NEW i \in Indices, agent[m].downloading = i
      PROVE  Signed(i)'
    BY <1>2, <1>3, NoneNoIndex DEF IInv, ShareInv
<1>4. ASSUME NEW m \in Honest, NEW i \in Indices, committed[m] = i
      PROVE  Signed(i)'
    BY <1>2, <1>4, NoneNoIndex DEF IInv, ShareInv
<1>5. ASSUME NEW m \in Honest, NEW i \in Indices, agent'[m].downloading = i
      PROVE  Signed(i)'
    <2>1. CASE m = n
        BY <1>3, <1>5, <2>1, NoneNoIndex DEF IInv, TypeOK
    <2>2. CASE m # n
        BY <1>3, <1>5, <2>2 DEF IInv, TypeOK
    <2> QED
        BY <2>1, <2>2
<1>6. ASSUME NEW m \in Honest, NEW i \in Indices, committed'[m] = i
      PROVE  Signed(i)'
    BY <1>4, <1>6
<1> QED
    BY <1>1, <1>5, <1>6 DEF ShareInv

LEMMA QuietSharesHold ==
    ASSUME IInv, TypeOK', NEW n \in Honest, NEW a \in Agent, QuietShares(n, a),
           \A m \in Honest :
               committed'[m] = committed[m] \/ \E i \in Indices : committed'[m] = i /\ Signed(i)'
    PROVE  ShareInv'
<1>1. \A i \in Indices : \A q \in a.sigShares[i] : q \in agent[n].sigShares[i]
    BY DEF QuietShares
<1> QED
    BY <1>1, SharesHold DEF QuietShares

-----------------------------------------------------------------------------
(* The invariant holds initially and is preserved by every action.         *)

LEMMA NewAgentType == NewAgent \in Agent
BY DEF NewAgent, Agent

LEMMA InitHolds == Init => IInv
<1> SUFFICES ASSUME Init PROVE IInv
    OBVIOUS
<1>1. TypeOK
    BY NewAgentType, BlockAssumption DEF Init, TypeOK, Honest
<1>2. \A p \in Nodes : \A v : ~Reported(p, v)
    BY DEF Init, Reported
<1>3. DecisionInv
    BY <1>2 DEF Init, DecisionInv, DecisionsAgree, OneBacked, ZeroBacked, AgentDecisions,
                SharesJustified, NewAgent
<1>4. StartInv /\ HeldInv
    BY DEF Init, StartInv, HeldInv, NewAgent, Stable
<1>5. ShareInv
    BY NoneNoIndex DEF Init, ShareInv, NewAgent
<1> QED
    BY <1>1, <1>3, <1>4, <1>5 DEF IInv

\* A proposal arrives.
LEMMA ProposedHolds ==
    ASSUME IInv, NEW n \in Honest, NEW p \in Nodes, ProposedBlockArrived(n, p)
    PROVE  IInv'
<1>1. TypeOK'
    BY DEF IInv, TypeOK, ProposedBlockArrived
<1>2. agent[n] \in Agent /\ agent = [agent EXCEPT ![n] = agent[n]]
    BY DEF IInv, TypeOK
<1>3. VectorsKept /\ UNCHANGED shares
    BY DEF VectorsKept, ProposedBlockArrived
<1>4. QuietAgent(n, agent[n]) /\ QuietShares(n, agent[n])
    BY <1>2 DEF QuietAgent, QuietShares, ProposedBlockArrived
<1>5. ProofsKept
    BY DEF IInv, TypeOK, HeldInv, ProofsKept, ProposedBlockArrived, Stable
<1>6. StartInv'
    BY DEF IInv, StartInv, ProposedBlockArrived
<1>7. ShareInv'
    BY <1>1, <1>2, <1>4, QuietSharesHold DEF ProposedBlockArrived
<1> QED
    BY <1>1, <1>2, <1>3, <1>4, <1>5, <1>6, <1>7, QuietDecisions, HeldHolds DEF IInv

\* A proof arrives.
LEMMA ProofHolds ==
    ASSUME IInv, NEW n \in Honest, NEW p \in Nodes, DAProofArrived(n, p)
    PROVE  IInv'
<1> DEFINE ready == CompletedVector(daProofs[n] \cup {p}, agent[n].vectorReady)
           a == [agent[n] EXCEPT !.vectorReady = ready]
<1>0. /\ daProofs'[n] = daProofs[n] \cup {p}
      /\ \A m \in Honest : daProofs[m] \subseteq daProofs'[m]
    BY DEF IInv, TypeOK, DAProofArrived
<1>1. /\ a \in Agent /\ agent' = [agent EXCEPT ![n] = a]
      /\ \A v \in ready : v \subseteq daProofs'[n]
    <2>1. agent[n] \in Agent /\ agent[n].vectorReady \in SUBSET SUBSET Proven
        BY DEF IInv, TypeOK, Agent
    <2>2. daProofs[n] \cup {p} \in SUBSET Proven
        BY DEF IInv, TypeOK, DAProofArrived
    <2>3. ready \in SUBSET SUBSET Proven
        BY <2>1, <2>2 DEF CompletedVector
    <2>4. \A v \in ready : v \subseteq daProofs'[n]
        BY <1>0 DEF IInv, StartInv, CompletedVector
    <2>5. agent' = [agent EXCEPT ![n] = a]
        BY DEF DAProofArrived
    <2> HIDE DEF ready
    <2>6. \A x \in Agent, r \in SUBSET SUBSET Proven : [x EXCEPT !.vectorReady = r] \in Agent
        BY DEF Agent
    <2> QED
        BY <2>1, <2>3, <2>4, <2>5, <2>6
<1> HIDE DEF ready
<1>2. TypeOK'
    BY <1>1 DEF IInv, TypeOK, DAProofArrived
<1>3. VectorsKept /\ UNCHANGED shares
    BY DEF VectorsKept, DAProofArrived
<1>4. QuietAgent(n, a) /\ QuietShares(n, a)
    BY <1>1 DEF IInv, TypeOK, Agent, QuietAgent, QuietShares, DAProofArrived
<1>5. ProofsKept
    BY DEF IInv, TypeOK, HeldInv, ProofsKept, DAProofArrived, Stable
<1>6. /\ a.startPosted = agent[n].startPosted
      /\ a.started = agent[n].started
      /\ a.vectorReady = ready
    BY DEF IInv, TypeOK, Agent
<1> HIDE DEF a
<1>7. StartInv'
    <2>1. a.startPosted \/ a.started => vectors'[n] # {}
        BY <1>6 DEF IInv, StartInv, DAProofArrived
    <2> QED
        BY <1>0, <1>1, <1>3, <1>6, <2>1, StartHolds
<1>8. ShareInv'
    BY <1>1, <1>2, <1>4, QuietSharesHold DEF DAProofArrived
<1> QED
    BY <1>1, <1>2, <1>3, <1>4, <1>5, <1>7, <1>8, QuietDecisions, HeldHolds DEF IInv

\* A vector is saved and the consensus posted, after a proof or a timeout.
LEMMA TryStartingHolds ==
    ASSUME IInv, NEW n \in Honest, NEW vector \in SUBSET daProofs[n], NEW a \in Agent,
           \E ready \in {{}, agent[n].vectorReady} :
               a = [agent[n] EXCEPT !.vectorReady = ready],
           TryStartingConsensus(n, vector, a)
    PROVE  IInv'
<1> DEFINE b == [a EXCEPT !.startPosted = @ \/ (vectors[n] = {} /\ committed[n] = None)]
<1>1. b \in Agent /\ agent' = [agent EXCEPT ![n] = b]
    BY DEF Agent, TryStartingConsensus
<1>2. /\ b.trueDecisions = agent[n].trueDecisions
      /\ b.falseDecisions = agent[n].falseDecisions
      /\ b.sigShares = agent[n].sigShares
      /\ b.downloading = agent[n].downloading
      /\ b.started = agent[n].started
      /\ b.startPosted => agent[n].startPosted \/ vectors[n] = {}
      /\ b.vectorReady \subseteq agent[n].vectorReady
    BY DEF IInv, TypeOK, Agent
<1> HIDE DEF b
<1>3. vector \subseteq Proven
    BY DEF IInv, TypeOK
<1>4. TypeOK'
    <2>1. vectors' \in [Honest -> {{}} \cup {{v} : v \in SUBSET Proven}]
        <3>1. CASE vectors[n] = {}
            BY <1>3, <3>1 DEF IInv, TypeOK, TryStartingConsensus
        <3>2. CASE vectors[n] # {}
            BY <3>2 DEF IInv, TypeOK, TryStartingConsensus
        <3> QED
            BY <3>1, <3>2
    <2> QED
        BY <1>1, <2>1 DEF IInv, TypeOK, TryStartingConsensus
<1>5. VectorsKept /\ UNCHANGED shares
    BY DEF IInv, TypeOK, VectorsKept, TryStartingConsensus
<1>6. QuietAgent(n, b) /\ QuietShares(n, b)
    BY <1>1, <1>2 DEF QuietAgent, QuietShares, TryStartingConsensus
<1>7. ProofsKept
    BY DEF IInv, HeldInv, ProofsKept, TryStartingConsensus
<1>8. vectors'[n] # {}
    BY DEF IInv, TypeOK, TryStartingConsensus
<1>9. StartInv'
    <2>1. UNCHANGED daProofs
        BY DEF TryStartingConsensus
    <2>2. \A v \in b.vectorReady : v \subseteq daProofs'[n]
        BY <1>2, <2>1 DEF IInv, StartInv
    <2> QED
        BY <1>1, <1>5, <1>8, <2>1, <2>2, StartHolds
<1>10. ShareInv'
    BY <1>1, <1>4, <1>6, QuietSharesHold DEF TryStartingConsensus
<1> QED
    BY <1>1, <1>4, <1>5, <1>6, <1>7, <1>9, <1>10, QuietDecisions, HeldHolds DEF IInv

LEMMA StartOnProofsHolds ==
    ASSUME IInv, NEW n \in Honest,
           StartConsensusOnProofs(n) \/ BlockProposalReceiptTimeoutArrived(n)
    PROVE  IInv'
<1>1. CurrentProposalVector(daProofs[n]) \in SUBSET daProofs[n]
    BY DEF CurrentProposalVector
<1>2. /\ agent[n] \in Agent
      /\ [agent[n] EXCEPT !.vectorReady = {}] \in Agent
      /\ agent[n] = [agent[n] EXCEPT !.vectorReady = agent[n].vectorReady]
    <2>1. agent[n] \in Agent
        BY DEF IInv, TypeOK
    <2>2. \A a \in Agent : [a EXCEPT !.vectorReady = {}] \in Agent
        BY DEF Agent
    <2>3. \A a \in Agent : a = [a EXCEPT !.vectorReady = a.vectorReady]
        BY DEF Agent
    <2> QED
        BY <2>1, <2>2, <2>3
<1>3. ASSUME NEW vector \in agent[n].vectorReady,
             TryStartingConsensus(n, vector, [agent[n] EXCEPT !.vectorReady = {}])
      PROVE  IInv'
    <2>1. vector \in SUBSET daProofs[n]
        BY DEF IInv, StartInv
    <2> QED
        BY <1>2, <1>3, <2>1, TryStartingHolds
<1>4. CASE TryStartingConsensus(n, CurrentProposalVector(daProofs[n]), agent[n])
    BY <1>1, <1>2, <1>4, TryStartingHolds
<1> QED
    BY <1>3, <1>4 DEF StartConsensusOnProofs, BlockProposalReceiptTimeoutArrived

\* The message thread proposes the saved vector.
LEMMA StartProposalHolds ==
    ASSUME IInv, NEW n \in Honest, StartConsensusProposal(n)
    PROVE  IInv'
<1> DEFINE a == [agent[n] EXCEPT !.startPosted = FALSE, !.started = TRUE]
<1>1. a \in Agent /\ agent' = [agent EXCEPT ![n] = a]
    <2>1. \A x \in Agent : [x EXCEPT !.startPosted = FALSE, !.started = TRUE] \in Agent
        BY DEF Agent
    <2>2. agent[n] \in Agent
        BY DEF IInv, TypeOK
    <2> QED
        BY <2>1, <2>2 DEF StartConsensusProposal, IInv, TypeOK
<1>2. /\ a.trueDecisions = agent[n].trueDecisions
      /\ a.falseDecisions = agent[n].falseDecisions
      /\ a.sigShares = agent[n].sigShares
      /\ a.downloading = agent[n].downloading
      /\ a.started
      /\ a.vectorReady = agent[n].vectorReady
    BY DEF IInv, TypeOK, Agent
<1> HIDE DEF a
<1>3. TypeOK'
    BY <1>1 DEF IInv, TypeOK, StartConsensusProposal
<1>4. VectorsKept /\ UNCHANGED shares
    BY DEF VectorsKept, StartConsensusProposal
<1>5. QuietAgent(n, a) /\ QuietShares(n, a)
    BY <1>1, <1>2 DEF QuietAgent, QuietShares, StartConsensusProposal
<1>6. ProofsKept
    BY DEF IInv, HeldInv, ProofsKept, StartConsensusProposal
<1>7. vectors'[n] # {}
    BY DEF IInv, StartInv, StartConsensusProposal
<1>8. StartInv'
    <2>1. UNCHANGED daProofs
        BY DEF StartConsensusProposal
    <2> QED
        BY <1>1, <1>2, <1>4, <1>7, <2>1, StartHolds DEF IInv, StartInv
<1>9. ShareInv'
    BY <1>1, <1>3, <1>5, QuietSharesHold DEF StartConsensusProposal
<1> QED
    BY <1>1, <1>3, <1>4, <1>5, <1>6, <1>8, <1>9, QuietDecisions, HeldHolds DEF IInv

\* A download ends, with or without a commit, and a worker ends.
LEMMA EndDownloadHolds ==
    ASSUME IInv, NEW n \in Honest, NEW a \in Agent, agent' = [agent EXCEPT ![n] = a],
           \E w \in SUBSET Nodes, d \in {None, agent[n].downloading} :
               a = [agent[n] EXCEPT !.downloading = d, !.workers = w],
           \/ UNCHANGED <<committed, proposals>>
           \/ \E i \in Indices : Signed(i) /\ Commit(n, i),
           UNCHANGED <<daProofs, vectors, decided, shares, restarts>>
    PROVE  IInv'
<1>1. /\ a.trueDecisions = agent[n].trueDecisions
      /\ a.falseDecisions = agent[n].falseDecisions
      /\ a.sigShares = agent[n].sigShares
      /\ a.downloading \in {None, agent[n].downloading}
      /\ a.started = agent[n].started
      /\ a.startPosted = agent[n].startPosted
      /\ a.vectorReady = agent[n].vectorReady
    BY DEF IInv, TypeOK, Agent
<1>2. TypeOK'
    <2>1. committed' \in [Honest -> Indices \cup {None}] /\ proposals' \in [Honest -> SUBSET Nodes]
        BY DEF IInv, TypeOK, Commit
    <2> QED
        BY <2>1 DEF IInv, TypeOK
<1>3. VectorsKept
    BY DEF VectorsKept
<1>4. QuietAgent(n, a) /\ QuietShares(n, a)
    BY <1>1 DEF QuietAgent, QuietShares
<1>5. ProofsKept
    <2>1. CASE UNCHANGED <<committed, proposals>>
        BY <2>1 DEF IInv, HeldInv, ProofsKept
    <2>2. CASE \E i \in Indices : Signed(i) /\ Commit(n, i)
        BY <2>2, NoneNoIndex DEF IInv, TypeOK, HeldInv, ProofsKept, Commit, Stable
    <2> QED
        BY <2>1, <2>2
<1>6. StartInv'
    BY <1>1, <1>3, StartHolds DEF IInv, StartInv
<1>7. \A i \in Indices : Signed(i) => Signed(i)'
    BY <1>2, SignedStays
<1>8. \A m \in Honest :
        committed'[m] = committed[m] \/ \E i \in Indices : committed'[m] = i /\ Signed(i)'
    BY <1>7 DEF IInv, TypeOK, Commit
<1>9. ShareInv'
    BY <1>2, <1>4, <1>8, QuietSharesHold
<1> QED
    BY <1>2, <1>3, <1>4, <1>5, <1>6, <1>9, QuietDecisions, HeldHolds DEF IInv

LEMMA DownloadHolds ==
    ASSUME IInv, NEW n \in Honest, Download(n)
    PROVE  IInv'
<1>1. agent[n] \in Agent
    BY DEF IInv, TypeOK
<1>2. \A x \in Agent : [x EXCEPT !.downloading = None, !.workers = {}] \in Agent
    BY DEF Agent
<1>3. \A x \in Agent, w \in SUBSET Nodes :
        /\ [x EXCEPT !.workers = w] \in Agent
        /\ [x EXCEPT !.workers = w] = [x EXCEPT !.downloading = x.downloading, !.workers = w]
    BY DEF Agent
<1>4. ASSUME NEW m \in Nodes, DownloadComplete(n, m)
      PROVE  IInv'
    <2>1. agent[n].downloading \in Indices /\ Signed(agent[n].downloading)
        BY <1>1, <1>4 DEF DownloadComplete, Free, IInv, ShareInv, Agent
    <2>2. agent' = [agent EXCEPT ![n] = [agent[n] EXCEPT !.downloading = None, !.workers = {}]]
        BY <1>4 DEF DownloadComplete, EndDownload
    <2>3. \/ UNCHANGED <<committed, proposals>>
          \/ \E i \in Indices : Signed(i) /\ Commit(n, i)
        BY <1>4, <2>1 DEF DownloadComplete
    <2> QED
        BY <1>1, <1>2, <1>4, <2>2, <2>3, EndDownloadHolds DEF DownloadComplete
<1>5. ASSUME NEW m \in Nodes, WorkerEnds(n, m)
      PROVE  IInv'
    <2> DEFINE w == agent[n].workers \ {m}
    <2>1. w \in SUBSET Nodes
        BY <1>1 DEF Agent
    <2>2. agent' = [agent EXCEPT ![n] = [agent[n] EXCEPT !.workers = w]]
        BY <1>5 DEF WorkerEnds
    <2> HIDE DEF w
    <2>3. [agent[n] EXCEPT !.workers = w] \in Agent
          /\ [agent[n] EXCEPT !.workers = w]
                = [agent[n] EXCEPT !.downloading = agent[n].downloading, !.workers = w]
        BY <1>1, <1>3, <2>1
    <2>4. UNCHANGED <<committed, proposals>> /\ UNCHANGED <<daProofs, vectors, decided, shares, restarts>>
        BY <1>5 DEF WorkerEnds
    <2> QED
        BY <2>1, <2>2, <2>3, <2>4, EndDownloadHolds
<1>6. ASSUME DownloadReturnsNull(n)
      PROVE  IInv'
    <2>1. agent' = [agent EXCEPT ![n] = [agent[n] EXCEPT !.downloading = None, !.workers = {}]]
        BY <1>6 DEF DownloadReturnsNull, EndDownload
    <2> QED
        BY <1>1, <1>2, <1>6, <2>1, EndDownloadHolds DEF DownloadReturnsNull
<1> QED
    BY <1>4, <1>5, <1>6 DEF Download

\* Catchup brings a block that another node has committed, or a Byzantine
\* node a signed one.
LEMMA CatchupHolds ==
    ASSUME IInv, NEW n \in Honest, BlockCommitsArrivedThroughCatchup(n)
    PROVE  IInv'
<1>1. PICK i \in Indices :
        /\ \/ \E m \in Honest : committed[m] = i
           \/ Faulty # {} /\ Signed(i)
        /\ Commit(n, i)
    BY DEF BlockCommitsArrivedThroughCatchup
<1>2. Signed(i)
    BY <1>1 DEF IInv, ShareInv
<1>3. agent[n] \in Agent /\ agent' = [agent EXCEPT ![n] = agent[n]]
    BY DEF IInv, TypeOK, BlockCommitsArrivedThroughCatchup
<1>4. \A x \in Agent : x.workers \in SUBSET Nodes
        /\ x = [x EXCEPT !.downloading = x.downloading, !.workers = x.workers]
    BY DEF Agent
<1>5. agent[n].workers \in SUBSET Nodes
      /\ agent[n] = [agent[n] EXCEPT !.downloading = agent[n].downloading,
                                     !.workers = agent[n].workers]
    BY <1>3, <1>4
<1>6. UNCHANGED <<daProofs, vectors, decided, shares, restarts>>
    BY DEF BlockCommitsArrivedThroughCatchup
<1> QED
    BY <1>1, <1>2, <1>3, <1>5, <1>6, EndDownloadHolds

LEMMA RestartHolds ==
    ASSUME IInv, NEW n \in Honest, Restart(n)
    PROVE  IInv'
<1> DEFINE posted == vectors[n] # {} /\ committed[n] = None
           a == [NewAgent EXCEPT !.startPosted = posted]
<1>1. a \in Agent
    <2>1. posted \in BOOLEAN
        OBVIOUS
    <2>2. \A x \in Agent, b \in BOOLEAN : [x EXCEPT !.startPosted = b] \in Agent
        BY DEF Agent
    <2> HIDE DEF posted
    <2> QED
        BY <2>1, <2>2, NewAgentType
<1>2. /\ a.trueDecisions = {}
      /\ a.falseDecisions = {}
      /\ a.sigShares = [i \in Indices |-> {}]
      /\ a.downloading = None
      /\ ~a.started
      /\ a.startPosted => vectors[n] # {}
      /\ a.vectorReady = {}
    BY DEF NewAgent
<1>3. agent' = [agent EXCEPT ![n] = a]
    BY DEF Restart
<1> HIDE DEF a
<1>4. TypeOK'
    <2>1. restarts' \in 0 .. MaxRestarts
        BY BlockAssumption DEF IInv, TypeOK, Restart
    <2>2. agent' \in [Honest -> Agent]
        BY <1>1, <1>3 DEF IInv, TypeOK
    <2>3. proposals' \in [Honest -> SUBSET Nodes]
        BY DEF IInv, TypeOK, Restart
    <2> QED
        BY <2>1, <2>2, <2>3 DEF IInv, TypeOK, Restart
<1>5. VectorsKept /\ UNCHANGED shares
    BY DEF VectorsKept, Restart
<1>6. QuietAgent(n, a) /\ QuietShares(n, a)
    BY <1>1, <1>2, <1>3 DEF QuietAgent, QuietShares, Restart, Stable
<1>7. ProofsKept
    BY DEF IInv, TypeOK, HeldInv, ProofsKept, Restart, Stable
<1>8. StartInv'
    BY <1>1, <1>2, <1>3, <1>5, StartHolds DEF Restart
<1>9. ShareInv'
    BY <1>1, <1>4, <1>6, QuietSharesHold DEF Restart
<1> QED
    BY <1>1, <1>4, <1>5, <1>6, <1>7, <1>8, <1>9, QuietDecisions, HeldHolds DEF IInv

-----------------------------------------------------------------------------
(* Shares and decisions.                                                   *)

\* The memory b of n after it has stored a share, and what it has committed.
ShareStored(n, a, b) ==
    /\ agent' = [agent EXCEPT ![n] = b]
    /\ b.trueDecisions = a.trueDecisions
    /\ b.falseDecisions = a.falseDecisions
    /\ b.started = a.started
    /\ b.startPosted = a.startPosted
    /\ b.vectorReady = a.vectorReady
    /\ \A i \in Indices : \A q \in b.sigShares[i] :
        q \in a.sigShares[i] \/ [signer |-> q, index |-> i] \in shares' \cup ByzShares
    /\ \/ b.downloading = a.downloading
       \/ \E i \in Indices : b.downloading = i /\ Signed(i)'
    /\ \/ UNCHANGED <<committed, proposals>>
       \/ \E i \in Indices : Signed(i)' /\ Commit(n, i)

\* The share that completes a set makes a signature.
LEMMA CompletesSigned ==
    ASSUME NEW n \in Honest, NEW a \in Agent, NEW signer \in Nodes, NEW i \in Indices,
           shares' \subseteq [signer : Honest, index : Indices],
           [signer |-> signer, index |-> i] \in shares' \cup ByzShares,
           \A q \in a.sigShares[i] : [signer |-> q, index |-> i] \in shares' \cup ByzShares,
           Completes(a, signer, i)
    PROVE  Signed(i)'
<1> DEFINE S == a.sigShares[i] \cup {signer}
           T == {s.signer : s \in {s \in shares' \cup ByzShares : s.index = i}}
<1>1. S \subseteq T
    <2> SUFFICES ASSUME NEW q \in S PROVE q \in T
        OBVIOUS
    <2> DEFINE s == [signer |-> q, index |-> i]
    <2>1. s \in shares' \cup ByzShares /\ s.index = i /\ s.signer = q
        OBVIOUS
    <2> HIDE DEF s
    <2> QED
        BY <2>1
<1>2. T \subseteq Nodes
    BY ProvenAssumption, FaultAssumption DEF Honest
<1>3. IsFiniteSet(T)
    BY <1>2, NodesFinite, FS_Subset
<1>4. a.sigShares[i] \subseteq Nodes
    BY DEF Agent
<1>5. IsFiniteSet(a.sigShares[i])
    BY <1>4, NodesFinite, FS_Subset
<1>6. Cardinality(S) = Cardinality(a.sigShares[i]) + 1
    BY <1>5, FS_AddElement DEF Completes
<1>7. Cardinality(S) <= Cardinality(T) /\ Cardinality(T) \in Nat
    BY <1>1, <1>3, FS_Subset, FS_CardinalityType
<1>8. Cardinality(T) >= RequiredSigners
    BY <1>5, <1>6, <1>7, FS_CardinalityType DEF Completes
<1> QED
    BY <1>8 DEF Signed

LEMMA SaveShareStores ==
    ASSUME NEW n \in Honest, NEW a \in Agent, NEW signer \in Nodes, NEW i \in Indices,
           shares' \subseteq [signer : Honest, index : Indices],
           [signer |-> signer, index |-> i] \in shares' \cup ByzShares,
           \A q \in a.sigShares[i] : [signer |-> q, index |-> i] \in shares' \cup ByzShares,
           SaveShareAndFinalize(n, a, signer, i)
    PROVE  \E b \in Agent : ShareStored(n, a, b)
<1> DEFINE b == CheckAndSaveShareInMemory(a, signer, i)
           c == [b EXCEPT !.downloading = i, !.workers = Nodes \ {n}]
<1>1. b \in Agent
    <2>1. Completes(a, signer, i) \in BOOLEAN
        BY DEF Completes
    <2>2. ASSUME NEW done \in BOOLEAN
          PROVE  [a EXCEPT !.sigShares[i] = @ \cup {signer}, !.alreadySigned = done] \in Agent
        BY DEF Agent
    <2> QED
        BY <2>1, <2>2 DEF CheckAndSaveShareInMemory
<1>2. /\ b.trueDecisions = a.trueDecisions
      /\ b.falseDecisions = a.falseDecisions
      /\ b.started = a.started
      /\ b.startPosted = a.startPosted
      /\ b.vectorReady = a.vectorReady
      /\ b.downloading = a.downloading
    BY DEF CheckAndSaveShareInMemory, Agent
<1>3. \A j \in Indices : \A q \in b.sigShares[j] :
        q \in a.sigShares[j] \/ [signer |-> q, index |-> j] \in shares' \cup ByzShares
    BY DEF CheckAndSaveShareInMemory, Agent
<1> HIDE DEF b
<1>4. /\ c \in Agent
      /\ c.trueDecisions = b.trueDecisions
      /\ c.falseDecisions = b.falseDecisions
      /\ c.started = b.started
      /\ c.startPosted = b.startPosted
      /\ c.vectorReady = b.vectorReady
      /\ c.sigShares = b.sigShares
      /\ c.downloading = i
    BY <1>1 DEF Agent
<1> HIDE DEF c
<1>5. CASE ~Completes(a, signer, i)
    <2>1. agent' = [agent EXCEPT ![n] = b] /\ UNCHANGED <<committed, proposals>>
        BY <1>5 DEF SaveShareAndFinalize, b
    <2>2. ShareStored(n, a, b)
        BY <1>2, <1>3, <2>1 DEF ShareStored
    <2> QED
        BY <1>1, <2>2
<1>6. CASE Completes(a, signer, i)
    <2>1. Signed(i)'
        BY <1>6, CompletesSigned
    <2>2. FinalizeDecidedAndSignedBlock(n, b, i)
        BY <1>6 DEF SaveShareAndFinalize, b
    <2>3. CASE agent' = [agent EXCEPT ![n] = b] /\ Commit(n, i)
        <3>1. ShareStored(n, a, b)
            BY <1>2, <1>3, <2>1, <2>3 DEF ShareStored
        <3> QED
            BY <1>1, <3>1
    <2>4. CASE agent' = [agent EXCEPT ![n] = c] /\ UNCHANGED <<committed, proposals>>
        <3>1. ShareStored(n, a, c)
            BY <1>2, <1>3, <1>4, <2>1, <2>4 DEF ShareStored
        <3> QED
            BY <1>4, <3>1
    <2>5. CASE agent' = [agent EXCEPT ![n] = b] /\ UNCHANGED <<committed, proposals>>
        <3>1. ShareStored(n, a, b)
            BY <1>2, <1>3, <2>5 DEF ShareStored
        <3> QED
            BY <1>1, <3>1
    <2> QED
        BY <2>2, <2>3, <2>4, <2>5 DEF FinalizeDecidedAndSignedBlock, c
<1> QED
    BY <1>5, <1>6

LEMMA StoredKeeps ==
    ASSUME IInv, NEW n \in Honest, NEW a, NEW b \in Agent, ShareStored(n, a, b),
           decided' \in [Nodes -> SUBSET [node : Honest, value : {0, 1}]],
           shares' \subseteq [signer : Honest, index : Indices],
           UNCHANGED <<daProofs, vectors, restarts>>
    PROVE  TypeOK' /\ ProofsKept
<1>1. CASE UNCHANGED <<committed, proposals>>
    BY <1>1 DEF IInv, TypeOK, HeldInv, ProofsKept, ShareStored
<1>2. CASE \E i \in Indices : Commit(n, i)
    <2>1. committed' \in [Honest -> Indices \cup {None}] /\ proposals' \in [Honest -> SUBSET Nodes]
        BY <1>2 DEF IInv, TypeOK, Commit
    <2>2. TypeOK'
        BY <2>1 DEF IInv, TypeOK, ShareStored
    <2>3. ProofsKept
        BY <1>2, NoneNoIndex DEF IInv, TypeOK, HeldInv, ProofsKept, Commit, Stable
    <2> QED
        BY <2>2, <2>3
<1> QED
    BY <1>1, <1>2 DEF ShareStored

LEMMA StoredShares ==
    ASSUME IInv, TypeOK', shares \subseteq shares', NEW n \in Honest, NEW a \in Agent,
           NEW b \in Agent, ShareStored(n, a, b),
           a.sigShares = agent[n].sigShares, a.downloading = agent[n].downloading
    PROVE  ShareInv'
<1>1. \A m \in Honest :
        committed'[m] = committed[m] \/ \E i \in Indices : committed'[m] = i /\ Signed(i)'
    <2>1. CASE UNCHANGED <<committed, proposals>>
        BY <2>1
    <2>2. CASE \E i \in Indices : Signed(i)' /\ Commit(n, i)
        BY <2>2 DEF IInv, TypeOK, Commit
    <2> QED
        BY <2>1, <2>2 DEF ShareStored
<1>2. /\ agent' = [agent EXCEPT ![n] = b]
      /\ \A i \in Indices : \A q \in b.sigShares[i] :
            q \in agent[n].sigShares[i] \/ [signer |-> q, index |-> i] \in shares' \cup ByzShares
      /\ \/ b.downloading \in {None, agent[n].downloading}
         \/ \E i \in Indices : b.downloading = i /\ Signed(i)'
    BY DEF ShareStored
<1> QED
    BY <1>1, <1>2, SharesHold

\* A share arrives from another node.
LEMMA BlockSignHolds ==
    ASSUME IInv, NEW n \in Honest, NEW s \in shares \cup ByzShares,
           ProcessBlockSignMessage(n, s)
    PROVE  IInv'
<1>1. s.signer \in Nodes /\ s.index \in Indices /\ s = [signer |-> s.signer, index |-> s.index]
    BY ProvenAssumption, FaultAssumption DEF IInv, TypeOK, Honest
<1>2. agent[n] \in Agent
    BY DEF IInv, TypeOK
<1>3. UNCHANGED <<daProofs, vectors, decided, shares, restarts>>
    BY DEF ProcessBlockSignMessage
<1>4. shares' \subseteq [signer : Honest, index : Indices]
    BY <1>3 DEF IInv, TypeOK
<1>5. \A q \in agent[n].sigShares[s.index] :
        [signer |-> q, index |-> s.index] \in shares' \cup ByzShares
    BY <1>1, <1>3 DEF IInv, ShareInv
<1>6. SaveShareAndFinalize(n, agent[n], s.signer, s.index)
    BY DEF ProcessBlockSignMessage
<1>7. PICK b \in Agent : ShareStored(n, agent[n], b)
    BY <1>1, <1>2, <1>3, <1>4, <1>5, <1>6, SaveShareStores
<1>8. VectorsKept /\ QuietAgent(n, b)
    BY <1>3, <1>7 DEF VectorsKept, QuietAgent, ShareStored
<1>9. TypeOK' /\ ProofsKept
    <2>1. decided' \in [Nodes -> SUBSET [node : Honest, value : {0, 1}]]
        BY <1>3 DEF IInv, TypeOK
    <2> QED
        BY <1>3, <1>4, <1>7, <2>1, StoredKeeps
<1>10. StartInv'
    BY <1>3, <1>7, <1>8, StartHolds DEF IInv, StartInv, ShareStored
<1>11. ShareInv'
    BY <1>2, <1>3, <1>7, <1>9, StoredShares
<1> QED
    BY <1>3, <1>8, <1>9, <1>10, <1>11, QuietDecisions, HeldHolds DEF IInv

\* The decisions after a report of v by the binary consensus on p.
LEMMA ReportedHolds ==
    ASSUME IInv, NEW n \in Honest, NEW p \in Nodes, NEW v \in {0, 1},
           Bin(p)!Allowed(v),
           decided' = [decided EXCEPT ![p] = @ \cup {[node |-> n, value |-> v]}],
           UNCHANGED vectors,
           \A m \in Honest : agent'[m].started = agent[m].started
    PROVE  /\ \A q \in Nodes : \A u : Reported(q, u)' <=> Reported(q, u) \/ (q = p /\ u = v)
           /\ DecisionsAgree' /\ OneBacked' /\ ZeroBacked'
<1>1. ASSUME NEW q \in Nodes, NEW u
      PROVE  Reported(q, u)' <=> Reported(q, u) \/ (q = p /\ u = v)
    <2> DEFINE d == [node |-> n, value |-> v]
    <2>1. d.value = v
        OBVIOUS
    <2>2. decided' = [decided EXCEPT ![p] = decided[p] \cup {d}]
        OBVIOUS
    <2> HIDE DEF d
    <2>3. CASE q = p
        <3>1. decided'[q] = decided[q] \cup {d}
            BY <2>2, <2>3 DEF IInv, TypeOK
        <3> QED
            BY <2>1, <2>3, <3>1 DEF Reported
    <2>4. CASE q # p
        <3>1. decided'[q] = decided[q]
            BY <2>2, <2>4 DEF IInv, TypeOK
        <3> QED
            BY <2>4, <3>1 DEF Reported
    <2> QED
        BY <2>3, <2>4
<1>2. \A d \in decided[p] : d.value = v
    BY DEF Bin!Allowed
<1>3. PICK m \in Stable :
        /\ agent[m].started
        /\ (IF \E w \in vectors[m] : p \in w THEN 1 ELSE 0) = v
    BY DEF Bin!Allowed, Stable
<1>4. DecisionsAgree'
    BY <1>1, <1>2 DEF DecisionsAgree, Reported, IInv, DecisionInv
<1>5. OneBacked'
    BY <1>1, <1>3 DEF OneBacked, IInv, DecisionInv
<1>6. ZeroBacked'
    BY <1>1, <1>3 DEF ZeroBacked, IInv, DecisionInv, Stable
<1> QED
    BY <1>1, <1>4, <1>5, <1>6

\* The scan of what n knows finds only what the decisions justify.
LEMMA WinnersJustified ==
    ASSUME NEW trues, NEW falses, NEW i \in Winners(trues, falses),
           \A q \in trues : Reported(q, 1)', \A q \in falses : Reported(q, 0)'
    PROVE  Justified(i)'
<1>1. CASE trues = {}
    BY <1>1 DEF Winners, Justified
<1>2. CASE trues # {}
    <2>1. PICK k \in 0 .. N - 1 :
            /\ i = ProposerAt(k)
            /\ ProposerAt(k) \in trues
            /\ \A j \in 0 .. k - 1 : ProposerAt(j) \notin trues /\ ProposerAt(j) \in falses
        BY <1>2 DEF Winners
    <2>2. Reported(ProposerAt(k), 1)' /\ \A j \in 0 .. k - 1 : Reported(ProposerAt(j), 0)'
        BY <2>1
    <2> QED
        BY <2>1, <2>2 DEF Justified
<1> QED
    BY <1>1, <1>2

\* A binary consensus decides, and n may decide the block.
LEMMA ReportHolds ==
    ASSUME IInv, NEW n \in Honest, NEW p \in Nodes, NEW v \in {0, 1},
           ReportConsensusAndDecideIfNeeded(n, p, v)
    PROVE  IInv'
<1> DEFINE a == IF v = 1 THEN [agent[n] EXCEPT !.trueDecisions = @ \cup {p}]
                         ELSE [agent[n] EXCEPT !.falseDecisions = @ \cup {p}]
           winners == Winners(a.trueDecisions, a.falseDecisions)
<1>1. agent[n] \in Agent
    BY DEF IInv, TypeOK
<1>2. /\ a \in Agent
      /\ a.started = agent[n].started
      /\ a.startPosted = agent[n].startPosted
      /\ a.vectorReady = agent[n].vectorReady
      /\ a.sigShares = agent[n].sigShares
      /\ a.downloading = agent[n].downloading
      /\ \A q \in a.trueDecisions : q \in agent[n].trueDecisions \/ (q = p /\ v = 1)
      /\ \A q \in a.falseDecisions : q \in agent[n].falseDecisions \/ (q = p /\ v = 0)
    BY <1>1 DEF Agent
<1>3. /\ Bin(p)!Allowed(v)
      /\ decided' = [decided EXCEPT ![p] = @ \cup {[node |-> n, value |-> v]}]
      /\ UNCHANGED <<daProofs, vectors, restarts>>
      /\ \/ winners = {} /\ agent' = [agent EXCEPT ![n] = a]
                        /\ UNCHANGED <<proposals, shares, committed>>
         \/ \E i \in winners :
              /\ shares' = shares \cup {[signer |-> n, index |-> i]}
              /\ SaveShareAndFinalize(n, [a EXCEPT !.decidedIndex = i], n, i)
    BY DEF ReportConsensusAndDecideIfNeeded
<1> HIDE DEF a
<1>4. decided' \in [Nodes -> SUBSET [node : Honest, value : {0, 1}]]
    BY <1>3 DEF IInv, TypeOK
<1>5. ASSUME NEW b \in Agent, ShareStored(n, a, b), shares \subseteq shares',
             shares' \subseteq [signer : Honest, index : Indices],
             \A s \in shares' : s \in shares \/ s.index \in winners
      PROVE  IInv'
    <2>1. TypeOK' /\ ProofsKept
        BY <1>3, <1>4, <1>5, StoredKeeps
    <2>2. VectorsKept
        BY <1>3 DEF VectorsKept
    <2>3. StartInv'
        BY <1>2, <1>3, <1>5, <2>2, StartHolds DEF IInv, StartInv, ShareStored
    <2>4. ShareInv'
        BY <1>2, <1>5, <2>1, StoredShares
    <2>5. \A m \in Honest : agent'[m].started = agent[m].started
        BY <1>2, <1>5 DEF ShareStored, IInv, TypeOK
    <2>6. /\ \A q \in Nodes : \A u : Reported(q, u)' <=> Reported(q, u) \/ (q = p /\ u = v)
          /\ DecisionsAgree' /\ OneBacked' /\ ZeroBacked'
        BY <1>3, <2>5, ReportedHolds
    <2>7. /\ \A q \in a.trueDecisions : Reported(q, 1)'
          /\ \A q \in a.falseDecisions : Reported(q, 0)'
        <3>1. a.trueDecisions \subseteq Nodes /\ a.falseDecisions \subseteq Nodes
            BY <1>2 DEF Agent
        <3> QED
            BY <1>2, <2>6, <3>1 DEF IInv, DecisionInv, AgentDecisions
    <2>8. AgentDecisions'
        <3> SUFFICES ASSUME NEW m \in Honest
                     PROVE  /\ \A q \in agent'[m].trueDecisions : Reported(q, 1)'
                            /\ \A q \in agent'[m].falseDecisions : Reported(q, 0)'
            BY DEF AgentDecisions
        <3>1. CASE m = n
            BY <1>5, <2>7, <3>1 DEF ShareStored, IInv, TypeOK
        <3>2. CASE m # n
            <4>1. agent'[m] = agent[m] /\ agent[m] \in Agent
                BY <1>5, <3>2 DEF ShareStored, IInv, TypeOK
            <4>2. agent[m].trueDecisions \subseteq Nodes /\ agent[m].falseDecisions \subseteq Nodes
                BY <4>1 DEF Agent
            <4> QED
                BY <2>6, <4>1, <4>2 DEF IInv, DecisionInv, AgentDecisions
        <3> QED
            BY <3>1, <3>2
    <2>9. \A i \in Indices : Justified(i) => Justified(i)'
        BY <2>6, ProposerAtType, NAssumption DEF Justified
    <2>10. \A i \in winners : Justified(i)'
        BY <2>7, WinnersJustified
    <2>11. SharesJustified'
        BY <1>5, <2>9, <2>10 DEF SharesJustified, IInv, TypeOK, DecisionInv
    <2> QED
        BY <2>1, <2>2, <2>3, <2>4, <2>6, <2>8, <2>11, HeldHolds DEF IInv, DecisionInv
<1>6. CASE winners = {} /\ agent' = [agent EXCEPT ![n] = a]
                        /\ UNCHANGED <<proposals, shares, committed>>
    <2>1. ShareStored(n, a, a)
        BY <1>6 DEF ShareStored
    <2>2. shares' \subseteq [signer : Honest, index : Indices]
        BY <1>6 DEF IInv, TypeOK
    <2> QED
        BY <1>2, <1>5, <1>6, <2>1, <2>2
<1>7. ASSUME NEW i \in winners, shares' = shares \cup {[signer |-> n, index |-> i]},
             SaveShareAndFinalize(n, [a EXCEPT !.decidedIndex = i], n, i)
      PROVE  IInv'
    <2> DEFINE d == [a EXCEPT !.decidedIndex = i]
    <2>1. i \in Indices
        BY <1>7, WinnersType
    <2>2. /\ d \in Agent
          /\ d.started = a.started
          /\ d.startPosted = a.startPosted
          /\ d.vectorReady = a.vectorReady
          /\ d.sigShares = a.sigShares
          /\ d.downloading = a.downloading
          /\ d.trueDecisions = a.trueDecisions
          /\ d.falseDecisions = a.falseDecisions
        BY <1>2, <2>1 DEF Agent
    <2> HIDE DEF d
    <2>3. shares' \subseteq [signer : Honest, index : Indices]
        BY <1>7, <2>1 DEF IInv, TypeOK
    <2>4. \A q \in d.sigShares[i] : [signer |-> q, index |-> i] \in shares' \cup ByzShares
        BY <1>2, <1>7, <2>1, <2>2 DEF IInv, ShareInv
    <2>5. n \in Nodes /\ [signer |-> n, index |-> i] \in shares' \cup ByzShares
        BY <1>7 DEF Honest
    <2>6. SaveShareAndFinalize(n, d, n, i)
        BY <1>7 DEF d
    <2>7. PICK b \in Agent : ShareStored(n, d, b)
        BY <2>1, <2>2, <2>3, <2>4, <2>5, <2>6, SaveShareStores
    <2>8. ShareStored(n, a, b)
        BY <2>2, <2>7 DEF ShareStored
    <2>9. \A s \in shares' : s \in shares \/ s.index \in winners
        BY <1>7
    <2> QED
        BY <1>5, <1>7, <2>3, <2>8, <2>9
<1> QED
    BY <1>3, <1>6, <1>7

LEMMA NextHolds == IInv /\ [Next]_vars => IInv'
<1> SUFFICES ASSUME IInv, [Next]_vars PROVE IInv'
    OBVIOUS
<1>1. CASE UNCHANGED vars
    <2>1. TypeOK' /\ StartInv' /\ HeldInv'
        BY <1>1 DEF vars, IInv, TypeOK, StartInv, HeldInv
    <2>2. \A p, v : Reported(p, v)' <=> Reported(p, v)
        BY <1>1 DEF vars, Reported
    <2>3. DecisionInv'
        BY <1>1, <2>2 DEF vars, IInv, DecisionInv, DecisionsAgree, OneBacked, ZeroBacked,
                          AgentDecisions, SharesJustified, Justified
    <2>4. \A i : Signed(i)' <=> Signed(i)
        BY <1>1 DEF vars, Signed
    <2>5. ShareInv'
        BY <1>1, <2>4 DEF vars, IInv, ShareInv
    <2> QED
        BY <2>1, <2>3, <2>5 DEF IInv
<1>2. CASE Next
    BY <1>2, ProposedHolds, ProofHolds, ReportHolds, StartOnProofsHolds, StartProposalHolds,
       BlockSignHolds, DownloadHolds, CatchupHolds, RestartHolds DEF Next
<1> QED
    BY <1>1, <1>2

-----------------------------------------------------------------------------
(* Every step as a step of BlockAgreement.                                 *)

\* Two nodes that have committed have committed the same block.
LEMMA OneCommitted ==
    ASSUME IInv, NEW m \in Honest, NEW n \in Honest,
           committed[m] # None, committed[n] # None
    PROVE  committed[m] = committed[n]
<1>1. committed[m] \in Indices /\ committed[n] \in Indices
    BY DEF IInv, TypeOK
<1>2. Signed(committed[m]) /\ Signed(committed[n])
    BY <1>1 DEF IInv, ShareInv
<1>3. Justified(committed[m]) /\ Justified(committed[n])
    BY <1>2, SignedByHonest DEF IInv, DecisionInv, SharesJustified
<1> QED
    BY <1>3, OneJustified DEF IInv, DecisionInv

\* Only the default block and proposals with a proof are committed.
CommitsValid ==
    \A n \in Honest : committed[n] # None => committed[n] \in Proven \cup {0}

\* A stable node had the proof in its vector.
LEMMA CommittedValid ==
    ASSUME IInv, NEW n \in Honest, committed[n] # None
    PROVE  committed[n] \in Proven \cup {0}
<1>1. committed[n] \in Indices
    BY DEF IInv, TypeOK
<1>2. Signed(committed[n])
    BY <1>1 DEF IInv, ShareInv
<1>3. Justified(committed[n])
    BY <1>2, SignedByHonest DEF IInv, DecisionInv, SharesJustified
<1>4. CASE committed[n] # 0
    <2>1. committed[n] \in Nodes /\ Reported(committed[n], 1)
        BY <1>3, <1>4, ProposerAtType DEF Justified
    <2>2. PICK m \in Stable : \E v \in vectors[m] : committed[n] \in v
        BY <2>1 DEF IInv, DecisionInv, OneBacked
    <2>3. \A v \in vectors[m] : v \subseteq Proven
        BY DEF IInv, TypeOK, Stable
    <2> QED
        BY <2>2, <2>3
<1> QED
    BY <1>4

\* A step commits nothing, or one block at one node that had none.
LEMMA StepCommits ==
    ASSUME IInv, Next
    PROVE  \/ UNCHANGED committed
           \/ \E n \in Honest, i \in Indices :
                committed[n] = None /\ committed' = [committed EXCEPT ![n] = i]
<1>1. PICK n \in Honest :
        \/ \E p \in Nodes :
            \/ ProposedBlockArrived(n, p)
            \/ DAProofArrived(n, p)
            \/ \E v \in {0, 1} : ReportConsensusAndDecideIfNeeded(n, p, v)
        \/ StartConsensusOnProofs(n)
        \/ BlockProposalReceiptTimeoutArrived(n)
        \/ StartConsensusProposal(n)
        \/ \E s \in shares \cup ByzShares : ProcessBlockSignMessage(n, s)
        \/ Download(n)
        \/ BlockCommitsArrivedThroughCatchup(n)
        \/ Restart(n)
    BY DEF Next
<1> DEFINE Commits == \E i \in Indices :
                committed[n] = None /\ committed' = [committed EXCEPT ![n] = i]
<1> SUFFICES UNCHANGED committed \/ Commits
    OBVIOUS
<1>2. ASSUME NEW a, NEW q, NEW i \in Indices, SaveShareAndFinalize(n, a, q, i), committed[n] = None
      PROVE  UNCHANGED committed \/ Commits
    BY <1>2 DEF SaveShareAndFinalize, FinalizeDecidedAndSignedBlock, Commit
<1>3. ASSUME NEW p \in Nodes, NEW v \in {0, 1}, ReportConsensusAndDecideIfNeeded(n, p, v)
      PROVE  UNCHANGED committed \/ Commits
    <2> DEFINE a == IF v = 1 THEN [agent[n] EXCEPT !.trueDecisions = @ \cup {p}]
                             ELSE [agent[n] EXCEPT !.falseDecisions = @ \cup {p}]
    <2>1. /\ committed[n] = None
          /\ \/ UNCHANGED committed
             \/ \E i \in Winners(a.trueDecisions, a.falseDecisions) :
                    SaveShareAndFinalize(n, [a EXCEPT !.decidedIndex = i], n, i)
        BY <1>3 DEF ReportConsensusAndDecideIfNeeded
    <2> HIDE DEF a, Commits
    <2> QED
        BY <1>2, <2>1, WinnersType
<1>4. ASSUME NEW s \in shares \cup ByzShares, ProcessBlockSignMessage(n, s)
      PROVE  UNCHANGED committed \/ Commits
    <2>1. s.index \in Indices
        BY ProvenAssumption DEF IInv, TypeOK
    <2>2. committed[n] = None /\ SaveShareAndFinalize(n, agent[n], s.signer, s.index)
        BY <1>4 DEF ProcessBlockSignMessage
    <2> HIDE DEF Commits
    <2> QED
        BY <1>2, <2>1, <2>2
<1>5. ASSUME NEW m \in Nodes, DownloadComplete(n, m)
      PROVE  UNCHANGED committed \/ Commits
    <2>1. agent[n].downloading \in Indices
        BY <1>5 DEF DownloadComplete, Free, IInv, TypeOK, Agent
    <2> QED
        BY <1>5, <2>1 DEF DownloadComplete, StillNeeded, Commit
<1>6. CASE BlockCommitsArrivedThroughCatchup(n)
    BY <1>6 DEF BlockCommitsArrivedThroughCatchup, Commit
<1>7. ASSUME NEW p \in Nodes,
             \/ ProposedBlockArrived(n, p) \/ DAProofArrived(n, p)
             \/ StartConsensusOnProofs(n) \/ BlockProposalReceiptTimeoutArrived(n)
             \/ StartConsensusProposal(n) \/ Restart(n)
             \/ WorkerEnds(n, p) \/ DownloadReturnsNull(n)
      PROVE  UNCHANGED committed
    BY <1>7 DEF ProposedBlockArrived, DAProofArrived, StartConsensusOnProofs,
                BlockProposalReceiptTimeoutArrived, TryStartingConsensus,
                StartConsensusProposal, Restart, WorkerEnds, DownloadReturnsNull
<1>8. n \in Nodes
    BY DEF Honest
<1> HIDE DEF Commits
<1>9. CASE Download(n)
    BY <1>5, <1>7, <1>8, <1>9 DEF Download
<1> QED
    BY <1>1, <1>3, <1>4, <1>6, <1>7, <1>8, <1>9

LEMMA StepAgrees ==
    ASSUME IInv, CommitsAgree', CommitsValid', [Next]_vars
    PROVE  [Chain!Next]_committed
<1>1. CASE UNCHANGED committed
    BY <1>1
<1>2. ASSUME NEW n \in Honest, NEW i \in Indices, committed[n] = None,
             committed' = [committed EXCEPT ![n] = i]
      PROVE  Chain!Next
    <2>1. committed'[n] = i /\ i # None
        BY <1>2, NoneNoIndex DEF IInv, TypeOK
    <2>2. i \in Chain!Valid
        BY <2>1 DEF CommitsValid, Chain!Valid
    <2>3. ASSUME NEW m \in Honest PROVE committed[m] \in {None, i}
        <3>1. m # n => committed'[m] = committed[m]
            BY <1>2 DEF IInv, TypeOK
        <3>2. committed'[m] # None => committed'[m] = committed'[n]
            BY <2>1 DEF CommitsAgree
        <3> QED
            BY <1>2, <2>1, <3>1, <3>2
    <2> QED
        BY <1>2, <2>2, <2>3 DEF Chain!Next, Chain!Commit
<1> QED
    BY <1>1, <1>2, StepCommits DEF vars

\* tryStartingConsensus is all that writes a vector, once.
LEMMA StepVectors ==
    ASSUME IInv, [Next]_vars
    PROVE  [\A n \in Honest : vectors[n] # {} => vectors'[n] = vectors[n]]_vars
<1> SUFFICES ASSUME Next, NEW m \in Honest, vectors[m] # {}
             PROVE  vectors'[m] = vectors[m]
    OBVIOUS
<1>1. ASSUME NEW n \in Honest, NEW vector, NEW a, TryStartingConsensus(n, vector, a)
      PROVE  vectors'[m] = vectors[m]
    BY <1>1 DEF TryStartingConsensus, IInv, TypeOK
<1>2. ASSUME NEW n \in Honest, StartConsensusOnProofs(n) \/ BlockProposalReceiptTimeoutArrived(n)
      PROVE  vectors'[m] = vectors[m]
    BY <1>1, <1>2 DEF StartConsensusOnProofs, BlockProposalReceiptTimeoutArrived
<1>3. ASSUME NEW n \in Honest, NEW p \in Nodes,
             \/ ProposedBlockArrived(n, p) \/ DAProofArrived(n, p)
             \/ \E v \in {0, 1} : ReportConsensusAndDecideIfNeeded(n, p, v)
      PROVE  vectors'[m] = vectors[m]
    BY <1>3 DEF ProposedBlockArrived, DAProofArrived, ReportConsensusAndDecideIfNeeded
<1>4. ASSUME NEW n \in Honest,
             \/ StartConsensusProposal(n) \/ Download(n)
             \/ BlockCommitsArrivedThroughCatchup(n) \/ Restart(n)
             \/ \E s \in shares \cup ByzShares : ProcessBlockSignMessage(n, s)
      PROVE  vectors'[m] = vectors[m]
    BY <1>4 DEF StartConsensusProposal, Download, DownloadComplete, WorkerEnds,
                DownloadReturnsNull, BlockCommitsArrivedThroughCatchup, Restart,
                ProcessBlockSignMessage
<1> QED
    BY <1>2, <1>3, <1>4 DEF Next

-----------------------------------------------------------------------------
(* The theorems.                                                           *)

\* The inductive invariant holds.
THEOREM Invariance == Spec => []IInv
BY InitHolds, NextHolds, PTL DEF Spec

\* The databases and the memory of the nodes keep the types of the code.
THEOREM TypeCorrect == Spec => []TypeOK
<1>1. IInv => TypeOK
    BY DEF IInv
<1> QED
    BY <1>1, Invariance, PTL

\* decideBlock: the honest nodes of an schain of any size sign one block,
\* although they learn the decisions in different orders and are restarted.
THEOREM SharesAgreeHolds == Spec => []SharesAgree
<1>1. IInv => SharesAgree
    BY OneJustified DEF IInv, DecisionInv, SharesJustified, SharesAgree
<1> QED
    BY <1>1, Invariance, PTL

\* finalizeDecidedAndSignedBlock and catchup: no two honest nodes commit
\* different blocks.
THEOREM CommitsAgreeHolds == Spec => []CommitsAgree
<1>1. IInv => CommitsAgree
    BY OneCommitted DEF CommitsAgree
<1> QED
    BY <1>1, Invariance, PTL

\* The bits that a node proposes to the binary consensuses are fixed once its
\* vector is saved, also over restarts: BinConsensus rests on it.
THEOREM VectorFixed ==
    Spec => [][\A n \in Honest : vectors[n] # {} => vectors'[n] = vectors[n]]_vars
<1>1. IInv /\ [Next]_vars =>
        [\A n \in Honest : vectors[n] # {} => vectors'[n] = vectors[n]]_vars
    BY StepVectors
<1> QED
    BY <1>1, Invariance, PTL DEF Spec

\* All nodes together are one chain: each commits once, the same block, and
\* only the default block or a proven proposal.
THEOREM BlockRefinement == Spec => ImplementsBlockAgreement
<1>1. Init => Chain!Init
    BY DEF Init, Chain!Init
<1>2. IInv /\ (CommitsAgree /\ CommitsValid)' /\ [Next]_vars => [Chain!Next]_committed
    BY StepAgrees
<1>3. IInv => CommitsAgree /\ CommitsValid
    BY OneCommitted, CommittedValid DEF CommitsAgree, CommitsValid
<1> QED
    BY <1>1, <1>2, <1>3, Invariance, PTL DEF Spec, ImplementsBlockAgreement, Chain!Spec

\* A block that is signed can be had from a node that is never restarted.
THEOREM WinnerHeldHolds == Spec => []WinnerHeld
<1>1. ASSUME IInv, NEW s \in shares, s.index # 0
      PROVE  \E n \in Stable : Holds(n, s.index) \/ committed[n] # None
    <2>1. Reported(s.index, 1) /\ s.index \in Nodes
        BY <1>1, ProposerAtType DEF IInv, DecisionInv, SharesJustified, Justified
    <2>2. PICK m \in Stable : \E v \in vectors[m] : s.index \in v
        BY <1>1, <2>1 DEF IInv, DecisionInv, OneBacked
    <2>3. committed[m] = None => s.index \in daProofs[m] /\ s.index \in proposals[m]
        BY <1>1, <2>2 DEF IInv, HeldInv
    <2> QED
        BY <2>2, <2>3 DEF Holds
<1>2. IInv => WinnerHeld
    BY <1>1 DEF WinnerHeld
<1> QED
    BY <1>2, Invariance, PTL

\* The default block is committed only if every proposer was left out of the
\* vector of some stable node.
THEOREM DefaultJustifiedHolds == Spec => []DefaultJustified
<1>1. ASSUME IInv, NEW n \in Honest, committed[n] = 0, NEW p \in Nodes
      PROVE  \E m \in Stable : agent[m].started /\ \A v \in vectors[m] : p \notin v
    <2>1. 0 \in Indices
        BY NAssumption DEF Indices
    <2>2. Signed(0)
        BY <1>1, <2>1 DEF IInv, ShareInv
    <2>3. PICK s \in shares : s.index = 0
        BY <1>1, <2>2, SignedByHonest DEF IInv
    <2>4. Justified(0)
        BY <1>1, <2>3 DEF IInv, DecisionInv, SharesJustified
    <2>5. \A k \in 0 .. N - 1 : ProposerAt(k) # 0
        BY ProposerAtType, NAssumption DEF Nodes
    <2>6. Reported(p, 0)
        BY <2>4, <2>5 DEF Justified
    <2> QED
        BY <1>1, <2>6 DEF IInv, DecisionInv, ZeroBacked
<1>2. IInv => DefaultJustified
    BY <1>1 DEF DefaultJustified
<1> QED
    BY <1>2, Invariance, PTL
=============================================================================
