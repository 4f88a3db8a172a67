--------------------------- MODULE BlockConsensus ---------------------------
(***************************************************************************)
(* How the nodes of an schain agree on one block: BlockConsensusAgent, the *)
(* databases it uses and the part of Schain that starts the consensus and  *)
(* commits its result.  A node collects data availability proofs of the    *)
(* proposals, saves the vector of the proofs it has, proposes the bits of  *)
(* the vector to one binary consensus per proposer, picks the winner from  *)
(* their decisions, signs it, and commits it once enough shares merge into *)
(* a threshold signature.                                                  *)
(*                                                                         *)
(* The binary consensuses are those of BinAgreement, which BinConsensus    *)
(* implements.  A node has one message thread; the proposal server, the    *)
(* timeout agent, the catchup agent and the workers of a download run      *)
(* beside it.                                                              *)
(***************************************************************************)
EXTENDS Integers, FiniteSets

CONSTANTS
    N,            \* number of nodes
    Faulty,       \* Byzantine nodes
    Unstable,     \* nodes that run the code and may be restarted
    BlockID,      \* the block that is agreed on
    Seed,         \* first bytes of the previous block's hash, as an integer
    Proven,       \* proposers whose proposal has a data availability proof
    ByzShares,    \* signature shares that the Byzantine nodes send
    Failing,      \* nodes at which finalizing a block may throw before it is saved
    MaxRestarts   \* bound on the restarts of one behaviour

Nodes == 1 .. N
Honest == Nodes \ Faulty
Stable == Honest \ Unstable
Indices == 0 .. N   \* proposer index of a block; 0 is the default block
None == -1          \* no index

ASSUME NAssumption == N \in Nat /\ N > 1

ASSUME FaultAssumption ==
    /\ Faulty \subseteq Nodes
    /\ Unstable \subseteq Honest
    /\ 3 * Cardinality(Faulty \cup Unstable) < N

ASSUME BlockAssumption == BlockID \in Nat \ {0} /\ Seed \in Nat /\ MaxRestarts \in Nat

ASSUME ProvenAssumption ==
    Proven \subseteq Nodes /\ ByzShares \subseteq [signer : Faulty, index : Indices]

ASSUME FailingAssumption == Failing \subseteq Honest

VARIABLES
    proposals,  \* proposals[n]: proposers whose proposal n holds (BlockProposalDB)
    daProofs,   \* daProofs[n]: proposers whose proof n holds (DAProofDB)
    vectors,    \* vectors[n]: the proposal vector of n, {} or one set (ProposalVectorDB)
    agent,      \* agent[n]: what the process of n keeps in memory
    decided,    \* decided[p]: decisions of the binary consensus on proposer p
    shares,     \* block signature shares that honest nodes broadcast
    committed,  \* committed[n]: proposer of the block n committed, or None
    restarts    \* restarts so far

vars == <<proposals, daProofs, vectors, agent, decided, shares, committed, restarts>>

-----------------------------------------------------------------------------
Agent == [
    vectorReady : SUBSET SUBSET Proven,   \* {}, or the vector that the last proof completed
    startPosted : BOOLEAN,         \* ConsensusProposalMessage in the message queue
    started : BOOLEAN,             \* the bits of the vector have been proposed
    trueDecisions : SUBSET Nodes,
    falseDecisions : SUBSET Nodes,
    decidedIndex : Indices \cup {None},
    sigShares : [Indices -> SUBSET Nodes],   \* BlockSigShareDB
    alreadySigned : BOOLEAN,
    downloading : Indices \cup {None},       \* winner the message thread downloads
    workers : SUBSET Nodes]                  \* nodes it still downloads from

NewAgent == [
    vectorReady |-> {},
    startPosted |-> FALSE,
    started |-> FALSE,
    trueDecisions |-> {},
    falseDecisions |-> {},
    decidedIndex |-> None,
    sigShares |-> [i \in Indices |-> {}],
    alreadySigned |-> FALSE,
    downloading |-> None,
    workers |-> {}]

\* Mistake: the threshold of isThird.
RequiredSigners_Third == N \div 3
RequiredSigners == IF N <= 2 THEN N ELSE (2 * N) \div 3 + 1

\* isEnoughProofs
EnoughProofs(n) == Cardinality(daProofs[n]) >= RequiredSigners

\* getCurrentProposalVector: the set is read in index order and cut off at
\* the required number.
CurrentProposalVector(proofs) ==
    {p \in proofs : Cardinality({q \in proofs : q <= p}) <= RequiredSigners}

\* addDAProof: the proofs are returned as a vector by the call that makes
\* them just enough; other calls leave what is pending.
CompletedVector(proofs, pending) ==
    IF Cardinality(proofs) = RequiredSigners THEN {proofs} ELSE pending

\* The binary consensus on proposer p, as its users see it.
Bin(p) == INSTANCE BinAgreement WITH
    input <- [n \in Honest |-> IF \E v \in vectors[n] : p \in v THEN 1 ELSE 0],
    proposed <- {n \in Stable : agent[n].started},
    decisions <- decided[p]

-----------------------------------------------------------------------------
(* The choice of the winner.                                               *)

SeedOfBlock == IF BlockID <= 1 THEN 1 ELSE Seed

\* The i-th proposer of the scan.
ProposerAt(i) == (((SeedOfBlock % N) + i) % N) + 1

\* Mistake: the scan skips a proposer that has no decision yet.
Winners_Skip(trues, falses) ==
    IF trues = {} THEN IF falses = Nodes THEN {0} ELSE {}
    ELSE {ProposerAt(i) : i \in {i \in 0 .. N - 1 :
            ProposerAt(i) \in trues /\ \A j \in 0 .. i - 1 : ProposerAt(j) \notin trues}}

\* Mistake: the default block needs only half of the false decisions.
Winners_EarlyDefault(trues, falses) ==
    IF trues = {} THEN IF 2 * Cardinality(falses) >= N THEN {0} ELSE {}
    ELSE {ProposerAt(i) : i \in {i \in 0 .. N - 1 :
            /\ ProposerAt(i) \in trues
            /\ \A j \in 0 .. i - 1 :
                ProposerAt(j) \notin trues /\ ProposerAt(j) \in falses}}

\* The scan goes around from a random proposer, takes the first one that was
\* decided true, and stops at one that has no decision yet.  {}: not yet.
Winners(trues, falses) ==
    IF trues = {} THEN IF falses = Nodes THEN {0} ELSE {}
    ELSE {ProposerAt(i) : i \in {i \in 0 .. N - 1 :
            /\ ProposerAt(i) \in trues
            /\ \A j \in 0 .. i - 1 :
                ProposerAt(j) \notin trues /\ ProposerAt(j) \in falses}}

-----------------------------------------------------------------------------
(* Signature shares and finalization.                                      *)

\* Whether the share of signer is the one that completes the set of index i.
Completes(a, signer, i) ==
    /\ ~a.alreadySigned
    /\ signer \notin a.sigShares[i]
    /\ Cardinality(a.sigShares[i]) + 1 = RequiredSigners

\* writeStringToSetInMemory: nothing is stored once a set has been complete.
CheckAndSaveShareInMemory(a, signer, i) ==
    IF a.alreadySigned \/ signer \in a.sigShares[i] THEN a
    ELSE [a EXCEPT !.sigShares[i] = @ \cup {signer},
                   !.alreadySigned = Completes(a, signer, i)]

\* Node n commits the block of proposer i: the proposals in memory are
\* dropped, its own one stays in LevelDB.
Commit(n, i) ==
    /\ committed' = [committed EXCEPT ![n] = i]
    /\ proposals' = [proposals EXCEPT ![n] = @ \cap {n}]

\* A proposal without a proof is not trusted: it is downloaded, proof and all.
Holds(n, i) == i \in proposals[n] /\ i \in daProofs[n]

\* The message thread of n, with memory a, has a signature on index i and
\* has not committed yet.
FinalizeDecidedAndSignedBlock(n, a, i) ==
    \/ /\ i = 0 \/ Holds(n, i)
       /\ agent' = [agent EXCEPT ![n] = a]
       /\ Commit(n, i)
    \/ /\ i # 0 /\ ~Holds(n, i)
       /\ agent' = [agent EXCEPT ![n] =
                      [a EXCEPT !.downloading = i, !.workers = Nodes \ {n}]]
       /\ UNCHANGED <<committed, proposals>>
    \/ /\ n \in Failing   \* the exception ends the handler
       /\ agent' = [agent EXCEPT ![n] = a]
       /\ UNCHANGED <<committed, proposals>>

\* The message thread stores a share, and finalizes if it completes the set.
SaveShareAndFinalize(n, a, signer, i) ==
    LET b == CheckAndSaveShareInMemory(a, signer, i)
    IN  \/ /\ Completes(a, signer, i)
           /\ FinalizeDecidedAndSignedBlock(n, b, i)
        \/ /\ ~Completes(a, signer, i)
           /\ agent' = [agent EXCEPT ![n] = b]
           /\ UNCHANGED <<committed, proposals>>

-----------------------------------------------------------------------------
Init ==
    /\ proposals = [n \in Honest |-> {n}]
    /\ daProofs = [n \in Honest |-> {}]
    /\ vectors = [n \in Honest |-> {}]
    /\ agent = [n \in Honest |-> NewAgent]
    /\ decided = [p \in Nodes |-> {}]
    /\ shares = {}
    /\ committed = [n \in Honest |-> None]
    /\ restarts = 0

\* The proposal of p is accepted by the proposal server of n.  Only proposals
\* that end up with a proof matter here.
ProposedBlockArrived(n, p) ==
    /\ p \in Proven \ proposals[n]
    /\ committed[n] = None
    /\ ~EnoughProofs(n)
    /\ proposals' = [proposals EXCEPT ![n] = @ \cup {p}]
    /\ UNCHANGED <<daProofs, vectors, agent, decided, shares, committed, restarts>>

\* Mistake: the proof is accepted without its proposal.
DAProofArrived_NoProposal(n, p) ==
    /\ p \in Proven \ daProofs[n]
    /\ committed[n] = None
    /\ p = n \/ ~EnoughProofs(n)
    /\ daProofs' = [daProofs EXCEPT ![n] = @ \cup {p}]
    /\ agent' = [agent EXCEPT ![n].vectorReady =
                    CompletedVector(daProofs[n] \cup {p}, @)]
    /\ UNCHANGED <<proposals, vectors, decided, shares, committed, restarts>>

\* Mistake: the signature of the proof is not verified.
DAProofArrived_Unverified(n, p) ==
    /\ p \in Nodes \ daProofs[n]
    /\ p \in proposals[n]
    /\ committed[n] = None
    /\ p = n \/ ~EnoughProofs(n)
    /\ daProofs' = [daProofs EXCEPT ![n] = @ \cup {p}]
    /\ agent' = [agent EXCEPT ![n].vectorReady =
                    CompletedVector(daProofs[n] \cup {p}, @)]
    /\ UNCHANGED <<proposals, vectors, decided, shares, committed, restarts>>

\* Node n gets the proof of p's proposal: of its own one, merged from shares,
\* or from the proposal server, which refuses it when it has enough proofs.
DAProofArrived(n, p) ==
    /\ p \in Proven \ daProofs[n]
    /\ p \in proposals[n]
    /\ committed[n] = None
    /\ p = n \/ ~EnoughProofs(n)
    /\ daProofs' = [daProofs EXCEPT ![n] = @ \cup {p}]
    /\ agent' = [agent EXCEPT ![n].vectorReady =
                    CompletedVector(daProofs[n] \cup {p}, @)]
    /\ UNCHANGED <<proposals, vectors, decided, shares, committed, restarts>>

\* Mistake: a vector that the timeout cut short is saved, but not started.
TryStartingConsensus_Short(n, vector, a) ==
    /\ vectors' = IF vectors[n] = {} THEN [vectors EXCEPT ![n] = {vector}] ELSE vectors
    /\ agent' = [agent EXCEPT ![n] =
                   [a EXCEPT !.startPosted =
                       @ \/ (/\ vectors[n] = {} /\ committed[n] = None
                             /\ Cardinality(vector) >= RequiredSigners)]]
    /\ UNCHANGED <<proposals, daProofs, decided, shares, committed, restarts>>

\* tryStartingConsensus: the first vector is saved and the consensus posted
\* to the message thread; later vectors are dropped.
TryStartingConsensus(n, vector, a) ==
    /\ vectors' = IF vectors[n] = {} THEN [vectors EXCEPT ![n] = {vector}] ELSE vectors
    /\ agent' = [agent EXCEPT ![n] =
                   [a EXCEPT !.startPosted =
                       @ \/ (vectors[n] = {} /\ committed[n] = None)]]
    /\ UNCHANGED <<proposals, daProofs, decided, shares, committed, restarts>>

\* The thread that added the completing proof goes on.
StartConsensusOnProofs(n) ==
    \E vector \in agent[n].vectorReady :
        TryStartingConsensus(n, vector, [agent[n] EXCEPT !.vectorReady = {}])

\* The timeout agent gives up waiting for proofs; not for the first blocks.
BlockProposalReceiptTimeoutArrived(n) ==
    /\ N > 2 /\ BlockID > 2
    /\ committed[n] = None
    /\ vectors[n] = {}
    /\ TryStartingConsensus(n, CurrentProposalVector(daProofs[n]), agent[n])

\* The message thread of n is free: it is not in a download.
Free(n) == agent[n].downloading = None

\* The message thread proposes the bits of the saved vector to the binary
\* consensuses.  Their first decisions, which may come inside this loop, are
\* steps of their own.
StartConsensusProposal(n) ==
    /\ Free(n)
    /\ agent[n].startPosted
    /\ agent' = [agent EXCEPT ![n].startPosted = FALSE, ![n].started = TRUE]
    /\ UNCHANGED <<proposals, daProofs, vectors, decided, shares, committed, restarts>>

\* The binary consensus on p decides v at node n.
ReportConsensusAndDecideIfNeeded(n, p, v) ==
    LET a == IF v = 1 THEN [agent[n] EXCEPT !.trueDecisions = @ \cup {p}]
                      ELSE [agent[n] EXCEPT !.falseDecisions = @ \cup {p}]
        winners == Winners(a.trueDecisions, a.falseDecisions)
    IN  /\ Free(n)
        /\ committed[n] = None
        /\ agent[n].decidedIndex = None
        /\ p \notin agent[n].trueDecisions \cup agent[n].falseDecisions
        /\ Bin(p)!Allowed(v)
        /\ decided' = [decided EXCEPT ![p] = @ \cup {[node |-> n, value |-> v]}]
        /\ \/ /\ winners = {}
              /\ agent' = [agent EXCEPT ![n] = a]
              /\ UNCHANGED <<proposals, shares, committed>>
           \/ \E i \in winners :   \* decideBlock
              /\ shares' = shares \cup {[signer |-> n, index |-> i]}
              /\ SaveShareAndFinalize(n, [a EXCEPT !.decidedIndex = i], n, i)
        /\ UNCHANGED <<daProofs, vectors, restarts>>

\* A block signature share reaches n.  After the commit shares are still
\* stored, but finalizeDecidedAndSignedBlock ignores them.
ProcessBlockSignMessage(n, s) ==
    /\ Free(n)
    /\ committed[n] = None
    /\ s.signer # n
    /\ s.signer \notin agent[n].sigShares[s.index]
    /\ ~agent[n].alreadySigned
    /\ SaveShareAndFinalize(n, agent[n], s.signer, s.index)
    /\ UNCHANGED <<daProofs, vectors, decided, shares, restarts>>

-----------------------------------------------------------------------------
(* The download of the winner, in the message thread of n and its workers. *)

EndDownload(n) == [agent EXCEPT ![n].downloading = None, ![n].workers = {}]

\* createBlockFinalizeResponse: node m has fragments of proposal i.
CanServe(m, i) ==
    m \in Honest /\ (Holds(m, i) \/ committed[m] = i)

\* Nothing ended the download: no catchup, no late proposal and proof.
StillNeeded(n) == committed[n] = None /\ ~Holds(n, agent[n].downloading)

\* A worker gets all fragments.  A Byzantine node may serve them too.
DownloadComplete(n, m) ==
    /\ ~Free(n)
    /\ m \in agent[n].workers
    /\ StillNeeded(n)
    /\ m \in Faulty \/ CanServe(m, agent[n].downloading)
    /\ \/ Commit(n, agent[n].downloading)
       \/ n \in Failing /\ UNCHANGED <<committed, proposals>>
    /\ agent' = EndDownload(n)
    /\ UNCHANGED <<daProofs, vectors, decided, shares, restarts>>

\* A worker whose node has no fragment ends for good.
WorkerEnds(n, m) ==
    /\ ~Free(n)
    /\ m \in agent[n].workers
    /\ StillNeeded(n)
    /\ ~CanServe(m, agent[n].downloading)
    /\ agent' = [agent EXCEPT ![n].workers = @ \ {m}]
    /\ UNCHANGED <<proposals, daProofs, vectors, decided, shares, committed, restarts>>

\* downloadProposal returns null; the message thread drops the block.
DownloadReturnsNull(n) ==
    /\ ~Free(n)
    /\ ~StillNeeded(n) \/ agent[n].workers = {}
    /\ agent' = EndDownload(n)
    /\ UNCHANGED <<proposals, daProofs, vectors, decided, shares, committed, restarts>>

-----------------------------------------------------------------------------
\* The shares sent so far make a threshold signature on index i.
Signed(i) ==
    Cardinality({s.signer : s \in {s \in shares \cup ByzShares : s.index = i}})
        >= RequiredSigners

\* blockCommitsArrivedThroughCatchup: n takes the block from a node that has
\* committed it, or from a Byzantine node that made a signature.
BlockCommitsArrivedThroughCatchup(n) ==
    /\ committed[n] = None
    /\ \E i \in Indices :
        /\ \/ \E m \in Honest : committed[m] = i
           \/ Faulty # {} /\ Signed(i)
        /\ Commit(n, i)
    /\ UNCHANGED <<daProofs, vectors, agent, decided, shares, restarts>>

\* The process of n dies; bootstrap() starts an incomplete consensus again
\* from the saved vector.  Proposals of other nodes were only in memory.
Restart(n) ==
    /\ n \in Unstable
    /\ restarts < MaxRestarts
    /\ restarts' = restarts + 1
    /\ agent' = [agent EXCEPT ![n] =
                   [NewAgent EXCEPT !.startPosted =
                       vectors[n] # {} /\ committed[n] = None]]
    /\ proposals' = [proposals EXCEPT ![n] = @ \cap {n}]
    /\ UNCHANGED <<daProofs, vectors, decided, shares, committed>>

Download(n) ==
    \/ \E m \in Nodes : DownloadComplete(n, m) \/ WorkerEnds(n, m)
    \/ DownloadReturnsNull(n)

Next == \E n \in Honest :
    \/ \E p \in Nodes :
        \/ ProposedBlockArrived(n, p)
        \/ DAProofArrived(n, p)
        \/ \E v \in {0, 1} : ReportConsensusAndDecideIfNeeded(n, p, v)
    \/ StartConsensusOnProofs(n)
    \/ BlockProposalReceiptTimeoutArrived(n)
    \/ StartConsensusProposal(n)
    \/ \E s \in shares \cup ByzShares : ProcessBlockSignMessage(n, s)
    \/ Download(n)
    \/ BlockCommitsArrivedThroughCatchup(n)
    \/ Restart(n)

Spec == Init /\ [][Next]_vars

\* Stable nodes propose different bits to the binary consensus on p.
Votes(n, p) == \E v \in vectors[n] : p \in v

Contested(p) == \E m, n \in Stable :
    agent[m].started /\ agent[n].started /\ Votes(m, p) /\ ~Votes(n, p)

\* All stable nodes propose the same bit, and are still at this block.
Unanimous(p) ==
    /\ \A n \in Stable : agent[n].started /\ committed[n] = None
    /\ ~Contested(p)

(* Every thread of a node goes on; a share is sent again until it arrives, *)
(* and the proof of a proposal reaches the nodes that wait for it.  Each   *)
(* arrives once, so fairness to all of a kind is fairness to each.  A      *)
(* binary consensus owes its decision only to stable nodes that all        *)
(* propose the same bit (UnanimousTermination of BinConsensus); a          *)
(* contested one may stall in the code and owes nothing.                   *)
Fairness == \A n \in Honest :
    /\ WF_vars(\E p \in Nodes : ProposedBlockArrived(n, p))
    /\ WF_vars(\E p \in Nodes : DAProofArrived(n, p))
    /\ WF_vars(\E p \in Nodes, v \in {0, 1} : n \in Stable /\ Unanimous(p)
                /\ ReportConsensusAndDecideIfNeeded(n, p, v))
    /\ WF_vars(\E s \in shares : ProcessBlockSignMessage(n, s))
    /\ WF_vars(StartConsensusOnProofs(n))
    /\ WF_vars(BlockProposalReceiptTimeoutArrived(n))
    /\ WF_vars(StartConsensusProposal(n))
    /\ WF_vars(Download(n))
    /\ WF_vars(\E m \in Honest : committed[m] # None
                /\ BlockCommitsArrivedThroughCatchup(n))

FairSpec == Spec /\ Fairness

-----------------------------------------------------------------------------
\* The databases and the memory of every node have the types of the code.
TypeOK ==
    /\ proposals \in [Honest -> SUBSET Nodes]
    /\ daProofs \in [Honest -> SUBSET Proven]
    /\ vectors \in [Honest -> {{}} \cup {{v} : v \in SUBSET Proven}]
    /\ agent \in [Honest -> Agent]
    /\ decided \in [Nodes -> SUBSET [node : Honest, value : {0, 1}]]
    /\ shares \subseteq [signer : Honest, index : Indices]
    /\ committed \in [Honest -> Indices \cup {None}]
    /\ restarts \in 0 .. MaxRestarts

\* Honest nodes sign one winner, although they learn the decisions of the
\* binary consensuses in different orders, and again after a restart.
SharesAgree == \A s, t \in shares : s.index = t.index

\* No two honest nodes commit different blocks, through consensus or catchup.
CommitsAgree ==
    \A m, n \in Honest :
        committed[m] # None /\ committed[n] # None => committed[m] = committed[n]

\* The nodes keep the promise of BlockAgreement: each commits once and for
\* good, through consensus, download or catchup, all the same block, and that
\* is the default block or one whose proposal has a proof.
Chain == INSTANCE BlockAgreement
ImplementsBlockAgreement == Chain!Spec

\* The block of a proposer is only signed when a node that is never restarted
\* holds both the proposal and its proof, and can commit it without a
\* download, or has committed already.
WinnerHeld ==
    \A s \in shares : s.index # 0 =>
        \E n \in Stable : Holds(n, s.index) \/ committed[n] # None

\* The default block is only committed when every proposer was left out of
\* the vector of some stable node.
DefaultJustified ==
    \A n \in Honest : committed[n] = 0 =>
        \A p \in Nodes : \E m \in Stable :
            agent[m].started /\ \A v \in vectors[m] : p \notin v

\* Node n waits for a decision to which stable nodes propose different bits.
Contends(n) ==
    /\ committed[n] = None /\ agent[n].decidedIndex = None
    /\ \E p \in Nodes \ (agent[n].trueDecisions \cup agent[n].falseDecisions) :
        Contested(p)

\* The proposal and its proof reached n during the download and ended it, and
\* n dropped a block that it could have committed.
Dropped(n) ==
    /\ committed[n] = None /\ Free(n)
    /\ \E i \in Nodes :
        Cardinality(agent[n].sigShares[i]) >= RequiredSigners /\ Holds(n, i)

\* Every honest node commits the block, although finalizing may throw and
\* downloads give up.  Only two things may stop the chain at the block: stable
\* nodes propose different bits to a binary consensus whose decision one of
\* them waits for, or every node at which finalizing does not throw dropped
\* the block for a proposal that came late.
EventuallyCommitted ==
    \/ <>(\A n \in Honest : committed[n] # None)
    \/ <>[](\E n \in Stable : Contends(n))
    \/ <>[](\A n \in Honest \ Failing : Dropped(n))
=============================================================================
