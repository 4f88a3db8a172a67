---------------------------- MODULE BlockProposal ----------------------------
(***************************************************************************)
(* How one node proposes one block and gets a data availability (DA) proof *)
(* for the proposal: Schain::proposeNextBlock, the proposal client and     *)
(* server agents, and the databases that survive a crash.  The proposer    *)
(* pushes its proposal to every other node; a node remembers the first     *)
(* hash it accepts from this proposer for this block, signs the hash, and  *)
(* keeps the proposal in memory; enough shares make the proof, which is    *)
(* pushed to every node that still holds the proposal.                     *)
(*                                                                         *)
(* A process may die between any two steps.  On disk are the proposal      *)
(* hashes, the own proposal, the DA shares and the DA proofs; the          *)
(* proposals of others and the send queues are only in memory.  A          *)
(* Byzantine proposer pushes what it likes.                                *)
(***************************************************************************)
EXTENDS Integers, FiniteSets

CONSTANTS
    N,            \* number of nodes
    Proposers,    \* nodes whose proposal is followed
    Faulty,       \* Byzantine nodes
    Unstable,     \* nodes that run the code and may be restarted
    Refusing,     \* nodes whose clock or state root refuses the proposal
    Hashes,       \* proposals that can be built, by their hash
    MaxCrashes    \* bound on the crashes of one behaviour

Nodes == 1 .. N
Honest == Nodes \ Faulty
Stable == Honest \ Unstable
None == -1

ASSUME NAssumption == N \in Nat /\ N > 1

ASSUME NodesAssumption ==
    /\ Proposers \subseteq Nodes
    /\ Faulty \subseteq Nodes
    /\ 3 * Cardinality(Faulty) < N
    /\ Unstable \subseteq Honest
    /\ Refusing \subseteq Nodes

ASSUME HashesAssumption == Hashes \subseteq Nat /\ MaxCrashes \in Nat

VARIABLES
    proposer,  \* the node whose proposal this is
    phase,     \* phase[n]: how far n is with this block
    hashDB,    \* hashDB[n]: hash of the proposal n saw first (ProposalHashDB)
    cache,     \* cache[n]: the proposal n has in memory (BlockProposalDB)
    ownDB,     \* the proposal on the proposer's disk (BlockProposalDB)
    step,      \* step of the proposer's proposeNextBlock
    my,        \* myProposal in proposeNextBlock
    todo,      \* nodes the proposer's workers still push the proposal to
    header,    \* header[n]: the header n accepted and goes on with
    answered,  \* nodes whose share is on its way to the proposer
    shareDB,   \* shareDB[n]: what n's stored share signs (DASigShareDB)
    merged,    \* the thread that completed the shares holds a proof
    proofTo,   \* nodes the workers still push the proof to
    daProof,   \* daProof[n]: what n's DA proof proves (DAProofDB)
    signed,    \* all DA shares that honest nodes ever signed
    built,     \* proposals built so far
    crashes    \* the crashes so far: their numbers and nodes

proposerVars == <<ownDB, step, my, shareDB, merged, built>>
sendVars == <<todo, answered, proofTo>>
serverVars == <<hashDB, cache, header, signed>>
vars == <<proposer, proposerVars, sendVars, serverVars, phase, daProof, crashes>>

Phases == {
    "before",      \* n has not proposed this block itself
    "open",        \* n accepts proposals
    "enough",      \* n has enough DA proofs
    "committed"}   \* n has committed this block
Steps == {"start", "built", "stored", "enqueued", "done"}

RequiredSigners == IF N <= 2 THEN N ELSE (2 * N) \div 3 + 1

-----------------------------------------------------------------------------
(* What the databases do.                                                  *)

\* checkAndSaveHash returns true: the first hash, or the same one again.
HashOK(n, h) == hashDB[n] \in {None, h}

\* What checkAndSaveHash leaves on the disk of n.
SavedHash(n, h) == IF hashDB[n] = None THEN [hashDB EXCEPT ![n] = h] ELSE hashDB

\* Mistake: only the memory is read.
GetBlockProposal_Memory == cache[proposer]

\* getBlockProposal of the own proposal: from memory, else from the disk.
GetBlockProposal ==
    IF cache[proposer] # None THEN cache[proposer] ELSE ownDB

Stored == {n \in Nodes : shareDB[n] # None}

\* Mistake: one share more than required.
Completes_OneMore(n) ==
    shareDB[n] = None /\ Cardinality(Stored) = RequiredSigners

\* addAndMergeSigShareAndVerifySig: a second share of n is dropped; the share
\* that makes the count exactly the required one completes the set.
Completes(n) ==
    shareDB[n] = None /\ Cardinality(Stored) + 1 = RequiredSigners

\* The merged signature verifies only if all shares sign the same hash.
Verifies == \A n \in Stored : shareDB[n] = my

AddShare(n) == IF shareDB[n] = None THEN [shareDB EXCEPT ![n] = my] ELSE shareDB

-----------------------------------------------------------------------------
Init ==
    /\ proposer \in Proposers
    /\ phase = [n \in Honest |-> "before"]
    /\ hashDB = [n \in Honest |-> None]
    /\ cache = [n \in Honest |-> None]
    /\ ownDB = None
    /\ step = "start"
    /\ my = None
    /\ todo = {}
    /\ header = [n \in Honest |-> None]
    /\ answered = {}
    /\ shareDB = [n \in Nodes |-> None]
    /\ merged = FALSE
    /\ proofTo = {}
    /\ daProof = [n \in Honest |-> None]
    /\ signed = {}
    /\ built = {}
    /\ crashes = {}

(* What the rest of node n does: it proposes this block itself, which is   *)
(* when it accepts proposals, gets enough proofs, or commits the block.    *)
OpenBlock(n) ==
    /\ n # proposer
    /\ phase[n] = "before"
    /\ phase' = [phase EXCEPT ![n] = "open"]
    /\ UNCHANGED <<proposerVars, sendVars, serverVars, daProof, crashes, proposer>>

EnoughProofs(n) ==
    /\ phase[n] = "open"
    /\ phase' = [phase EXCEPT ![n] = "enough"]
    /\ UNCHANGED <<proposerVars, sendVars, serverVars, daProof, crashes, proposer>>

CommitBlock(n) ==
    /\ phase[n] # "committed"
    /\ phase' = [phase EXCEPT ![n] = "committed"]
    /\ cache' = [cache EXCEPT ![n] = None]
    /\ UNCHANGED <<proposerVars, sendVars, hashDB, header, signed, daProof, crashes, proposer>>

-----------------------------------------------------------------------------
(* The proposer: proposeNextBlock.                                         *)

\* Mistake: a restarted proposer always builds a new proposal.
BuildProposal_Anew ==
    /\ proposer \in Honest
    /\ step = "start" /\ phase[proposer] # "committed"
    /\ my' \in Hashes \ built
    /\ built' = built \cup {my'}
    /\ step' = "built"
    /\ UNCHANGED <<ownDB, shareDB, merged, sendVars, serverVars, phase, daProof, crashes, proposer>>

\* The proposal of an earlier run if its hash was saved, else a new one.
BuildProposal ==
    /\ proposer \in Honest
    /\ step = "start" /\ phase[proposer] # "committed"
    /\ \/ hashDB[proposer] # None /\ my' = GetBlockProposal
       \/ hashDB[proposer] = None /\ my' \in Hashes \ built
    /\ built' = built \cup {my'}
    /\ step' = "built"
    /\ UNCHANGED <<ownDB, shareDB, merged, sendVars, serverVars, phase, daProof, crashes, proposer>>

\* proposedBlockArrived: a proposal already on the disk is not replaced.
StoreOwnProposal ==
    /\ step = "built"
    /\ step' = "stored"
    /\ IF phase[proposer] = "committed" THEN UNCHANGED <<cache, ownDB>>
       ELSE /\ cache' = [cache EXCEPT ![proposer] = my]
            /\ ownDB' = IF ownDB = None THEN my ELSE ownDB
    /\ UNCHANGED <<my, shareDB, merged, built, sendVars, hashDB, header, signed,
                   phase, daProof, crashes, proposer>>

\* The result of checkAndSaveHash is ignored.
SaveHashAndEnqueue ==
    /\ step = "stored"
    /\ step' = "enqueued"
    /\ hashDB' = SavedHash(proposer, my)
    /\ todo' = Nodes \ {proposer}
    /\ UNCHANGED <<ownDB, my, shareDB, merged, built, answered, proofTo, cache, header,
                   signed, phase, daProof, crashes, proposer>>

\* signDAProof and daProofSigShareArrived of the own share.
SignOwnProposal ==
    /\ step = "enqueued"
    /\ step' = "done"
    /\ signed' = signed \cup {[signer |-> proposer, hash |-> my]}
    /\ shareDB' = AddShare(proposer)
    /\ merged' = (merged \/ (Completes(proposer) /\ Verifies))
    /\ UNCHANGED <<ownDB, my, built, sendVars, hashDB, cache, header, phase,
                   daProof, crashes, proposer>>

-----------------------------------------------------------------------------
(* Pushing the proposal to node n.                                         *)

\* A connection that carries the header of proposal h to n.
Offered(n, h) ==
    \/ proposer \in Faulty
    \/ n \in todo \ answered /\ h = my

Accepts(n, h) == phase[n] = "open" /\ n \notin Refusing /\ HashOK(n, h)

\* Mistake: the header is signed before the transactions have arrived.
AcceptHeader_Sign(n, h) ==
    /\ n # proposer
    /\ Offered(n, h)
    /\ header[n] = None
    /\ Accepts(n, h)
    /\ hashDB' = SavedHash(n, h)
    /\ header' = [header EXCEPT ![n] = h]
    /\ signed' = signed \cup {[signer |-> n, hash |-> h]}
    /\ UNCHANGED <<proposerVars, sendVars, cache, phase, daProof, crashes, proposer>>

\* createProposalResponseHeader ends with CONNECTION_PROCEED.
AcceptHeader(n, h) ==
    /\ n # proposer
    /\ Offered(n, h)
    /\ header[n] = None
    /\ Accepts(n, h)
    /\ hashDB' = SavedHash(n, h)
    /\ header' = [header EXCEPT ![n] = h]
    /\ UNCHANGED <<proposerVars, sendVars, cache, signed, phase, daProof, crashes, proposer>>

\* It ends with an error or a disconnect: the worker is done with n.  A node
\* that has not proposed asks to retry later, so the worker goes on.
RefuseHeader(n) ==
    /\ n \in todo \ answered
    /\ header[n] = None
    /\ phase[n] # "before"
    /\ ~Accepts(n, my)
    /\ todo' = todo \ {n}
    /\ UNCHANGED <<proposerVars, answered, proofTo, serverVars, phase, daProof, crashes, proposer>>

\* The transactions have arrived: n signs the proposal, keeps it in memory
\* unless it has committed the block meanwhile, and sends the share.
SignProposal(n) ==
    /\ header[n] # None
    /\ signed' = signed \cup {[signer |-> n, hash |-> header[n]]}
    /\ cache' = IF phase[n] = "committed" THEN cache
                ELSE [cache EXCEPT ![n] = header[n]]
    /\ header' = [header EXCEPT ![n] = None]
    /\ answered' = answered \cup (todo \cap {n})
    /\ UNCHANGED <<proposerVars, todo, proofTo, hashDB, phase, daProof, crashes, proposer>>

\* A Byzantine receiver refuses the proposal, or signs it.
ByzantineAnswer(n) ==
    /\ n \in Faulty \cap (todo \ answered)
    /\ \/ todo' = todo \ {n} /\ UNCHANGED answered
       \/ answered' = answered \cup {n} /\ UNCHANGED todo
    /\ UNCHANGED <<proposerVars, proofTo, serverVars, phase, daProof, crashes, proposer>>

\* daProofSigShareArrived in the worker of n.  When the merge fails the
\* exception makes the worker push the proposal again.
ShareArrived(n) ==
    /\ n \in answered
    /\ answered' = answered \ {n}
    /\ shareDB' = AddShare(n)
    /\ merged' = (merged \/ (Completes(n) /\ Verifies))
    /\ todo' = IF Completes(n) /\ ~Verifies THEN todo ELSE todo \ {n}
    /\ UNCHANGED <<ownDB, step, my, built, proofTo, serverVars, phase, daProof, crashes, proposer>>

-----------------------------------------------------------------------------
(* The proof.                                                              *)

\* daProofArrived at the proposer, and the proof is put into the queues.
EnqueueProof ==
    /\ merged
    /\ merged' = FALSE
    /\ daProof' = IF phase[proposer] = "committed" \/ daProof[proposer] # None THEN daProof
                  ELSE [daProof EXCEPT ![proposer] = my]
    /\ proofTo' = Nodes \ {proposer}
    /\ UNCHANGED <<ownDB, step, my, shareDB, built, todo, answered, serverVars, phase,
                   crashes, proposer>>

\* A proof of h that can be shown to n.  The queue of a destination is sent
\* in order: first the proposal, then the proof.
ProofOffered(n, h) ==
    \/ /\ proposer \in Faulty
       /\ Cardinality({m \in Honest : [signer |-> m, hash |-> h] \in signed} \cup Faulty)
            >= RequiredSigners
    \/ /\ proposer \in Honest
       /\ n \in proofTo \ todo
       /\ h = my

\* createDAProofResponseHeader ends with CONNECTION_SUCCESS.
AcceptProof(n, h) ==
    /\ n # proposer
    /\ ProofOffered(n, h)
    /\ phase[n] = "open"
    /\ cache[n] = h
    /\ daProof[n] = None
    /\ daProof' = [daProof EXCEPT ![n] = h]
    /\ proofTo' = proofTo \ {n}
    /\ UNCHANGED <<proposerVars, todo, answered, serverVars, phase, crashes, proposer>>

\* Any other status: the proof is not pushed to n again.
RefuseProof(n) ==
    /\ n \in proofTo \ todo
    /\ n \in Honest => ~(phase[n] = "open" /\ cache[n] = my /\ daProof[n] = None)
    /\ proofTo' = proofTo \ {n}
    /\ UNCHANGED <<proposerVars, todo, answered, serverVars, phase, daProof, crashes, proposer>>

-----------------------------------------------------------------------------
CountCrash(n) ==
    /\ Cardinality(crashes) < MaxCrashes
    /\ crashes' = crashes \cup {<<Cardinality(crashes) + 1, n>>}

\* Mistake: the accepted hash is lost with the process.
Crash_ForgetHash(n) ==
    /\ n \in Unstable \ {proposer}
    /\ CountCrash(n)
    /\ cache' = [cache EXCEPT ![n] = None]
    /\ hashDB' = [hashDB EXCEPT ![n] = None]
    /\ header' = [header EXCEPT ![n] = None]
    /\ answered' = answered \ {n}
    /\ UNCHANGED <<proposerVars, todo, proofTo, signed, phase, daProof, proposer>>

\* The process of n dies and is started again.
Crash(n) ==
    /\ n \in Unstable
    /\ CountCrash(n)
    /\ cache' = [cache EXCEPT ![n] = None]
    /\ IF n = proposer
       THEN /\ step' = "start" /\ my' = None /\ merged' = FALSE
            /\ todo' = {} /\ answered' = {} /\ proofTo' = {}
            /\ header' = [m \in Honest |-> None]
       ELSE /\ header' = [header EXCEPT ![n] = None]
            /\ answered' = answered \ {n}
            /\ UNCHANGED <<step, my, merged, todo, proofTo>>
    /\ UNCHANGED <<ownDB, shareDB, built, hashDB, signed, phase, daProof, proposer>>

ProposeNextBlock ==
    BuildProposal \/ StoreOwnProposal \/ SaveHashAndEnqueue \/ SignOwnProposal

Next ==
    \/ ProposeNextBlock
    \/ EnqueueProof
    \/ \E n \in Nodes : ByzantineAnswer(n) \/ ShareArrived(n) \/ RefuseProof(n)
    \/ \E n \in Honest :
        \/ OpenBlock(n)
        \/ EnoughProofs(n)
        \/ CommitBlock(n)
        \/ \E h \in Hashes : AcceptHeader(n, h) \/ AcceptProof(n, h)
        \/ RefuseHeader(n)
        \/ SignProposal(n)
        \/ Crash(n)

Spec == Init /\ [][Next]_vars

(* The threads of the proposer go on, a worker retries until it gets an    *)
(* answer, and an honest server answers.  Every node gets to this block    *)
(* and proposes it.                                                        *)
Fairness ==
    /\ WF_vars(ProposeNextBlock)
    /\ WF_vars(EnqueueProof)
    /\ \A n \in Nodes : WF_vars(ShareArrived(n)) /\ WF_vars(RefuseProof(n))
    /\ \A n \in Honest :
        /\ WF_vars(OpenBlock(n))
        /\ WF_vars(\E h \in Hashes : AcceptHeader(n, h))
        /\ WF_vars(RefuseHeader(n))
        /\ WF_vars(SignProposal(n))
        /\ WF_vars(\E h \in Hashes : AcceptProof(n, h))

FairSpec == Spec /\ Fairness

-----------------------------------------------------------------------------
\* Databases, queues and threads have the types of the code.
TypeOK ==
    /\ proposer \in Proposers
    /\ phase \in [Honest -> Phases]
    /\ hashDB \in [Honest -> Hashes \cup {None}]
    /\ cache \in [Honest -> Hashes \cup {None}]
    /\ ownDB \in Hashes \cup {None}
    /\ step \in Steps
    /\ my \in Hashes \cup {None}
    /\ todo \subseteq Nodes
    /\ header \in [Honest -> Hashes \cup {None}]
    /\ answered \subseteq Nodes
    /\ shareDB \in [Nodes -> Hashes \cup {None}]
    /\ merged \in BOOLEAN
    /\ proofTo \subseteq Nodes
    /\ daProof \in [Honest -> Hashes \cup {None}]
    /\ signed \subseteq [signer : Honest, hash : Hashes]
    /\ built \subseteq Hashes
    /\ crashes \subseteq (1 .. MaxCrashes) \X Unstable

\* All DA proofs that honest nodes accept for this proposer prove the same
\* proposal, whatever a Byzantine proposer pushes to whom, and although the
\* nodes that sign are restarted.
ProofsAgree ==
    \A m, n \in Honest :
        daProof[m] # None /\ daProof[n] # None => daProof[m] = daProof[n]

\* The data are available: when some node has a proof, every signer that is
\* not Byzantine holds the proposal, unless it has been restarted or has
\* committed the block already.
Restarted == {c[2] : c \in crashes}
Holders(h) == {n \in Honest : cache[n] = h \/ phase[n] = "committed"}

ProofBacked ==
    \A n \in Honest : daProof[n] # None =>
        Cardinality(Holders(daProof[n]) \cup Faulty \cup Restarted) >= RequiredSigners

\* "an honest node will only sign a single proposal for a given proposer and
\* block number", the proposer included, restarts or not.
SignsOnce == \A s, t \in signed : s.signer = t.signer => s.hash = t.hash

\* The proposal that a node would commit or serve is the one its proof is
\* about.
HeldMatchesProof ==
    \A n \in Honest :
        daProof[n] # None /\ cache[n] # None => cache[n] = daProof[n]

\* The proposal of a proposer that is not restarted gets a proof, and every
\* node that is not restarted and can accept it gets both, unless some node has
\* enough proofs without it.
EventuallyProven ==
    <>(\/ \E n \in Honest : phase[n] \in {"enough", "committed"}
       \/ proposer \in Faulty \cup Restarted
       \/ \A n \in Stable \ Refusing : daProof[n] # None)
=============================================================================
