------------------------- MODULE BlockProposalProofs -------------------------
(***************************************************************************)
(* Proofs about BlockProposal for every number of nodes with fewer than a  *)
(* third Byzantine, every set of proposals and any number of restarts.     *)
(*                                                                         *)
(* The argument: what a node other than the proposer signs, holds or has a *)
(* proof of is the hash on its disk (ReceiverInv), so that two proofs of a *)
(* Byzantine proposer meet in an honest signer.  An honest proposer has at *)
(* most one share of every node on its disk, so that two proofs of its own *)
(* meet in a stored share (ShareInv, ProofInv).  A node that has signed a  *)
(* proposal keeps it until it commits or is restarted (KeptInv).  The      *)
(* proposer itself signs once if it is restarted at most once: then what   *)
(* it finds on its disk with a saved hash is what it has hashed (OnceInv). *)
(***************************************************************************)
EXTENDS BlockProposal, FiniteSetTheorems, TLAPS

Share(n, h) == [signer |-> n, hash |-> h]

\* The stored shares prove h.
Backed(h) == Cardinality({n \in Nodes : shareDB[n] = h}) >= RequiredSigners

\* The signatures made so far can prove h.
SignersOf(h) == {m \in Honest : Share(m, h) \in signed} \cup Faulty
SignedBy(h) == Cardinality(SignersOf(h)) >= RequiredSigners

CrashInv ==
    /\ IsFiniteSet(crashes)
    /\ \A c \in crashes : c[1] <= Cardinality(crashes)

ReceiverInv ==
    /\ \A n \in Honest \ {proposer} :
        /\ header[n] # None => hashDB[n] = header[n]
        /\ cache[n] # None => hashDB[n] = cache[n]
        /\ daProof[n] # None => hashDB[n] = daProof[n]
        /\ \A s \in signed : s.signer = n => hashDB[n] = s.hash
    /\ proposer \in Honest => header[proposer] = None

\* The queues and threads of an honest proposer are about its proposal.
QueueInv ==
    /\ proposer \in Faulty => step = "start"
    /\ step \in {"start", "built", "stored"} =>
        /\ todo = {} /\ answered = {} /\ proofTo = {} /\ ~merged
        /\ proposer \in Honest => \A n \in Honest : header[n] = None
    /\ step = "start" <=> my = None
    /\ proposer \in Honest => \A n \in Honest : header[n] \in {None, my}
    /\ \A n \in answered \cap Honest : Share(n, my) \in signed

\* The own proposal is on the disk when its hash is, unless it is not needed.
DiskInv ==
    proposer \in Honest /\ phase[proposer] # "committed" =>
        (step \in {"stored", "enqueued", "done"} \/ hashDB[proposer] # None => ownDB # None)

ShareInv ==
    \A n \in Nodes : shareDB[n] # None => n \in Faulty \/ Share(n, shareDB[n]) \in signed

ProofInv ==
    \A h \in Hashes :
        /\ merged \/ proofTo # {} => (my = h => Backed(h))
        /\ \A n \in Honest : daProof[n] = h =>
            SignedBy(h) /\ (proposer \in Honest => Backed(h))

KeptInv ==
    /\ \A s \in signed :
        \/ cache[s.signer] = s.hash
        \/ phase[s.signer] = "committed"
        \/ s.signer \in Restarted
    /\ proposer \in Honest \ Restarted =>
        /\ step \in {"stored", "enqueued", "done"} =>
            cache[proposer] = my \/ phase[proposer] = "committed"
        /\ \A s \in signed : s.signer = proposer => s.hash = my /\ step = "done"

\* The proposer has been restarted at most once.
OneRestart == \A c, d \in crashes : c[2] = proposer /\ d[2] = proposer => c = d

OnceInv ==
    proposer \in Honest /\ OneRestart =>
        /\ \A s \in signed : s.signer = proposer => s.hash = hashDB[proposer]
        /\ my # None /\ hashDB[proposer] # None => hashDB[proposer] = my
        /\ step \in {"enqueued", "done"} => hashDB[proposer] # None
        /\ daProof[proposer] # None => daProof[proposer] = hashDB[proposer]
        /\ cache[proposer] \in {None, my}
        /\ step = "start" /\ hashDB[proposer] # None /\ phase[proposer] # "committed" =>
            ownDB = hashDB[proposer]
        /\ proposer \notin Restarted =>
            /\ step \in {"start", "built"} => ownDB = None
            /\ step \in {"start", "built", "stored"} => hashDB[proposer] = None
            /\ step \in {"stored", "enqueued", "done"} =>
                ownDB = my \/ phase[proposer] = "committed"

IInv ==
    /\ TypeOK /\ CrashInv /\ ReceiverInv /\ QueueInv /\ DiskInv
    /\ ShareInv /\ ProofInv /\ KeptInv /\ OnceInv

-----------------------------------------------------------------------------
(* Quorums.                                                                *)

LEMMA NodesFinite == IsFiniteSet(Nodes) /\ Cardinality(Nodes) = N
<1>1. 1 \in Int /\ N \in Int /\ 1 <= N
    BY NAssumption
<1> QED
    BY <1>1, FS_Interval DEF Nodes

LEMMA NoneNoHash == None \notin Hashes
BY HashesAssumption DEF None

\* Two sets of required signers share more nodes than can be Byzantine.
LEMMA QuorumsMeet ==
    ASSUME NEW S \in SUBSET Nodes, NEW T \in SUBSET Nodes,
           Cardinality(S) >= RequiredSigners, Cardinality(T) >= RequiredSigners
    PROVE  \E n \in S \cap T : n \notin Faulty
<1>1. IsFiniteSet(S) /\ IsFiniteSet(T) /\ IsFiniteSet(S \cup T) /\ IsFiniteSet(S \cap T)
      /\ IsFiniteSet(Faulty)
    BY NodesFinite, NodesAssumption, FS_Subset
<1>2. Cardinality(S \cup T) = Cardinality(S) + Cardinality(T) - Cardinality(S \cap T)
    BY <1>1, FS_Union
<1>3. Cardinality(S \cup T) <= N
    BY NodesFinite, FS_Subset
<1>4. /\ Cardinality(S) \in Nat /\ Cardinality(T) \in Nat /\ Cardinality(S \cup T) \in Nat
      /\ Cardinality(S \cap T) \in Nat /\ Cardinality(Faulty) \in Nat
    BY <1>1, FS_CardinalityType
<1>5. (2 * N) \div 3 \in Nat /\ 2 * N < 3 * ((2 * N) \div 3) + 3
    BY NAssumption
<1>6. RequiredSigners \in Nat /\ 3 * RequiredSigners > 2 * N
    BY <1>5, NAssumption DEF RequiredSigners
<1>7. Cardinality(S \cap T) > Cardinality(Faulty)
    BY <1>2, <1>3, <1>4, <1>6, NodesAssumption, NAssumption
<1>8. S \cap T \subseteq Faulty => Cardinality(S \cap T) <= Cardinality(Faulty)
    BY <1>1, FS_Subset
<1> QED
    BY <1>4, <1>7, <1>8

\* Stored shares and signatures stay.
LEMMA BackedStays ==
    ASSUME TypeOK, \A n \in Nodes : shareDB[n] # None => shareDB'[n] = shareDB[n],
           NEW h \in Hashes, Backed(h)
    PROVE  Backed(h)'
<1> DEFINE S == {n \in Nodes : shareDB[n] = h}
           T == {n \in Nodes : shareDB'[n] = h}
<1>1. S \subseteq T
    BY NoneNoHash
<1>2. IsFiniteSet(T)
    BY NodesFinite, FS_Subset
<1>3. Cardinality(S) <= Cardinality(T) /\ Cardinality(S) \in Nat /\ Cardinality(T) \in Nat
    BY <1>1, <1>2, FS_Subset, FS_CardinalityType
<1>4. RequiredSigners \in Nat
    BY NAssumption DEF RequiredSigners
<1> QED
    BY <1>3, <1>4 DEF Backed

LEMMA SignedByStays ==
    ASSUME signed \subseteq signed', NEW h \in Hashes, SignedBy(h)
    PROVE  SignedBy(h)'
<1>1. SignersOf(h) \subseteq SignersOf(h)'
    BY DEF SignersOf
<1>2. SignersOf(h)' \subseteq Nodes
    BY NodesAssumption DEF SignersOf, Honest
<1>3. IsFiniteSet(SignersOf(h)')
    BY <1>2, NodesFinite, FS_Subset
<1>4. Cardinality(SignersOf(h)) <= Cardinality(SignersOf(h)')
      /\ Cardinality(SignersOf(h)) \in Nat /\ Cardinality(SignersOf(h)') \in Nat
    BY <1>1, <1>3, FS_Subset, FS_CardinalityType
<1>5. RequiredSigners \in Nat
    BY NAssumption DEF RequiredSigners
<1> QED
    BY <1>4, <1>5 DEF SignedBy

\* Stored shares were signed.
LEMMA BackedSigned ==
    ASSUME ShareInv, NEW h \in Hashes, Backed(h)
    PROVE  SignedBy(h)
<1> DEFINE S == {n \in Nodes : shareDB[n] = h}
<1>1. S \subseteq SignersOf(h)
    BY NoneNoHash DEF ShareInv, SignersOf, Honest
<1>2. SignersOf(h) \subseteq Nodes
    BY NodesAssumption DEF SignersOf, Honest
<1>3. IsFiniteSet(SignersOf(h))
    BY <1>2, NodesFinite, FS_Subset
<1>4. Cardinality(S) <= Cardinality(SignersOf(h))
      /\ Cardinality(S) \in Nat /\ Cardinality(SignersOf(h)) \in Nat
    BY <1>1, <1>3, FS_Subset, FS_CardinalityType
<1>5. RequiredSigners \in Nat
    BY NAssumption DEF RequiredSigners
<1> QED
    BY <1>4, <1>5 DEF SignedBy, Backed

\* The proofs and what they rest on only grow.
LEMMA ProofsStay ==
    ASSUME IInv, signed \subseteq signed', UNCHANGED proposer,
           \A n \in Nodes : shareDB[n] # None => shareDB'[n] = shareDB[n],
           UNCHANGED <<daProof, my>> \/ (daProof' = daProof /\ ~merged' /\ proofTo' = {}),
           (merged' \/ proofTo' # {}) => (merged \/ proofTo # {})
    PROVE  ProofInv'
<1>1. \A h \in Hashes : Backed(h) => Backed(h)'
    BY BackedStays DEF IInv
<1>2. \A h \in Hashes : SignedBy(h) => SignedBy(h)'
    BY SignedByStays
<1> QED
    BY <1>1, <1>2 DEF ProofInv, IInv

-----------------------------------------------------------------------------
(* The invariant is preserved by every action.                             *)

\* The rest of a node goes on.
LEMMA OpenHolds ==
    ASSUME IInv, NEW n \in Honest, OpenBlock(n) \/ EnoughProofs(n)
    PROVE  IInv'
<1>1. TypeOK'
    BY DEF IInv, TypeOK, OpenBlock, EnoughProofs, Phases, proposerVars, sendVars,
           serverVars
<1>2. CrashInv'
    BY DEF IInv, CrashInv, OpenBlock, EnoughProofs, Phases, proposerVars, sendVars,
           serverVars
<1>3. ReceiverInv'
    BY NoneNoHash DEF IInv, TypeOK, ReceiverInv, OpenBlock, EnoughProofs, Phases,
           proposerVars, sendVars, serverVars
<1>4. QueueInv'
    BY DEF IInv, TypeOK, QueueInv, OpenBlock, EnoughProofs, Phases, proposerVars,
           sendVars, serverVars
<1>5. DiskInv'
    BY DEF IInv, TypeOK, DiskInv, OpenBlock, EnoughProofs, Phases, proposerVars,
           sendVars, serverVars
<1>6. ShareInv'
    BY DEF IInv, ShareInv, OpenBlock, EnoughProofs, Phases, proposerVars, sendVars,
           serverVars
<1>7. ProofInv'
    BY ProofsStay DEF OpenBlock, EnoughProofs, Phases, proposerVars, sendVars,
           serverVars
<1>8. KeptInv'
    BY DEF IInv, TypeOK, KeptInv, Restarted, OpenBlock, EnoughProofs, Phases,
           proposerVars, sendVars, serverVars
<1>9. OnceInv'
    BY DEF IInv, TypeOK, OnceInv, OneRestart, Restarted, OpenBlock, EnoughProofs,
           Phases, proposerVars, sendVars, serverVars
<1> QED
    BY <1>1, <1>2, <1>3, <1>4, <1>5, <1>6, <1>7, <1>8, <1>9 DEF IInv

\* A node commits the block and forgets the proposal.
LEMMA CommitHolds ==
    ASSUME IInv, NEW n \in Honest, CommitBlock(n)
    PROVE  IInv'
<1>1. TypeOK'
    BY DEF IInv, TypeOK, CommitBlock, Phases, proposerVars, sendVars, serverVars
<1>2. CrashInv'
    BY DEF IInv, CrashInv, CommitBlock, Phases, proposerVars, sendVars, serverVars
<1>3. ReceiverInv'
    BY NoneNoHash DEF IInv, TypeOK, ReceiverInv, CommitBlock, Phases, proposerVars,
           sendVars, serverVars
<1>4. QueueInv'
    BY DEF IInv, TypeOK, QueueInv, CommitBlock, Phases, proposerVars, sendVars,
           serverVars
<1>5. DiskInv'
    BY DEF IInv, TypeOK, DiskInv, CommitBlock, Phases, proposerVars, sendVars,
           serverVars
<1>6. ShareInv'
    BY DEF IInv, ShareInv, CommitBlock, Phases, proposerVars, sendVars, serverVars
<1>7. ProofInv'
    BY ProofsStay DEF CommitBlock, Phases, proposerVars, sendVars, serverVars
<1>8. KeptInv'
    BY DEF IInv, TypeOK, KeptInv, Restarted, CommitBlock, Phases, proposerVars,
           sendVars, serverVars
<1>9. OnceInv'
    BY DEF IInv, TypeOK, OnceInv, OneRestart, Restarted, CommitBlock, Phases,
           proposerVars, sendVars, serverVars
<1> QED
    BY <1>1, <1>2, <1>3, <1>4, <1>5, <1>6, <1>7, <1>8, <1>9 DEF IInv

\* The proposer builds a proposal or finds the one it had.
LEMMA BuildHolds ==
    ASSUME IInv, BuildProposal
    PROVE  IInv'
<1> USE NoneNoHash
<1>0. my' \in Hashes /\ step = "start" /\ my = None /\ ~merged /\ proofTo = {}
    BY DEF IInv, TypeOK, QueueInv, DiskInv, BuildProposal, GetBlockProposal
<1>1. TypeOK'
    BY <1>0 DEF IInv, TypeOK, BuildProposal, GetBlockProposal, Steps, proposerVars,
           sendVars, serverVars
<1>2. CrashInv'
    BY DEF IInv, CrashInv, BuildProposal, GetBlockProposal, Steps, proposerVars,
           sendVars, serverVars
<1>3. ReceiverInv'
    BY NoneNoHash DEF IInv, TypeOK, ReceiverInv, BuildProposal, GetBlockProposal,
           Steps, proposerVars, sendVars, serverVars
<1>4. QueueInv'
    <2>1. /\ todo = {} /\ answered = {} /\ proofTo = {} /\ ~merged
          /\ proposer \in Honest => \A n \in Honest : header[n] = None
          /\ proposer \notin Faulty
        BY <1>0 DEF IInv, QueueInv, BuildProposal, Honest
    <2>2. /\ step' = "built" /\ my' # None
          /\ UNCHANGED <<proposer, todo, answered, proofTo, merged, header>>
        BY <1>0 DEF BuildProposal, sendVars, serverVars
    <2> QED
        BY <2>1, <2>2 DEF QueueInv
<1>5. DiskInv'
    BY DEF IInv, TypeOK, DiskInv, BuildProposal, GetBlockProposal, Steps,
           proposerVars, sendVars, serverVars
<1>6. ShareInv'
    BY DEF IInv, ShareInv, BuildProposal, GetBlockProposal, Steps, proposerVars,
           sendVars, serverVars
<1>7. ProofInv'
    BY <1>0, ProofsStay DEF BuildProposal, GetBlockProposal, Steps, proposerVars,
           sendVars, serverVars
<1>8. KeptInv'
    BY DEF IInv, TypeOK, KeptInv, Restarted, BuildProposal, GetBlockProposal, Steps,
           proposerVars, sendVars, serverVars
<1>9. OnceInv'
    <2> SUFFICES ASSUME proposer \in Honest, OneRestart PROVE OnceInv'
        BY DEF OnceInv, OneRestart, BuildProposal, sendVars, serverVars
    <2>1. hashDB[proposer] # None => my' = hashDB[proposer]
        BY <1>0 DEF IInv, TypeOK, OnceInv, BuildProposal, GetBlockProposal
    <2> QED
        BY <1>0, <2>1 DEF IInv, TypeOK, OnceInv, OneRestart, Restarted,
               BuildProposal, Steps,
                          sendVars, serverVars
<1> QED
    BY <1>1, <1>2, <1>3, <1>4, <1>5, <1>6, <1>7, <1>8, <1>9 DEF IInv

\* The proposer stores its proposal.
LEMMA StoreHolds ==
    ASSUME IInv, StoreOwnProposal
    PROVE  IInv'
<1>1. TypeOK'
    BY DEF IInv, TypeOK, StoreOwnProposal, Steps, proposerVars, sendVars, serverVars
<1>2. CrashInv'
    BY DEF IInv, CrashInv, StoreOwnProposal, Steps, proposerVars, sendVars, serverVars
<1>3. ReceiverInv'
    BY NoneNoHash DEF IInv, TypeOK, ReceiverInv, StoreOwnProposal, Steps,
           proposerVars, sendVars, serverVars
<1>4. QueueInv'
    BY DEF IInv, TypeOK, QueueInv, StoreOwnProposal, Steps, proposerVars, sendVars,
           serverVars
<1>5. DiskInv'
    BY DEF IInv, TypeOK, DiskInv, QueueInv, StoreOwnProposal, Steps, proposerVars,
           sendVars, serverVars
<1>6. ShareInv'
    BY DEF IInv, ShareInv, StoreOwnProposal, Steps, proposerVars, sendVars, serverVars
<1>7. ProofInv'
    BY ProofsStay DEF StoreOwnProposal, Steps, proposerVars, sendVars, serverVars
<1>8. KeptInv'
    BY DEF IInv, TypeOK, KeptInv, Restarted, StoreOwnProposal, Steps, proposerVars,
           sendVars, serverVars
<1>9. OnceInv'
    BY DEF IInv, TypeOK, OnceInv, OneRestart, Restarted, StoreOwnProposal, Steps,
           proposerVars, sendVars, serverVars
<1> QED
    BY <1>1, <1>2, <1>3, <1>4, <1>5, <1>6, <1>7, <1>8, <1>9 DEF IInv

\* The proposer saves the hash of its proposal.
LEMMA SaveHashHolds ==
    ASSUME IInv, SaveHashAndEnqueue
    PROVE  IInv'
<1>1. TypeOK'
    BY DEF IInv, TypeOK, SaveHashAndEnqueue, SavedHash, Steps, proposerVars,
           sendVars, serverVars
<1>2. CrashInv'
    BY DEF IInv, CrashInv, SaveHashAndEnqueue, SavedHash, Steps, proposerVars,
           sendVars, serverVars
<1>3. ReceiverInv'
    BY NoneNoHash DEF IInv, TypeOK, ReceiverInv, SaveHashAndEnqueue, SavedHash,
           Steps, proposerVars, sendVars, serverVars
<1>4. QueueInv'
    BY DEF IInv, TypeOK, QueueInv, SaveHashAndEnqueue, SavedHash, Steps,
           proposerVars, sendVars, serverVars
<1>5. DiskInv'
    BY DEF IInv, TypeOK, DiskInv, SaveHashAndEnqueue, SavedHash, Steps,
           proposerVars, sendVars, serverVars
<1>6. ShareInv'
    BY DEF IInv, ShareInv, SaveHashAndEnqueue, SavedHash, Steps, proposerVars,
           sendVars, serverVars
<1>7. ProofInv'
    BY ProofsStay DEF SaveHashAndEnqueue, SavedHash, Steps, proposerVars, sendVars,
           serverVars
<1>8. KeptInv'
    BY DEF IInv, TypeOK, KeptInv, Restarted, SaveHashAndEnqueue, SavedHash, Steps,
           proposerVars, sendVars, serverVars
<1>9. OnceInv'
    <2> SUFFICES ASSUME proposer \in Honest, OneRestart PROVE OnceInv'
        BY DEF OnceInv, OneRestart, SaveHashAndEnqueue
    <2>1. my # None /\ step = "stored" /\ step' = "enqueued"
        BY DEF IInv, QueueInv, SaveHashAndEnqueue
    <2>2. hashDB'[proposer] = my
        BY <2>1 DEF IInv, TypeOK, OnceInv, SaveHashAndEnqueue, SavedHash
    <2>3. hashDB[proposer] \in {None, my}
        BY <2>1 DEF IInv, OnceInv
    <2>4. UNCHANGED <<proposer, signed, my, daProof, cache, phase, ownDB, crashes>>
        BY DEF SaveHashAndEnqueue
    <2>5. /\ \A t \in signed : t.signer = proposer => t.hash = my
          /\ daProof[proposer] # None => daProof[proposer] = my
        <3>1. /\ \A t \in signed : t.signer = proposer => t.hash = hashDB[proposer]
              /\ daProof[proposer] # None => daProof[proposer] = hashDB[proposer]
            BY DEF IInv, OnceInv
        <3>2. \A t \in signed : t.hash # None
            BY NoneNoHash DEF IInv, TypeOK
        <3> QED
            BY <2>3, <3>1, <3>2
    <2> QED
        BY <2>1, <2>2, <2>4, <2>5 DEF IInv, OnceInv, Restarted
<1> QED
    BY <1>1, <1>2, <1>3, <1>4, <1>5, <1>6, <1>7, <1>8, <1>9 DEF IInv

\* A proposal or a proof is refused.
LEMMA RefuseHolds ==
    ASSUME IInv, NEW n \in Nodes, RefuseHeader(n) \/ RefuseProof(n) \/ ByzantineAnswer(n)
    PROVE  IInv'
<1>1. TypeOK'
    BY DEF IInv, TypeOK, RefuseHeader, RefuseProof, ByzantineAnswer, Honest,
           proposerVars, sendVars, serverVars
<1>2. CrashInv'
    BY DEF IInv, CrashInv, RefuseHeader, RefuseProof, ByzantineAnswer, Honest,
           proposerVars, sendVars, serverVars
<1>3. ReceiverInv'
    BY NoneNoHash DEF IInv, TypeOK, ReceiverInv, RefuseHeader, RefuseProof,
           ByzantineAnswer, Honest, proposerVars, sendVars, serverVars
<1>4. QueueInv'
    BY DEF IInv, TypeOK, QueueInv, RefuseHeader, RefuseProof, ByzantineAnswer,
           Honest, proposerVars, sendVars, serverVars
<1>5. DiskInv'
    BY DEF IInv, TypeOK, DiskInv, RefuseHeader, RefuseProof, ByzantineAnswer,
           Honest, proposerVars, sendVars, serverVars
<1>6. ShareInv'
    BY DEF IInv, ShareInv, RefuseHeader, RefuseProof, ByzantineAnswer, Honest,
           proposerVars, sendVars, serverVars
<1>7. ProofInv'
    BY ProofsStay DEF RefuseHeader, RefuseProof, ByzantineAnswer, Honest,
           proposerVars, sendVars, serverVars
<1>8. KeptInv'
    BY DEF IInv, TypeOK, KeptInv, Restarted, RefuseHeader, RefuseProof,
           ByzantineAnswer, Honest, proposerVars, sendVars, serverVars
<1>9. OnceInv'
    BY DEF IInv, TypeOK, OnceInv, OneRestart, Restarted, RefuseHeader, RefuseProof,
           ByzantineAnswer, Honest, proposerVars, sendVars, serverVars
<1> QED
    BY <1>1, <1>2, <1>3, <1>4, <1>5, <1>6, <1>7, <1>8, <1>9 DEF IInv

\* A node accepts the header of a proposal.
LEMMA AcceptHeaderHolds ==
    ASSUME IInv, NEW n \in Honest, NEW h \in Hashes, AcceptHeader(n, h)
    PROVE  IInv'
<1>1. TypeOK'
    BY DEF IInv, TypeOK, AcceptHeader, Offered, Accepts, HashOK, SavedHash, Honest,
           proposerVars, sendVars, serverVars
<1>2. CrashInv'
    BY DEF IInv, CrashInv, AcceptHeader, Offered, Accepts, HashOK, SavedHash,
           Honest, proposerVars, sendVars, serverVars
<1>3. ReceiverInv'
    BY NoneNoHash DEF IInv, TypeOK, ReceiverInv, AcceptHeader, Offered, Accepts,
           HashOK, SavedHash, Honest, proposerVars, sendVars, serverVars
<1>4. QueueInv'
    BY DEF IInv, TypeOK, QueueInv, AcceptHeader, Offered, Accepts, HashOK,
           SavedHash, Honest, proposerVars, sendVars, serverVars
<1>5. DiskInv'
    BY DEF IInv, TypeOK, DiskInv, AcceptHeader, Offered, Accepts, HashOK, SavedHash,
           Honest, proposerVars, sendVars, serverVars
<1>6. ShareInv'
    BY DEF IInv, ShareInv, AcceptHeader, Offered, Accepts, HashOK, SavedHash,
           Honest, proposerVars, sendVars, serverVars
<1>7. ProofInv'
    BY ProofsStay DEF AcceptHeader, Offered, Accepts, HashOK, SavedHash, Honest,
           proposerVars, sendVars, serverVars
<1>8. KeptInv'
    BY DEF IInv, TypeOK, KeptInv, Restarted, AcceptHeader, Offered, Accepts, HashOK,
           SavedHash, Honest, proposerVars, sendVars, serverVars
<1>9. OnceInv'
    BY DEF IInv, TypeOK, OnceInv, OneRestart, Restarted, AcceptHeader, Offered,
           Accepts, HashOK, SavedHash, Honest, proposerVars, sendVars, serverVars
<1> QED
    BY <1>1, <1>2, <1>3, <1>4, <1>5, <1>6, <1>7, <1>8, <1>9 DEF IInv

\* A node signs the proposal and keeps it.
LEMMA SignHolds ==
    ASSUME IInv, NEW n \in Honest, SignProposal(n)
    PROVE  IInv'
<1> DEFINE s == Share(n, header[n])
<1>0. /\ n # proposer /\ header[n] = hashDB[n]
      /\ signed' = signed \cup {s} /\ s.signer = n /\ s.hash = header[n]
    BY DEF IInv, ReceiverInv, SignProposal, Share
<1>1. TypeOK'
    BY DEF IInv, TypeOK, SignProposal, Share, proposerVars, sendVars, serverVars
<1>2. CrashInv'
    BY DEF IInv, CrashInv, SignProposal, Share, proposerVars, sendVars, serverVars
<1>3. ReceiverInv'
    BY NoneNoHash DEF IInv, TypeOK, ReceiverInv, SignProposal, Share, proposerVars,
           sendVars, serverVars
<1>4. QueueInv'
    <2>1. CASE proposer \in Honest
        BY <2>1, <1>0 DEF IInv, TypeOK, QueueInv, SignProposal, Share, proposerVars
    <2>2. CASE proposer \in Faulty
        BY <2>2, <1>0 DEF IInv, TypeOK, QueueInv, SignProposal, Honest, proposerVars
    <2>3. proposer \in Honest \/ proposer \in Faulty
        BY NodesAssumption DEF IInv, TypeOK, Honest
    <2> QED
        BY <2>1, <2>2, <2>3
<1>5. DiskInv'
    BY DEF IInv, TypeOK, DiskInv, SignProposal, Share, proposerVars, sendVars,
           serverVars
<1>6. ShareInv'
    BY DEF IInv, ShareInv, SignProposal, Share, proposerVars, sendVars, serverVars
<1>7. ProofInv'
    BY ProofsStay DEF SignProposal, Share, proposerVars, sendVars, serverVars
<1>8. KeptInv'
    <2> HIDE DEF s
    <2>1. \A t \in signed' :
            \/ cache'[t.signer] = t.hash
            \/ phase'[t.signer] = "committed"
            \/ t.signer \in Restarted'
        BY <1>0 DEF IInv, TypeOK, KeptInv, ReceiverInv, Restarted, SignProposal
    <2> QED
        BY <1>0, <2>1 DEF IInv, TypeOK, KeptInv, Restarted, SignProposal, proposerVars
<1>9. OnceInv'
    <2> HIDE DEF s
    <2> QED
        BY <1>0 DEF IInv, TypeOK, OnceInv, OneRestart, Restarted, SignProposal,
               proposerVars
<1> QED
    BY <1>1, <1>2, <1>3, <1>4, <1>5, <1>6, <1>7, <1>8, <1>9 DEF IInv

\* A share is stored, and may complete the proof.
LEMMA MergeHolds ==
    ASSUME IInv, NEW n \in Nodes, my \in Hashes, UNCHANGED <<proposer, daProof, my, proofTo>>,
           signed \subseteq signed', shareDB' = AddShare(n),
           merged' = (merged \/ (Completes(n) /\ Verifies))
    PROVE  ProofInv' /\ merged' \in BOOLEAN /\ shareDB' \in [Nodes -> Hashes \cup {None}]
<1>1. \A m \in Nodes : shareDB[m] # None => shareDB'[m] = shareDB[m]
    BY DEF IInv, TypeOK, AddShare
<1>2. \A h \in Hashes : Backed(h) => Backed(h)'
    BY <1>1, BackedStays DEF IInv
<1>3. \A h \in Hashes : SignedBy(h) => SignedBy(h)'
    BY SignedByStays
<1>4. ASSUME NEW h \in Hashes, my = h, Completes(n), Verifies
      PROVE  Backed(h)'
    <2> DEFINE T == {m \in Nodes : shareDB'[m] = h}
    <2>1. T = Stored \cup {n} /\ n \notin Stored
        BY <1>4, NoneNoHash DEF IInv, TypeOK, AddShare, Completes, Verifies, Stored
    <2>2. IsFiniteSet(Stored)
        BY NodesFinite, FS_Subset DEF Stored
    <2>3. Cardinality(T) = RequiredSigners
        BY <1>4, <2>1, <2>2, FS_AddElement DEF Completes
    <2>4. RequiredSigners \in Nat
        BY NAssumption DEF RequiredSigners
    <2> QED
        BY <2>3, <2>4 DEF Backed
<1>5. ProofInv'
    BY <1>2, <1>3, <1>4 DEF ProofInv, IInv
<1>6. merged' \in BOOLEAN
    OBVIOUS
<1>7. shareDB' \in [Nodes -> Hashes \cup {None}]
    BY DEF IInv, TypeOK, AddShare
<1> QED
    BY <1>5, <1>6, <1>7

\* The proposer signs and stores its own share.
LEMMA SignOwnHolds ==
    ASSUME IInv, SignOwnProposal
    PROVE  IInv'
<1> DEFINE t == Share(proposer, my)
<1>0. /\ proposer \in Honest /\ proposer \in Nodes /\ my \in Hashes
      /\ step = "enqueued" /\ step' = "done"
      /\ signed' = signed \cup {t} /\ t.signer = proposer /\ t.hash = my
      /\ t \in [signer : Honest, hash : Hashes]
    BY NodesAssumption, NoneNoHash DEF IInv, TypeOK, QueueInv, SignOwnProposal,
           Share, Honest
<1>10. UNCHANGED <<ownDB, my, built, todo, answered, proofTo, hashDB, cache, header, phase,
                   daProof, crashes, proposer>>
    BY DEF SignOwnProposal, sendVars
<1>11. ProofInv' /\ merged' \in BOOLEAN /\ shareDB' \in [Nodes -> Hashes \cup {None}]
    BY <1>0, <1>10, MergeHolds DEF SignOwnProposal
<1>12. shareDB' = AddShare(proposer)
    BY DEF SignOwnProposal
<1> HIDE DEF t
<1>1. TypeOK'
    BY <1>0, <1>10, <1>11 DEF IInv, TypeOK, Steps
<1>2. CrashInv'
    BY <1>10 DEF IInv, CrashInv
<1>3. ReceiverInv'
    BY <1>0, <1>10 DEF IInv, ReceiverInv
<1>4. QueueInv'
    BY <1>0, <1>10 DEF IInv, QueueInv
<1>5. DiskInv'
    BY <1>0, <1>10 DEF IInv, DiskInv
<1>6. ShareInv'
    BY <1>0, <1>10, <1>12 DEF IInv, TypeOK, ShareInv, AddShare, t
<1>7. ProofInv'
    BY <1>11
<1>8. KeptInv'
    BY <1>0, <1>10 DEF IInv, KeptInv, Restarted
<1>9. OnceInv'
    <2> SUFFICES ASSUME OneRestart PROVE OnceInv'
        BY <1>10 DEF OnceInv, OneRestart
    <2>1. hashDB[proposer] = my
        BY <1>0, NoneNoHash DEF IInv, OnceInv
    <2> QED
        BY <1>0, <1>10, <2>1 DEF IInv, OnceInv, Restarted
<1> QED
    BY <1>1, <1>2, <1>3, <1>4, <1>5, <1>6, <1>7, <1>8, <1>9 DEF IInv

\* A share arrives at the proposer.
LEMMA ShareArrivedHolds ==
    ASSUME IInv, NEW n \in Nodes, ShareArrived(n)
    PROVE  IInv'
<1>0. my \in Hashes /\ step \in {"enqueued", "done"}
    BY DEF IInv, TypeOK, QueueInv, ShareArrived, Steps
<1>10. UNCHANGED <<ownDB, step, my, built, proofTo, serverVars, phase, daProof, crashes, proposer>>
    BY DEF ShareArrived
<1>11. ProofInv' /\ merged' \in BOOLEAN /\ shareDB' \in [Nodes -> Hashes \cup {None}]
    BY <1>0, <1>10, MergeHolds DEF ShareArrived, serverVars
<1>12. todo' \subseteq todo /\ answered' \subseteq answered /\ n \in answered /\ shareDB' = AddShare(n)
    BY DEF ShareArrived
<1>13. UNCHANGED <<hashDB, cache, header, signed>>
    BY <1>10 DEF serverVars
<1>1. TypeOK'
    BY <1>10, <1>11, <1>12, <1>13 DEF IInv, TypeOK
<1>2. CrashInv'
    BY <1>10 DEF IInv, CrashInv
<1>3. ReceiverInv'
    BY <1>10, <1>13 DEF IInv, ReceiverInv
<1>4. QueueInv'
    BY <1>0, <1>10, <1>12, <1>13 DEF IInv, QueueInv
<1>5. DiskInv'
    BY <1>10, <1>13 DEF IInv, DiskInv
<1>6. ShareInv'
    <2>1. n \in Faulty \/ Share(n, my) \in signed
        BY <1>12 DEF IInv, QueueInv, Honest
    <2> QED
        BY <1>12, <1>13, <2>1 DEF IInv, TypeOK, ShareInv, AddShare
<1>7. ProofInv'
    BY <1>11
<1>8. KeptInv'
    BY <1>10, <1>13 DEF IInv, KeptInv, Restarted
<1>9. OnceInv'
    BY <1>10, <1>13 DEF IInv, OnceInv, OneRestart, Restarted
<1> QED
    BY <1>1, <1>2, <1>3, <1>4, <1>5, <1>6, <1>7, <1>8, <1>9 DEF IInv

\* The proposer accepts its proof and sends it.
LEMMA EnqueueProofHolds ==
    ASSUME IInv, EnqueueProof
    PROVE  IInv'
<1>0. my \in Hashes /\ step \in {"enqueued", "done"} /\ proposer \in Honest
    BY NodesAssumption DEF IInv, TypeOK, QueueInv, EnqueueProof, Steps, Honest
<1>10. UNCHANGED <<ownDB, step, my, shareDB, built, todo, answered, hashDB, cache, header, signed,
                   phase, crashes, proposer>>
    BY DEF EnqueueProof, serverVars
<1>1. TypeOK'
    BY DEF IInv, TypeOK, EnqueueProof, proposerVars, sendVars, serverVars
<1>2. CrashInv'
    BY DEF IInv, CrashInv, EnqueueProof, proposerVars, sendVars, serverVars
<1>3. ReceiverInv'
    BY NoneNoHash DEF IInv, TypeOK, ReceiverInv, EnqueueProof, proposerVars,
           sendVars, serverVars
<1>4. QueueInv'
    BY DEF IInv, TypeOK, QueueInv, EnqueueProof, proposerVars, sendVars, serverVars
<1>5. DiskInv'
    BY DEF IInv, TypeOK, DiskInv, EnqueueProof, proposerVars, sendVars, serverVars
<1>6. ShareInv'
    BY DEF IInv, ShareInv, EnqueueProof, proposerVars, sendVars, serverVars
<1>7. ProofInv'
    <2>1. \A h \in Hashes : (Backed(h)' <=> Backed(h)) /\ (SignedBy(h)' <=> SignedBy(h))
        BY <1>10 DEF Backed, SignedBy, SignersOf
    <2>2. Backed(my) /\ SignedBy(my)
        BY <1>0, BackedSigned DEF IInv, ProofInv, EnqueueProof
    <2>3. \A n \in Honest : daProof'[n] \in {daProof[n], my}
        BY DEF EnqueueProof, IInv, TypeOK
    <2> QED
        BY <1>0, <1>10, <2>1, <2>2, <2>3 DEF IInv, ProofInv
<1>8. KeptInv'
    BY DEF IInv, TypeOK, KeptInv, Restarted, EnqueueProof, proposerVars, sendVars,
           serverVars
<1>9. OnceInv'
    <2> SUFFICES ASSUME OneRestart PROVE OnceInv'
        BY <1>10 DEF OnceInv, OneRestart
    <2>1. hashDB[proposer] = my
        BY <1>0, NoneNoHash DEF IInv, OnceInv
    <2>2. daProof'[proposer] \in {daProof[proposer], my}
        BY <1>0 DEF EnqueueProof, IInv, TypeOK
    <2> QED
        BY <1>0, <1>10, <2>1, <2>2 DEF IInv, OnceInv, Restarted
<1> QED
    BY <1>1, <1>2, <1>3, <1>4, <1>5, <1>6, <1>7, <1>8, <1>9 DEF IInv

\* A node accepts a proof of the proposal it holds.
LEMMA AcceptProofHolds ==
    ASSUME IInv, NEW n \in Honest, NEW h \in Hashes, AcceptProof(n, h)
    PROVE  IInv'
<1>1. TypeOK'
    BY DEF IInv, TypeOK, AcceptProof, ProofOffered, proposerVars, sendVars, serverVars
<1>2. CrashInv'
    BY DEF IInv, CrashInv, AcceptProof, ProofOffered, proposerVars, sendVars, serverVars
<1>3. ReceiverInv'
    BY NoneNoHash DEF IInv, TypeOK, ReceiverInv, AcceptProof, ProofOffered,
           proposerVars, sendVars, serverVars
<1>4. QueueInv'
    BY DEF IInv, TypeOK, QueueInv, AcceptProof, ProofOffered, proposerVars,
           sendVars, serverVars
<1>5. DiskInv'
    BY DEF IInv, TypeOK, DiskInv, AcceptProof, ProofOffered, proposerVars, sendVars,
           serverVars
<1>6. ShareInv'
    BY DEF IInv, ShareInv, AcceptProof, ProofOffered, proposerVars, sendVars, serverVars
<1>7. ProofInv'
    <2>1. \A i \in Hashes : (Backed(i)' <=> Backed(i)) /\ (SignedBy(i)' <=> SignedBy(i))
        BY DEF Backed, SignedBy, SignersOf, AcceptProof, proposerVars, serverVars
    <2>2. SignedBy(h) /\ (proposer \in Honest => Backed(h))
        <3>1. CASE proposer \in Faulty
            BY <3>1 DEF AcceptProof, ProofOffered, SignedBy, SignersOf, Share, Honest
        <3>2. CASE proposer \in Honest
            BY <3>2, BackedSigned DEF AcceptProof, ProofOffered, IInv, ProofInv, Honest
        <3>3. proposer \in Honest \/ proposer \in Faulty
            BY NodesAssumption DEF IInv, TypeOK, Honest
        <3> QED
            BY <3>1, <3>2, <3>3
    <2>3. /\ \A m \in Honest : daProof'[m] = daProof[m] \/ daProof'[m] = h
          /\ proofTo' # {} => proofTo # {}
          /\ UNCHANGED <<proposer, my, merged>>
        BY DEF AcceptProof, proposerVars, IInv, TypeOK
    <2> QED
        BY <2>1, <2>2, <2>3 DEF IInv, ProofInv
<1>8. KeptInv'
    BY DEF IInv, TypeOK, KeptInv, Restarted, AcceptProof, ProofOffered,
           proposerVars, sendVars, serverVars
<1>9. OnceInv'
    BY DEF IInv, TypeOK, OnceInv, OneRestart, Restarted, AcceptProof, ProofOffered,
           proposerVars, sendVars, serverVars
<1> QED
    BY <1>1, <1>2, <1>3, <1>4, <1>5, <1>6, <1>7, <1>8, <1>9 DEF IInv

\* A process dies and is started again.
LEMMA CrashHolds ==
    ASSUME IInv, NEW n \in Honest, Crash(n)
    PROVE  IInv'
<1> DEFINE c == <<Cardinality(crashes) + 1, n>>
<1>0. /\ n \in Unstable /\ crashes' = crashes \cup {c} /\ c[1] = Cardinality(crashes) + 1 /\ c[2] = n
      /\ Cardinality(crashes) < MaxCrashes
    BY DEF Crash, CountCrash
<1>10. Cardinality(crashes) \in Nat /\ MaxCrashes \in Nat
    BY FS_CardinalityType, HashesAssumption DEF IInv, CrashInv
<1>11. c \notin crashes
    BY <1>0, <1>10 DEF IInv, CrashInv, TypeOK
<1>12. c \in (1 .. MaxCrashes) \X Unstable
    BY <1>0, <1>10
<1>13. Restarted' = Restarted \cup {n}
    BY <1>0 DEF Restarted
<1> HIDE DEF c
<1>1. TypeOK'
    BY <1>0, <1>12 DEF IInv, TypeOK, Steps, Crash, proposerVars, sendVars, serverVars
<1>2. CrashInv'
    <2>1. IsFiniteSet(crashes') /\ Cardinality(crashes') = Cardinality(crashes) + 1
        BY <1>0, <1>11, FS_AddElement DEF IInv, CrashInv
    <2>2. \A d \in crashes : d[1] \in Nat /\ d[1] <= Cardinality(crashes)
        BY DEF IInv, CrashInv, TypeOK
    <2> QED
        BY <1>0, <1>10, <2>1, <2>2 DEF CrashInv
<1>3. ReceiverInv'
    BY NoneNoHash DEF IInv, TypeOK, ReceiverInv, Crash, CountCrash, proposerVars,
           sendVars, serverVars
<1>4. QueueInv'
    BY DEF IInv, TypeOK, QueueInv, Crash, CountCrash, proposerVars, sendVars, serverVars
<1>5. DiskInv'
    BY DEF IInv, TypeOK, DiskInv, Crash, CountCrash, proposerVars, sendVars, serverVars
<1>6. ShareInv'
    BY DEF IInv, ShareInv, Crash, CountCrash, proposerVars, sendVars, serverVars
<1>7. ProofInv'
    BY ProofsStay DEF Crash, CountCrash, proposerVars, sendVars, serverVars
<1>8. KeptInv'
    <2>1. UNCHANGED <<signed, phase, proposer>> /\ cache' = [cache EXCEPT ![n] = None]
        BY DEF Crash
    <2>2. proposer # n => UNCHANGED <<step, my>>
        BY DEF Crash
    <2> QED
        BY <1>13, <2>1, <2>2 DEF IInv, TypeOK, KeptInv
<1>9. OnceInv'
    <2> SUFFICES ASSUME proposer \in Honest, OneRestart' PROVE OnceInv'
        BY DEF OnceInv, Crash
    <2>1. OneRestart
        BY <1>0 DEF OneRestart, Crash
    <2>2. UNCHANGED <<signed, phase, proposer, hashDB, ownDB, daProof>>
          /\ cache' = [cache EXCEPT ![n] = None]
        BY DEF Crash
    <2>3. CASE n = proposer
        <3>1. proposer \notin Restarted
            BY <1>0, <1>11, <2>2, <2>3 DEF OneRestart, Restarted
        <3>2. step' = "start" /\ my' = None
            BY <2>3 DEF Crash
        <3>3. hashDB[proposer] # None /\ phase[proposer] # "committed" => ownDB = hashDB[proposer]
            BY <2>1, <3>1 DEF IInv, TypeOK, OnceInv, QueueInv, Steps
        <3> QED
            BY <1>13, <2>1, <2>2, <2>3, <3>2, <3>3 DEF IInv, TypeOK, OnceInv
    <2>4. CASE n # proposer
        <3>1. UNCHANGED <<step, my>>
            BY <2>4 DEF Crash
        <3> QED
            BY <1>13, <2>1, <2>2, <2>4, <3>1 DEF IInv, TypeOK, OnceInv
    <2> QED
        BY <2>3, <2>4
<1> QED
    BY <1>1, <1>2, <1>3, <1>4, <1>5, <1>6, <1>7, <1>8, <1>9 DEF IInv

LEMMA InitHolds == Init => IInv
<1> SUFFICES ASSUME Init PROVE IInv
    OBVIOUS
<1>1. TypeOK
    BY DEF Init, TypeOK, Phases, Steps
<1>2. CrashInv
    BY FS_EmptySet DEF Init, CrashInv
<1>3. Restarted = {}
    BY DEF Init, Restarted
<1>4. ReceiverInv /\ QueueInv /\ DiskInv /\ ShareInv
    BY DEF Init, ReceiverInv, QueueInv, DiskInv, ShareInv
<1>5. ProofInv
    BY NoneNoHash DEF Init, ProofInv
<1>6. KeptInv /\ OnceInv
    BY <1>3 DEF Init, KeptInv, OnceInv
<1> QED
    BY <1>1, <1>2, <1>4, <1>5, <1>6 DEF IInv

LEMMA StutterHolds ==
    ASSUME IInv, UNCHANGED vars
    PROVE  IInv'
<1>0. UNCHANGED <<proposer, ownDB, step, my, shareDB, merged, built, todo, answered, proofTo,
                  hashDB, cache, header, signed, phase, daProof, crashes>>
    BY DEF vars, proposerVars, sendVars, serverVars
<1>1. TypeOK' /\ CrashInv'
    BY <1>0 DEF IInv, TypeOK, CrashInv
<1>2. ReceiverInv' /\ QueueInv' /\ DiskInv' /\ ShareInv'
    BY <1>0 DEF IInv, ReceiverInv, QueueInv, DiskInv, ShareInv
<1>3. ProofInv'
    BY <1>0, ProofsStay
<1>4. KeptInv' /\ OnceInv'
    BY <1>0 DEF IInv, KeptInv, OnceInv, OneRestart, Restarted
<1> QED
    BY <1>1, <1>2, <1>3, <1>4 DEF IInv

LEMMA NextHolds == IInv /\ [Next]_vars => IInv'
<1> SUFFICES ASSUME IInv, [Next]_vars PROVE IInv'
    OBVIOUS
<1>1. CASE ProposeNextBlock
    BY <1>1, BuildHolds, StoreHolds, SaveHashHolds, SignOwnHolds DEF ProposeNextBlock
<1>2. CASE EnqueueProof
    BY <1>2, EnqueueProofHolds
<1>3. ASSUME NEW n \in Nodes, ByzantineAnswer(n) \/ ShareArrived(n) \/ RefuseProof(n)
      PROVE  IInv'
    BY <1>3, RefuseHolds, ShareArrivedHolds
<1>4. ASSUME NEW n \in Honest, OpenBlock(n) \/ EnoughProofs(n) \/ CommitBlock(n)
      PROVE  IInv'
    BY <1>4, OpenHolds, CommitHolds
<1>5. ASSUME NEW n \in Honest, NEW h \in Hashes, AcceptHeader(n, h) \/ AcceptProof(n, h)
      PROVE  IInv'
    BY <1>5, AcceptHeaderHolds, AcceptProofHolds
<1>6. ASSUME NEW n \in Honest, RefuseHeader(n) \/ SignProposal(n) \/ Crash(n)
      PROVE  IInv'
    <2>1. n \in Nodes
        BY DEF Honest
    <2> QED
        BY <1>6, <2>1, RefuseHolds, SignHolds, CrashHolds
<1>7. CASE UNCHANGED vars
    BY <1>7, StutterHolds
<1> QED
    BY <1>1, <1>2, <1>3, <1>4, <1>5, <1>6, <1>7 DEF Next

-----------------------------------------------------------------------------
(* What the invariant gives.                                               *)

\* Every reachable state of the proposer, the receivers and their databases
\* satisfies the inductive invariant.
THEOREM Invariance == Spec => []IInv
<1>1. Init => IInv
    BY InitHolds
<1>2. IInv /\ [Next]_vars => IInv'
    BY NextHolds
<1> QED
    BY <1>1, <1>2, PTL DEF Spec

\* Databases, queues and threads have the types of the code, for every number
\* of nodes, proposals and restarts.
THEOREM TypeCorrect == Spec => []TypeOK
<1>1. IInv => TypeOK
    BY DEF IInv
<1> QED
    BY <1>1, Invariance, PTL

LEMMA ProofsAgreeInIInv == IInv => ProofsAgree
<1> SUFFICES ASSUME IInv, NEW m \in Honest, NEW n \in Honest,
                    daProof[m] # None, daProof[n] # None
             PROVE  daProof[m] = daProof[n]
    BY DEF ProofsAgree
<1> DEFINE h == daProof[m]
           i == daProof[n]
<1>1. h \in Hashes /\ i \in Hashes
    BY DEF IInv, TypeOK
<1>2. /\ SignedBy(h) /\ SignedBy(i)
      /\ proposer \in Honest => Backed(h) /\ Backed(i)
    BY <1>1 DEF IInv, ProofInv
<1> HIDE DEF h, i
<1>3. CASE proposer \in Honest
    <2> DEFINE S == {k \in Nodes : shareDB[k] = h}
               T == {k \in Nodes : shareDB[k] = i}
    <2>1. PICK k \in S \cap T : k \notin Faulty
        <3>1. Cardinality(S) >= RequiredSigners /\ Cardinality(T) >= RequiredSigners
            BY <1>2, <1>3 DEF Backed
        <3>2. S \in SUBSET Nodes /\ T \in SUBSET Nodes
            OBVIOUS
        <3> HIDE DEF S, T
        <3> QED
            BY <3>1, <3>2, QuorumsMeet
    <2> QED
        BY <2>1 DEF h, i
<1>4. CASE proposer \in Faulty
    <2>1. SignersOf(h) \in SUBSET Nodes /\ SignersOf(i) \in SUBSET Nodes
        BY NodesAssumption DEF SignersOf, Honest
    <2>2. PICK k \in SignersOf(h) \cap SignersOf(i) : k \notin Faulty
        BY <1>2, <2>1, QuorumsMeet DEF SignedBy
    <2>3. k \in Honest \ {proposer} /\ Share(k, h) \in signed /\ Share(k, i) \in signed
        BY <1>4, <2>2 DEF SignersOf
    <2>4. hashDB[k] = h /\ hashDB[k] = i
        BY <2>3 DEF IInv, ReceiverInv, Share
    <2> QED
        BY <2>4 DEF h, i
<1>5. proposer \in Honest \/ proposer \in Faulty
    BY NodesAssumption DEF IInv, TypeOK, Honest
<1> QED
    BY <1>3, <1>4, <1>5

\* All DA proofs that honest nodes accept for a proposer prove the same
\* proposal, for every N, whatever a Byzantine proposer pushes to whom and
\* however often the signers and the proposer are restarted.
THEOREM ProofsAgreeHolds == Spec => []ProofsAgree
BY Invariance, ProofsAgreeInIInv, PTL

LEMMA ProofBackedInIInv == IInv => ProofBacked
<1> SUFFICES ASSUME IInv, NEW n \in Honest, daProof[n] # None
             PROVE  Cardinality(Holders(daProof[n]) \cup Faulty \cup Restarted)
                        >= RequiredSigners
    BY DEF ProofBacked
<1> DEFINE h == daProof[n]
           H == Holders(h) \cup Faulty \cup Restarted
<1>1. h \in Hashes
    BY DEF IInv, TypeOK
<1>2. SignedBy(h)
    BY <1>1 DEF IInv, ProofInv
<1> HIDE DEF h
<1>3. SignersOf(h) \subseteq H
    <2> SUFFICES ASSUME NEW m \in Honest, Share(m, h) \in signed
                 PROVE  m \in H
        BY DEF SignersOf
    <2>1. cache[m] = h \/ phase[m] = "committed" \/ m \in Restarted
        BY DEF IInv, KeptInv, Share
    <2> QED
        BY <2>1 DEF Holders
<1>4. H \subseteq Nodes
    <2>1. Restarted \subseteq Unstable
        BY DEF IInv, TypeOK, Restarted
    <2> QED
        BY <2>1, NodesAssumption DEF Holders, Honest
<1>5. IsFiniteSet(H)
    BY <1>4, NodesFinite, FS_Subset
<1>6. /\ Cardinality(SignersOf(h)) <= Cardinality(H)
      /\ Cardinality(SignersOf(h)) \in Nat /\ Cardinality(H) \in Nat
    BY <1>3, <1>5, FS_Subset, FS_CardinalityType
<1>7. RequiredSigners \in Nat
    BY NAssumption DEF RequiredSigners
<1>8. Cardinality(H) >= RequiredSigners
    BY <1>2, <1>6, <1>7 DEF SignedBy
<1> QED
    BY <1>8 DEF h

\* The data are available, for every N: a DA proof means that as many nodes as
\* sign one hold the proposal, Byzantine, restarted and committed nodes aside.
THEOREM ProofBackedHolds == Spec => []ProofBacked
BY Invariance, ProofBackedInIInv, PTL

LEMMA SignsOnceInIInv == IInv => (OneRestart => SignsOnce)
<1> SUFFICES ASSUME IInv, OneRestart, NEW s \in signed, NEW t \in signed, s.signer = t.signer
             PROVE  s.hash = t.hash
    BY DEF SignsOnce
<1>1. s.signer \in Honest
    BY DEF IInv, TypeOK
<1>2. CASE s.signer = proposer
    BY <1>1, <1>2 DEF IInv, OnceInv
<1>3. CASE s.signer # proposer
    BY <1>1, <1>3 DEF IInv, ReceiverInv
<1> QED
    BY <1>2, <1>3

\* An honest node signs one proposal per proposer and block however often the
\* receivers are restarted, as long as the proposer itself is restarted at most
\* once (with two restarts the proposer can sign two, see the run prop_twice).
THEOREM SignsOnceHolds == Spec => [](OneRestart => SignsOnce)
BY Invariance, SignsOnceInIInv, PTL

LEMMA HeldMatchesInIInv == IInv => (OneRestart => HeldMatchesProof)
<1> SUFFICES ASSUME IInv, OneRestart, NEW n \in Honest, daProof[n] # None, cache[n] # None
             PROVE  cache[n] = daProof[n]
    BY DEF HeldMatchesProof
<1>1. CASE n = proposer
    BY <1>1 DEF IInv, OnceInv
<1>2. CASE n # proposer
    BY <1>2 DEF IInv, ReceiverInv
<1> QED
    BY <1>1, <1>2

\* The proposal that a node would commit or serve is the one its DA proof is
\* about, as long as the proposer is restarted at most once.
THEOREM HeldMatchesProofHolds == Spec => [](OneRestart => HeldMatchesProof)
BY Invariance, HeldMatchesInIInv, PTL
=============================================================================
