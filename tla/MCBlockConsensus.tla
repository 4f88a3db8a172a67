-------------------------- MODULE MCBlockConsensus --------------------------
(* Instances of BlockConsensus for TLC. *)
EXTENDS BlockConsensus

Nobody == {}
Three == {3}
Four == {4}
OneTwoFour == {1, 2, 4}
One == {1}

NoShares == {}
LyingShare == [signer : Faulty, index : {2}]

(* Scheduling constraints.  They delay what fairness owes and never forbid *)
(* it, because what must come first is owed too: a node always goes on by  *)
(* itself until it has started, and a decision that is owed waits only for *)
(* others that are.  Of the decisions of contested binary consensuses,     *)
(* which nobody is owed, they leave out some orders.                       *)
(*                                                                         *)
(* ScanOrder(n): n learns the decisions it is owed in the order of the     *)
(* scan, and then the others.  StartsBefore(n, m): m does nothing before n *)
(* has started.  DecidesBefore(n, m): m learns a decision once n has       *)
(* decided, or learnt all it is owed.                                      *)
Known(a) == a.trueDecisions \cup a.falseDecisions

Learnt(n) == Known(agent'[n]) \ Known(agent[n])

Owed(n) == {p \in Nodes \ Known(agent[n]) : Unanimous(p)}

Position(p) == CHOOSE i \in 0 .. N - 1 : ProposerAt(i) = p

ScanOrder(n) == \A p \in Learnt(n) :
    /\ \A q \in Owed(n) : Unanimous(p) => Position(p) <= Position(q)
    /\ Unanimous(p) \/ Owed(n) = {}
    /\ Unanimous(p) \/ \A q \in Nodes \ Known(agent[n]) : Position(p) <= Position(q)

StartsBefore(n, m) ==
    ~agent[n].started /\ committed[n] = None =>
        agent'[m] = agent[m] /\ proposals'[m] = proposals[m]

DecidesBefore(n, m) == \A p \in Learnt(m) :
    \/ agent[n].decidedIndex # None \/ committed[n] # None
    \/ Unanimous(p) /\ Owed(n) = {}

NodesInTurn ==
    /\ \A n \in {1, 2}, m \in Honest : n < m => StartsBefore(n, m)
    /\ DecidesBefore(1, 2)

\* Node n gets the shares that wait for it, and its workers end, in the order
\* of the nodes.
SharesInOrder(n) ==
    \A i \in Indices : \A q \in agent'[n].sigShares[i] \ (agent[n].sigShares[i] \cup {n}) :
        \A s \in shares : s.signer < q /\ s.signer # n =>
            s.signer \in agent'[n].sigShares[s.index]

WorkersInOrder(n) ==
    agent'[n].downloading # None =>
        \A q \in agent[n].workers \ agent'[n].workers, m \in agent[n].workers : q <= m

\* Node n gets the proposals in the order of the proposers, each one with its
\* proof.
Arrives(n) == (proposals'[n] \ proposals[n]) \cup (daProofs'[n] \ daProofs[n])

ProofsInOrder(n) ==
    \A p \in Arrives(n), q \in Proven : q < p => q \in daProofs[n]

\* All proofs of n arrive before it starts.
StartsWithProofs(n) ==
    agent'[n].started /\ ~agent[n].started =>
        daProofs[n] = Proven \/ committed[n] # None

\* Node n starts once the thread with a completed vector has gone on.
StartsAlone(n) ==
    agent'[n].started /\ ~agent[n].started => agent[n].vectorReady = {}

\* Node n learns no decision before m has started.
DecidesAfterStart(n, m) ==
    Learnt(n) # {} => agent[m].started \/ committed[m] # None

\* Once n has started, proposals and proofs wait until it has decided, or
\* learnt all it is owed.
LateProofs(n) ==
    Arrives(n) # {} /\ agent[n].started =>
        \/ agent[n].decidedIndex # None
        \/ Owed(n) = {} /\ \A m \in Stable : agent[m].started

\* The vector of n is saved when n has one of these numbers of proofs, and
\* further proofs wait for that.
SavesWith(n, counts) ==
    /\ vectors'[n] # vectors[n] => Cardinality(daProofs[n]) \in counts
    /\ daProofs'[n] # daProofs[n] /\ vectors[n] = {} =>
        \E k \in counts : k > Cardinality(daProofs[n])

\* Byzantine shares reach only node 1, after it has decided; nothing is owed
\* to their sender.
AllInOrder ==
    /\ \A n \in Honest, i \in Indices :
        \/ agent'[n].sigShares[i] \subseteq Honest
        \/ n = 1 /\ agent[1].decidedIndex # None
    /\ DecidesAfterStart(1, 2)
    /\ \A n \in Honest :
        ScanOrder(n) /\ SharesInOrder(n) /\ WorkersInOrder(n)
        /\ ProofsInOrder(n) /\ StartsAlone(n)
    /\ SavesWith(1, {0, 3}) /\ SavesWith(2, {2, 3}) /\ SavesWith(3, {2})
    /\ StartsWithProofs(1) /\ LateProofs(2) /\ LateProofs(3)
    /\ \A n, m \in Honest : n < m => StartsBefore(n, m) /\ DecidesBefore(n, m)

(* Node 3 is slow, gets no proposal and is restarted: what it does may     *)
(* happen at any time and in any order.  Node 4 is down.  Only node 1 gets *)
(* proofs, up to all that it needs, and node 2 no share but its own.       *)
SlowRestarts ==
    /\ NodesInTurn
    /\ ScanOrder(1) /\ ScanOrder(2)
    /\ ProofsInOrder(1)
    /\ proposals'[2] \subseteq {2} /\ proposals'[3] \subseteq {3}
    /\ \A i \in Indices : agent'[2].sigShares[i] \subseteq {2}
    /\ daProofs'[2] = {}
    /\ agent'[4] = NewAgent /\ proposals'[4] = {4} /\ daProofs'[4] = {}
=============================================================================
