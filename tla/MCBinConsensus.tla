--------------------------- MODULE MCBinConsensus ---------------------------
(* Instances of BinConsensus for TLC: four nodes tolerate one fault. *)
EXTENDS BinConsensus

CONSTANTS a, b, c, d

FourNodes == {a, b, c, d}
Nobody == {}
OnlyD == {d}

OnlyCFalse == {[n \in Honest |-> IF n = c THEN 0 ELSE 1]}
AAndDFalse == {[n \in Honest |-> IF n \in {a, d} THEN 0 ELSE 1]}

\* Only d proposes 1, or c and d do.
OneOrTwoTrue == {[n \in Honest |-> IF n \in S THEN 1 ELSE 0] : S \in {{d}, {c, d}}}

ChangingCoin == {[r \in Rounds |-> (r + 1) % 2]}

\* What the Byzantine node says: nothing, one side, or every BVB and AUX
\* message of round 0 or of all rounds.
ByzNothing == {}
ByzAll == {m \in Messages : m.src \in Faulty}
ByzRoundZero == {m \in ByzAll : m.round = 0}
ByzZeroThenFalse == ByzRoundZero \cup {m \in ByzAll : m.value = 0}

(* A vote is dead when the code never reads it again: a BVB vote for a     *)
(* value that is already in binValues, and an AUX vote of a round that is  *)
(* over.  The runs that check invariants skip the steps that only store a  *)
(* dead vote; such a step commutes with every other one.                   *)
StoresDeadVote(s, t) ==
    /\ t = [s EXCEPT !.bvbVotes = t.bvbVotes, !.auxVotes = t.auxVotes]
    /\ \E r \in 0 .. s.currentRound, v \in Values :
        \/ v \in s.binValues[r] /\ t.bvbVotes[r][v] # s.bvbVotes[r][v]
        \/ r < s.currentRound /\ t.auxVotes[r][v] # s.auxVotes[r][v]

NoDeadVotes == \A n \in Honest : ~StoresDeadVote(node[n], node'[n])

\* Node c sends its proposal and then takes no further step: a third of the
\* nodes is one Byzantine or restarting node, and a and b must go on without c.
CStalls == NoDeadVotes /\ (node'[c] = node[c] \/ (node[c] = NewInstance /\ node'[c].started))

(* The stable nodes propose first; a node handles its messages round by    *)
(* round and sender by sender, BVB before AUX; a goes before the others, b *)
(* before c, and c before d when they propose the same.  d is restarted at *)
(* any time, and proposes then before it handles messages again.  Steps of *)
(* the stable nodes are delayed, never forever, and none is forbidden: the *)
(* constraint may be used with their fairness.                             *)
Rank(n) == CASE n = a -> 0 [] n = b -> 1 [] n = c -> 2 [] n = d -> 3
Key(m) == 8 * m.round + (IF m.type = "AUX" THEN 4 ELSE 0) + Rank(m.src)
Has(s, m) ==
    m.src \in (IF m.type = "BVB" THEN s.bvbVotes ELSE s.auxVotes)[m.round][m.value]
Waiting(n) ==
    {m \in msgs : m.src # n /\ ShouldPost(node[n], m.round) /\ ~Has(node[n], m)}

InOrder ==
    /\ \A n, m \in Stable : node'[n] # node[n] /\ ~node[m].started =>
        ~node[n].started /\ Rank(n) <= Rank(m)
    /\ \A n \in Honest : node'[n] # node[n] /\ node[n].started /\ restarts' = restarts =>
        /\ n # a => Waiting(a) = {}
        /\ n = c => Waiting(b) = {}
        /\ n = d /\ input[c] = input[d] => Waiting(b) = {} /\ Waiting(c) = {}
    /\ node'[d] # node[d] /\ restarts = MaxRestarts /\ restarts' = restarts =>
        node'[d].started
    /\ \A n \in Honest : \A m, k \in Waiting(n) :
        Has(node'[n], k) /\ Key(m) < Key(k) => Has(node'[n], m)

(* All nodes propose, and then the messages arrive one by one, those of    *)
(* early rounds first; only the link from c to d in round 0 is slow, and   *)
(* the AUX messages of round 1 reach a, b and c last.  No message is lost. *)
Slow(n, m) ==
    \/ m.round = 0 /\ m.src = c /\ n = d
    \/ m.round = 1 /\ m.type = "AUX" /\ n # d

Arrival(n, m) == (IF Slow(n, m) THEN 100 ELSE 0) + 4 * Key(m) + Rank(n)

AUXLate ==
    /\ \A n, m \in Honest : node'[n] # node[n] /\ ~node[m].started =>
        ~node[n].started /\ Rank(n) <= Rank(m)
    /\ \A n, q \in Honest : \A m \in Waiting(n), k \in Waiting(q) :
        Arrival(n, m) < Arrival(q, k) => ~Has(node'[q], k)
=============================================================================
