---------------------------- MODULE BinAgreement ----------------------------
(***************************************************************************)
(* What a binary consensus promises to the BlockConsensusAgents that wait  *)
(* for it: every honest node may report a decision, at any time and again  *)
(* after a restart, all decisions are the same value, and that value was   *)
(* proposed by a stable node.  BinConsensus implements this specification; *)
(* BlockConsensus uses it in place of the protocol.                        *)
(***************************************************************************)
CONSTANTS Honest,   \* nodes that run the code
          Stable    \* honest nodes that are never restarted

VARIABLES input,      \* input[n]: what n proposes
          proposed,   \* stable nodes that have proposed
          decisions   \* [node, value]: decisions reported so far

Init ==
    /\ input \in [Honest -> {0, 1}]
    /\ proposed = {}
    /\ decisions = {}

\* The value v may be reported.
Allowed(v) ==
    /\ \E m \in proposed : input[m] = v
    /\ \A d \in decisions : d.value = v

\* decide() at node n with value v.
Report(n, v) ==
    /\ Allowed(v)
    /\ decisions' = decisions \cup {[node |-> n, value |-> v]}

\* Node n proposes, or goes on; the same handler may decide.
Step(n) ==
    /\ proposed' \in {proposed, proposed \cup ({n} \cap Stable)}
    /\ \/ UNCHANGED decisions
       \/ \E v \in {0, 1} : Report(n, v)
    /\ UNCHANGED input

Next == \E n \in Honest : Step(n)

Spec == Init /\ [][Next]_<<input, proposed, decisions>>
=============================================================================
