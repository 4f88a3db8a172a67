--------------------------- MODULE BlockAgreement ---------------------------
(***************************************************************************)
(* What an schain promises to its users for one block id: every honest     *)
(* node commits at most once and for good, all of them commit the same     *)
(* block, and that block is the default block or a proposal whose          *)
(* availability was proven.  BlockConsensus implements this specification. *)
(***************************************************************************)
CONSTANTS Honest,   \* nodes that run the code
          Proven,   \* proposers whose proposal has a data availability proof
          None      \* nothing is committed

VARIABLE committed  \* committed[n]: proposer of the block n committed, or None

Valid == Proven \cup {0}

Init == committed = [n \in Honest |-> None]

\* Node n commits block i, through consensus, download or catchup.
Commit(n, i) ==
    /\ committed[n] = None
    /\ \A m \in Honest : committed[m] \in {None, i}
    /\ committed' = [committed EXCEPT ![n] = i]

Next == \E n \in Honest, i \in Valid : Commit(n, i)

Spec == Init /\ [][Next]_committed
=============================================================================
