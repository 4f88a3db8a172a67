------------------------------ MODULE MCNetwork ------------------------------
(* Instances of Network for TLC. *)
EXTENDS Network

\* The first messages are of round 0, the last one is of round 1.
Rounds001 == [m \in Messages |-> IF m = LastMessage THEN 1 ELSE 0]

\* Keys of one digit sort like their numbers.
OneDigit(j, k) == j < k

\* The vector is saved between the first two messages, or not at all, and the
\* sender commits, if it does, after that.  Nobody waits for these steps.
FewOrders ==
    /\ vectorSaved' # vectorSaved => last = 1
    /\ senderBlock' # senderBlock => vectorSaved /\ last >= 2
=============================================================================
