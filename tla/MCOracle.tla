------------------------------ MODULE MCOracle -------------------------------
(* An instance of Oracle in which a second request only pushes the first   *)
(* one out of the map: its own broadcast fails and it does not grow old.   *)
EXTENDS Oracle

CONSTANTS Other

OtherPushes ==
    /\ \A n \in Honest : pending[n][Other] = 0
    /\ results[Other] = NoResults
    /\ age[Other] = "fresh"
=============================================================================
