---------------------------- MODULE RotatingStore ----------------------------
(***************************************************************************)
(* What the nodes expect of a CacheLevelDB: a store of a few generations.  *)
(* Values and sets of entries are written once and kept until the          *)
(* generations that are newer than theirs have filled up.                  *)
(***************************************************************************)
EXTENDS Integers

CONSTANTS
    Keys,        \* keys of single values
    Overwritten, \* keys that are written again and again
    Values,      \* values of the keys
    Blocks,      \* blocks that have a set of entries
    Signers,     \* indices of the entries of a set
    Shards,      \* number of generations
    MaxDBSize,   \* a generation is full when it is larger
    None         \* no value

VARIABLE gens    \* gens[Shards] is the newest generation, gens[1] the oldest

Generation == [
    value : [Keys -> Values \cup {None}],
    entries : [Blocks -> SUBSET Signers],
    count : [Blocks -> Nat],              \* the counters of the sets
    size : Nat]

Empty == [
    value |-> [k \in Keys |-> None],
    entries |-> [b \in Blocks |-> {}],
    count |-> [b \in Blocks |-> 0],
    size |-> 0]

PutValue(g, k, v) == [g EXCEPT !.value[k] = v, !.size = @ + 1]

AddEntry(g, b, s) ==
    [g EXCEPT !.entries[b] = @ \cup {s}, !.count[b] = @ + 1, !.size = @ + 1]

-----------------------------------------------------------------------------
Init == gens = [j \in 1 .. Shards |-> Empty]

\* A value is written to the newest generation, most values only once.
Write(k, v) ==
    /\ k \in Overwritten \/ \A j \in 1 .. Shards : gens[j].value[k] = None
    /\ gens' = [gens EXCEPT ![Shards] = PutValue(@, k, v)]

\* A new entry goes to the generation that holds the set, and starts a set in
\* the newest one otherwise.
Add(b, s) ==
    /\ \A j \in 1 .. Shards : s \notin gens[j].entries[b]
    /\ \E j \in 1 .. Shards :
        /\ \/ gens[j].count[b] # 0
           \/ j = Shards /\ \A i \in 1 .. Shards : gens[i].count[b] = 0
        /\ gens' = [gens EXCEPT ![j] = AddEntry(@, b, s)]

\* The oldest generation is forgotten when the newest one is full.
Rotate ==
    /\ gens[Shards].size > MaxDBSize
    /\ gens' = [j \in 1 .. Shards |-> IF j = Shards THEN Empty ELSE gens[j + 1]]

Next ==
    \/ \E k \in Keys, v \in Values : Write(k, v)
    \/ \E b \in Blocks, s \in Signers : Add(b, s)
    \/ Rotate

Spec == Init /\ [][Next]_gens
=============================================================================
