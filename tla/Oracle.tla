------------------------------- MODULE Oracle --------------------------------
(***************************************************************************)
(* The oracle of an schain, as one node sees it that a user asks.          *)
(* OracleClient remembers the request in its receiptsMap and broadcasts    *)
(* it; the worker of OracleServerAgent of every node, this one included,   *)
(* asks the endpoint and sends back what it got, a value or an error;      *)
(* OracleReceivedResults counts equal answers until the user, who polls    *)
(* with the receipt, can be given a result.                                *)
(*                                                                         *)
(* Nothing is sent again: requests and answers may get lost, be delivered  *)
(* twice or come too late, the receipt may be pushed out of the map by     *)
(* other requests, and the node may restart and forget it.  Nodes that are *)
(* not honest answer what they like.                                       *)
(***************************************************************************)
EXTENDS Integers, Sequences, FiniteSets

CONSTANTS
    Nodes,      \* the nodes of the schain
    Honest,     \* the nodes that run this code
    Client,     \* the node that is asked
    Receipts,   \* requests, by their receipts
    Values,     \* results and errors, numbered in the order of their text
    MapSize,    \* ORACLE_RECEIPTS_MAP_SIZE
    None,       \* no answer
    MaxSubmits, \* bound on the requests that are accepted
    MaxLost,    \* bound on the requests and answers that get lost
    MaxCrashes  \* bound on the restarts of the client

N == Cardinality(Nodes)

ASSUME NodesAssumption ==
    /\ IsFiniteSet(Nodes)
    /\ Honest \subseteq Nodes
    /\ Client \in Honest
    /\ 3 * Cardinality(Nodes \ Honest) < Cardinality(Nodes)

ASSUME BoundsAssumption ==
    /\ Values \subseteq Nat
    /\ MapSize \in Nat \ {0}
    /\ None \notin Values
    /\ MaxSubmits \in Nat
    /\ MaxLost \in Nat
    /\ MaxCrashes \in Nat

VARIABLES
    receiptsMap, \* OracleClient::receiptsMap, the receipt used last in front
    results,     \* results[r]: the OracleReceivedResults of receipt r
    timedOut,    \* receipts in the map that were accepted ORACLE_TIMEOUT_MS ago
    failed,      \* receipts in the map whose broadcast has thrown
    pending,     \* pending[n][r]: requests on their way to n or in n's queue
    answers,     \* answers <<node, receipt, value>> that honest nodes have sent
    age,         \* age[r]: of the time in the spec of request r
    submits,     \* accepted requests so far
    lost,        \* lost requests and answers so far
    crashes      \* restarts so far

client == <<receiptsMap, results, timedOut, failed>>
bounds == <<submits, lost, crashes>>
vars == <<client, pending, answers, age, bounds>>

Ages == {"fresh", "old", "expired"}

\* Schain::getRequiredSigners
RequiredSigners == IF N <= 2 THEN N ELSE (2 * N) \div 3 + 1

\* Mistake: a third of the nodes is enough.
RequiredConfirmations_Fewer == (RequiredSigners - 1) \div 2

\* One confirmation more than there can be dishonest nodes.
RequiredConfirmations == (RequiredSigners - 1) \div 2 + 1

Known(r) == \E i \in 1 .. Len(receiptsMap) : receiptsMap[i] = r

NoResults == [sigs |-> [n \in Nodes |-> None], byCount |-> [v \in Values |-> 0]]

-----------------------------------------------------------------------------
Init ==
    /\ receiptsMap = <<>>
    /\ results = [r \in Receipts |-> NoResults]
    /\ timedOut = {}
    /\ failed = {}
    /\ pending = [n \in Honest |-> [r \in Receipts |-> 0]]
    /\ answers = {}
    /\ age = [r \in Receipts |-> "fresh"]
    /\ submits = 0
    /\ lost = 0
    /\ crashes = 0

\* lru_cache::getIfExists: r becomes the receipt that was used last.
GetIfExists(r) ==
    \E i \in 1 .. Len(receiptsMap) :
        /\ receiptsMap[i] = r
        /\ receiptsMap' = [j \in 1 .. Len(receiptsMap) |->
                             IF j = 1 THEN r ELSE receiptsMap[IF j <= i THEN j - 1 ELSE j]]

\* Mistake: the map forgets nothing.
Put_All(r) ==
    /\ receiptsMap' = <<r>> \o receiptsMap
    /\ results' = [results EXCEPT ![r] = NoResults]
    /\ timedOut' = timedOut \ {r}

\* putIfDoesNotExist: a full map forgets the receipt that was not used for the
\* longest time.
Put(r) ==
    LET size == IF Len(receiptsMap) < MapSize THEN Len(receiptsMap) + 1 ELSE MapSize
        Kept(q) == \E i \in 1 .. size - 1 : receiptsMap[i] = q
    IN  /\ receiptsMap' = [j \in 1 .. size |-> IF j = 1 THEN r ELSE receiptsMap[j - 1]]
        /\ results' = [q \in Receipts |-> IF Kept(q) THEN results[q] ELSE NoResults]
        /\ timedOut' = {q \in timedOut : Kept(q)}

\* submitOracleRequest: a request that is too old, or known, is refused.
SubmitOracleRequest(r) ==
    /\ age[r] = "fresh"
    /\ ~Known(r)
    /\ submits < MaxSubmits
    /\ submits' = submits + 1
    /\ Put(r)
    /\ failed' = failed \ {r}
    /\ pending' = [n \in Honest |-> [pending[n] EXCEPT ![r] = @ + 1]]
    /\ UNCHANGED <<answers, age, lost, crashes>>

\* The broadcast throws, and the receipt stays in the map.
BroadcastFails(r) ==
    /\ age[r] = "fresh"
    /\ ~Known(r)
    /\ submits < MaxSubmits
    /\ submits' = submits + 1
    /\ Put(r)
    /\ failed' = failed \cup {r}
    /\ UNCHANGED <<pending, answers, age, lost, crashes>>

-----------------------------------------------------------------------------
(* The worker of a node.                                                   *)

Take(n, r) ==
    /\ pending[n][r] > 0
    /\ pending' = [pending EXCEPT ![n][r] = @ - 1]

\* doEndpointRequestResponse and sendOutResult.
Answer(n, r) ==
    /\ Take(n, r)
    /\ age[r] = "fresh"
    /\ \E v \in Values : answers' = answers \cup {<<n, r, v>>}
    /\ UNCHANGED <<client, age, bounds>>

\* The request is older than ORACLE_REQUEST_AGE_ON_RECEIPT_MS.
DropOld(n, r) ==
    /\ Take(n, r)
    /\ age[r] # "fresh"
    /\ UNCHANGED <<client, answers, age, bounds>>

\* The request or the answer gets lost, or the worker fails to sign.
Lose(n, r) ==
    /\ Take(n, r)
    /\ lost < MaxLost
    /\ lost' = lost + 1
    /\ UNCHANGED <<client, answers, age, submits, crashes>>

-----------------------------------------------------------------------------
(* The answers and the user at the client.                                 *)

\* Mistake: a node that answers twice is counted twice.
InsertIfDoesntExist_Twice(res, origin, v) ==
    [sigs |-> [res.sigs EXCEPT ![origin] = v],
     byCount |-> [res.byCount EXCEPT ![v] = @ + 1]]

\* Mistake: the count starts again with every answer.
InsertIfDoesntExist_One(res, origin, v) ==
    IF res.sigs[origin] # None THEN res
    ELSE [sigs |-> [res.sigs EXCEPT ![origin] = v],
          byCount |-> [res.byCount EXCEPT ![v] = 1]]

\* The first answer of every node counts.
InsertIfDoesntExist(res, origin, v) ==
    IF res.sigs[origin] # None THEN res
    ELSE [sigs |-> [res.sigs EXCEPT ![origin] = v],
          byCount |-> [res.byCount EXCEPT ![v] = @ + 1]]

\* processResponseMessage: an answer to an unknown request is dropped, and so
\* is one whose request is expired, after it was looked up.
ProcessResponse(n, r, v) ==
    /\ n \in Honest => <<n, r, v>> \in answers
    /\ GetIfExists(r)
    /\ results' =
        [results EXCEPT ![r] = IF age[r] = "expired" THEN @ ELSE InsertIfDoesntExist(@, n, v)]
    /\ UNCHANGED <<timedOut, failed, pending, answers, age, bounds>>

Confirmed(r) == {v \in Values : results[r].byCount[v] >= RequiredConfirmations}

\* tryGettingResult: the result that the user gets, if any.
TryGettingResult(r) ==
    {v \in Confirmed(r) : r \notin timedOut /\ \A w \in Confirmed(r) : v <= w}

\* checkOracleResult changes only the order of the map.
CheckOracleResult(r) ==
    /\ GetIfExists(r)
    /\ UNCHANGED <<results, timedOut, failed, pending, answers, age, bounds>>

-----------------------------------------------------------------------------
(* Time and restarts.                                                      *)

\* The request is accepted at most a second before the time in its spec, so
\* it does not time out while it is fresh.
TimeOut(r) ==
    /\ Known(r)
    /\ age[r] # "fresh"
    /\ timedOut' = timedOut \cup {r}
    /\ UNCHANGED <<receiptsMap, results, failed, pending, answers, age, bounds>>

GrowOld(r) ==
    /\ age[r] # "expired"
    /\ age' = [age EXCEPT ![r] = IF @ = "fresh" THEN "old" ELSE "expired"]
    /\ UNCHANGED <<client, pending, answers, bounds>>

\* The client forgets its receipts and the requests in its own queue.
Restart ==
    /\ crashes < MaxCrashes
    /\ crashes' = crashes + 1
    /\ receiptsMap' = <<>>
    /\ results' = [r \in Receipts |-> NoResults]
    /\ timedOut' = {}
    /\ failed' = {}
    /\ pending' = [pending EXCEPT ![Client] = [r \in Receipts |-> 0]]
    /\ UNCHANGED <<answers, age, submits, lost>>

Next ==
    \/ \E r \in Receipts :
        \/ SubmitOracleRequest(r)
        \/ BroadcastFails(r)
        \/ CheckOracleResult(r)
        \/ TimeOut(r)
        \/ GrowOld(r)
    \/ \E n \in Honest, r \in Receipts : Answer(n, r) \/ DropOld(n, r) \/ Lose(n, r)
    \/ \E n \in Nodes, r \in Receipts, v \in Values : ProcessResponse(n, r, v)
    \/ Restart

Spec == Init /\ [][Next]_vars

(* The workers of the honest nodes go on, and what is sent and not lost    *)
(* arrives.  Nothing is assumed of the clock, of the user or of the other  *)
(* nodes.                                                                  *)
Fairness ==
    /\ \A n \in Honest, r \in Receipts : WF_vars(Answer(n, r) \/ DropOld(n, r))
    /\ \A n \in Honest, r \in Receipts, v \in Values : WF_vars(ProcessResponse(n, r, v))

FairSpec == Spec /\ Fairness

-----------------------------------------------------------------------------
\* The map never outgrows its size; counts and signatures have the types of
\* the code.
TypeOK ==
    /\ receiptsMap \in Seq(Receipts) /\ Len(receiptsMap) <= MapSize
    /\ results \in [Receipts -> [sigs : [Nodes -> Values \cup {None}],
                                 byCount : [Values -> Nat]]]
    /\ timedOut \subseteq Receipts /\ failed \subseteq Receipts
    /\ pending \in [Honest -> [Receipts -> Nat]]
    /\ answers \subseteq Honest \X Receipts \X Values
    /\ age \in [Receipts -> Ages]
    /\ submits \in 0 .. MaxSubmits /\ lost \in 0 .. MaxLost /\ crashes \in 0 .. MaxCrashes

\* However often answers arrive, and although the receipt may have been lost
\* and asked for again, resultsByCount counts every node once.
CountMatches ==
    \A r \in Receipts, v \in Values :
        results[r].byCount[v] = Cardinality({n \in Nodes : results[r].sigs[n] = v})

\* The result that a user gets was seen by an honest node at the endpoint,
\* whatever the dishonest nodes answer.
ResultBacked ==
    \A r \in Receipts : \A v \in TryGettingResult(r) :
        \E n \in Honest : <<n, r, v>> \in answers

Disagree(r) ==
    \E a, b \in answers : a[2] = r /\ b[2] = r /\ a[3] # b[3]

\* While the request is fresh a user gets a result, although the dishonest
\* nodes are silent and as many answers get lost, unless the endpoint gives
\* different results, the broadcast has failed or the receipt is forgotten.
EventuallyReady ==
    \A r \in Receipts :
        Known(r) /\ r \notin failed
            ~> TryGettingResult(r) # {} \/ Disagree(r) \/ age[r] # "fresh" \/ ~Known(r)
=============================================================================
