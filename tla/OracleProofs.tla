---------------------------- MODULE OracleProofs -----------------------------
(***************************************************************************)
(* Proofs about Oracle for schains of every size, any number of requests   *)
(* and every bound on what gets lost.                                      *)
(*                                                                         *)
(* The argument: insertIfDoesntExist keeps resultsByCount the number of    *)
(* the nodes behind each result (CountMatches), and an honest node is      *)
(* behind a result only when it has sent it (SigsSent).  More nodes        *)
(* confirm a result than there are dishonest ones (ConfirmationsOutnumber).*)
(***************************************************************************)
EXTENDS Oracle, FiniteSetTheorems, TLAPS

Behind(res, v) == {n \in Nodes : res.sigs[n] = v}

ResultsType == [sigs : [Nodes -> Values \cup {None}], byCount : [Values -> Nat]]

\* What is recorded for an honest node is what it has sent.
SigsSent ==
    \A r \in Receipts, n \in Honest :
        results[r].sigs[n] # None => <<n, r, results[r].sigs[n]>> \in answers

IInv == TypeOK /\ CountMatches /\ SigsSent

-----------------------------------------------------------------------------
LEMMA NodesFinite == IsFiniteSet(Nodes) /\ N \in Nat
BY NodesAssumption, FS_CardinalityType DEF N

\* requiredConfirmations is more than the dishonest nodes of any schain.
LEMMA ConfirmationsOutnumber ==
    /\ Cardinality(Nodes \ Honest) \in Nat
    /\ RequiredConfirmations \in Nat
    /\ RequiredConfirmations > Cardinality(Nodes \ Honest)
<1>1. IsFiniteSet(Nodes \ Honest)
    BY NodesAssumption, FS_Subset
<1>2. Cardinality(Nodes \ Honest) \in Nat /\ 3 * Cardinality(Nodes \ Honest) < N /\ N \in Nat
    BY <1>1, NodesAssumption, NodesFinite, FS_CardinalityType DEF N
<1>3. ASSUME NEW b \in Nat, NEW m \in Nat, 3 * b < m, m > 2
      PROVE  ((2 * m) \div 3) \div 2 + 1 > b
    <2> DEFINE q == (2 * m) \div 3
    <2>1. q \in Nat /\ 3 * q <= 2 * m /\ 2 * m < 3 * q + 3
        BY <1>3
    <2>2. q >= 2 * b
        BY <1>3, <2>1
    <2> QED
        BY <1>3, <2>1, <2>2
<1>4. CASE N <= 2
    BY <1>2, <1>4 DEF RequiredConfirmations, RequiredSigners
<1>5. CASE N > 2
    <2>1. ((2 * N) \div 3 + 1) - 1 = (2 * N) \div 3 /\ (2 * N) \div 3 \in Nat
        BY <1>2
    <2>2. RequiredConfirmations = ((2 * N) \div 3) \div 2 + 1
        BY <1>2, <1>5, <2>1 DEF RequiredConfirmations, RequiredSigners
    <2> QED
        BY <1>2, <1>3, <1>5, <2>1, <2>2
<1> QED
    BY <1>2, <1>4, <1>5

\* An entry that was just put counts nothing.
LEMMA NoResultsCount ==
    /\ NoResults \in ResultsType
    /\ \A v \in Values : NoResults.byCount[v] = Cardinality(Behind(NoResults, v))
    /\ \A n \in Nodes : NoResults.sigs[n] = None
<1>1. \A v \in Values : Behind(NoResults, v) = {}
    BY BoundsAssumption DEF Behind, NoResults
<1>2. Cardinality({}) = 0
    BY FS_EmptySet
<1> QED
    BY <1>1, <1>2 DEF NoResults, ResultsType

\* insertIfDoesntExist counts every node once.
LEMMA InsertCounts ==
    ASSUME NEW res \in ResultsType, NEW n \in Nodes, NEW v \in Values,
           \A w \in Values : res.byCount[w] = Cardinality(Behind(res, w))
    PROVE  LET new == InsertIfDoesntExist(res, n, v)
           IN  /\ new \in ResultsType
               /\ \A w \in Values : new.byCount[w] = Cardinality(Behind(new, w))
               /\ \A m \in Nodes : new.sigs[m] = res.sigs[m] \/ (m = n /\ new.sigs[m] = v)
<1> DEFINE new == InsertIfDoesntExist(res, n, v)
<1>1. CASE res.sigs[n] # None
    BY <1>1 DEF InsertIfDoesntExist
<1>2. CASE res.sigs[n] = None
    <2>1. /\ new.sigs = [res.sigs EXCEPT ![n] = v]
          /\ new.byCount = [res.byCount EXCEPT ![v] = @ + 1]
          /\ new = [sigs |-> new.sigs, byCount |-> new.byCount]
        BY <1>2 DEF InsertIfDoesntExist
    <2> HIDE DEF new
    <2>2. new \in ResultsType
        BY <2>1 DEF ResultsType
    <2>3. \A w \in Values \ {v} : Behind(new, w) = Behind(res, w)
        BY <1>2, <2>1, BoundsAssumption DEF Behind, ResultsType
    <2>4. Behind(new, v) = Behind(res, v) \cup {n} /\ n \notin Behind(res, v)
        BY <1>2, <2>1, BoundsAssumption DEF Behind, ResultsType
    <2>5. IsFiniteSet(Behind(res, v))
        BY NodesFinite, FS_Subset DEF Behind
    <2>6. Cardinality(Behind(new, v)) = Cardinality(Behind(res, v)) + 1
        BY <2>4, <2>5, FS_AddElement
    <2>7. \A w \in Values : new.byCount[w] = Cardinality(Behind(new, w))
        BY <2>1, <2>3, <2>6 DEF ResultsType
    <2>8. \A m \in Nodes : new.sigs[m] = res.sigs[m] \/ (m = n /\ new.sigs[m] = v)
        BY <2>1 DEF ResultsType
    <2> QED
        BY <2>2, <2>7, <2>8 DEF new
<1> QED
    BY <1>1, <1>2

-----------------------------------------------------------------------------
\* Entries are kept or forgotten.
LEMMA EntriesHold ==
    ASSUME IInv, answers \subseteq answers',
           results' = [r \in Receipts |-> results'[r]],
           \A r \in Receipts : results'[r] \in {results[r], NoResults}
    PROVE  /\ results' \in [Receipts -> ResultsType]
           /\ CountMatches'
           /\ SigsSent'
<1>1. \A r \in Receipts : results[r] \in ResultsType
    BY DEF IInv, TypeOK, ResultsType
<1>2. \A r \in Receipts, v \in Values : results[r].byCount[v] = Cardinality(Behind(results[r], v))
    BY DEF IInv, CountMatches, Behind
<1>3. \A r \in Receipts : results'[r] \in ResultsType
    BY <1>1, NoResultsCount
<1>4. \A r \in Receipts, v \in Values :
        results'[r].byCount[v] = Cardinality(Behind(results'[r], v))
    BY <1>2, NoResultsCount
<1>5. CountMatches'
    BY <1>4 DEF CountMatches, Behind
<1>6. SigsSent'
    BY NoResultsCount, NodesAssumption DEF IInv, SigsSent
<1> QED
    BY <1>3, <1>5, <1>6

\* What a step does to the rest of the state keeps its type.
RestType ==
    /\ receiptsMap' \in Seq(Receipts) /\ Len(receiptsMap') <= MapSize
    /\ timedOut' \subseteq Receipts /\ failed' \subseteq Receipts
    /\ pending' \in [Honest -> [Receipts -> Nat]]
    /\ answers' \subseteq Honest \X Receipts \X Values
    /\ age' \in [Receipts -> Ages]
    /\ submits' \in 0 .. MaxSubmits /\ lost' \in 0 .. MaxLost /\ crashes' \in 0 .. MaxCrashes

LEMMA ForgetHolds ==
    ASSUME IInv, RestType, answers \subseteq answers',
           results' = [r \in Receipts |-> results'[r]],
           \A r \in Receipts : results'[r] \in {results[r], NoResults}
    PROVE  IInv'
BY EntriesHold DEF IInv, TypeOK, RestType, ResultsType

\* A step that leaves the client's entries alone.
LEMMA SameEntriesHold ==
    ASSUME IInv, RestType, answers \subseteq answers', results' = results
    PROVE  IInv'
<1>1. results' = [r \in Receipts |-> results'[r]]
    BY DEF IInv, TypeOK
<1>2. \A r \in Receipts : results'[r] \in {results[r], NoResults}
    OBVIOUS
<1> QED
    BY <1>1, <1>2, ForgetHolds

LEMMA GetIfExistsType ==
    ASSUME TypeOK, NEW r \in Receipts, GetIfExists(r)
    PROVE  receiptsMap' \in Seq(Receipts) /\ Len(receiptsMap') <= MapSize
<1>1. PICK i \in 1 .. Len(receiptsMap) :
        receiptsMap' = [j \in 1 .. Len(receiptsMap) |->
                            IF j = 1 THEN r ELSE receiptsMap[IF j <= i THEN j - 1 ELSE j]]
    BY DEF GetIfExists
<1>2. receiptsMap \in Seq(Receipts) /\ Len(receiptsMap) \in Nat /\ Len(receiptsMap) <= MapSize
    BY DEF TypeOK
<1>3. \A j \in 1 .. Len(receiptsMap) : receiptsMap'[j] \in Receipts
    BY <1>1, <1>2
<1> QED
    BY <1>1, <1>2, <1>3

LEMMA PutHolds ==
    ASSUME TypeOK, NEW r \in Receipts, Put(r)
    PROVE  /\ receiptsMap' \in Seq(Receipts) /\ Len(receiptsMap') <= MapSize
           /\ results' = [q \in Receipts |-> results'[q]]
           /\ \A q \in Receipts : results'[q] \in {results[q], NoResults}
           /\ timedOut' \subseteq Receipts
<1> DEFINE size == IF Len(receiptsMap) < MapSize THEN Len(receiptsMap) + 1 ELSE MapSize
<1>1. receiptsMap \in Seq(Receipts) /\ Len(receiptsMap) \in Nat
    BY DEF TypeOK
<1>2. size \in Nat \ {0} /\ size <= MapSize /\ size - 1 <= Len(receiptsMap)
    BY <1>1, BoundsAssumption DEF TypeOK
<1>3. receiptsMap' = [j \in 1 .. size |-> IF j = 1 THEN r ELSE receiptsMap[j - 1]]
    BY DEF Put
<1> HIDE DEF size
<1>4. \A j \in 1 .. size : receiptsMap'[j] \in Receipts
    BY <1>1, <1>2, <1>3
<1>5. receiptsMap' \in Seq(Receipts) /\ Len(receiptsMap') <= MapSize
    BY <1>2, <1>3, <1>4, BoundsAssumption
<1> QED
    BY <1>5 DEF Put, TypeOK

LEMMA SubmitHolds ==
    ASSUME IInv, NEW r \in Receipts, SubmitOracleRequest(r) \/ BroadcastFails(r)
    PROVE  IInv'
<1>1. Put(r) /\ submits < MaxSubmits /\ submits' = submits + 1 /\ UNCHANGED <<answers, age, lost, crashes>>
    BY DEF SubmitOracleRequest, BroadcastFails
<1>2. pending' \in [Honest -> [Receipts -> Nat]] /\ failed' \subseteq Receipts
    <2>1. pending \in [Honest -> [Receipts -> Nat]] /\ failed \subseteq Receipts
        BY DEF IInv, TypeOK
    <2>2. CASE SubmitOracleRequest(r)
        <3>1. \A n \in Honest : [pending[n] EXCEPT ![r] = @ + 1] \in [Receipts -> Nat]
            BY <2>1
        <3> QED
            BY <2>1, <2>2, <3>1 DEF SubmitOracleRequest
    <2>3. CASE BroadcastFails(r)
        BY <2>1, <2>3 DEF BroadcastFails
    <2> QED
        BY <2>2, <2>3
<1>3. submits' \in 0 .. MaxSubmits
    BY <1>1, BoundsAssumption DEF IInv, TypeOK
<1>4. RestType
    BY <1>1, <1>2, <1>3, PutHolds DEF RestType, IInv, TypeOK
<1> QED
    BY <1>1, <1>4, PutHolds, ForgetHolds DEF IInv

LEMMA WorkerHolds ==
    ASSUME IInv, NEW n \in Honest, NEW r \in Receipts,
           Answer(n, r) \/ DropOld(n, r) \/ Lose(n, r)
    PROVE  IInv'
<1>1. pending' \in [Honest -> [Receipts -> Nat]]
    <2>1. pending \in [Honest -> [Receipts -> Nat]]
        BY DEF IInv, TypeOK
    <2>2. Take(n, r)
        BY DEF Answer, DropOld, Lose
    <2>3. [pending[n] EXCEPT ![r] = @ - 1] \in [Receipts -> Nat]
        BY <2>1, <2>2 DEF Take
    <2>4. pending' = [pending EXCEPT ![n] = [pending[n] EXCEPT ![r] = @ - 1]]
        BY <2>2 DEF Take
    <2> QED
        BY <2>1, <2>3, <2>4
<1>2. answers \subseteq answers' /\ answers' \subseteq Honest \X Receipts \X Values
    BY DEF Answer, DropOld, Lose, IInv, TypeOK
<1>3. UNCHANGED <<client, age, submits, crashes>>
    BY DEF Answer, DropOld, Lose, bounds
<1>4. lost' \in 0 .. MaxLost
    BY BoundsAssumption DEF Answer, DropOld, Lose, bounds, IInv, TypeOK
<1>5. RestType
    BY <1>1, <1>2, <1>3, <1>4 DEF RestType, IInv, TypeOK, client
<1> QED
    BY <1>2, <1>3, <1>5, SameEntriesHold DEF client

LEMMA ResponseHolds ==
    ASSUME IInv, NEW n \in Nodes, NEW r \in Receipts, NEW v \in Values, ProcessResponse(n, r, v)
    PROVE  IInv'
<1>1. RestType
    BY GetIfExistsType DEF ProcessResponse, RestType, IInv, TypeOK, bounds
<1> DEFINE new == InsertIfDoesntExist(results[r], n, v)
<1>2. results \in [Receipts -> ResultsType]
    BY DEF IInv, TypeOK, ResultsType
<1>3. CASE age[r] = "expired"
    <2>1. results' = results /\ answers' = answers
        BY <1>2, <1>3 DEF ProcessResponse
    <2> QED
        BY <1>1, <2>1, SameEntriesHold
<1>4. CASE age[r] # "expired"
    <2>1. results' = [results EXCEPT ![r] = new] /\ answers' = answers
        BY <1>2, <1>4 DEF ProcessResponse
    <2>2. \A q \in Receipts, w \in Values :
            results[q].byCount[w] = Cardinality(Behind(results[q], w))
        BY DEF IInv, CountMatches, Behind
    <2>3. /\ new \in ResultsType
          /\ \A w \in Values : new.byCount[w] = Cardinality(Behind(new, w))
          /\ \A m \in Nodes : new.sigs[m] = results[r].sigs[m] \/ (m = n /\ new.sigs[m] = v)
        BY <1>2, <2>2, InsertCounts
    <2>4. n \in Honest => <<n, r, v>> \in answers
        BY DEF ProcessResponse
    <2> HIDE DEF new
    <2>5. TypeOK'
        BY <1>1, <1>2, <2>1, <2>3 DEF RestType, TypeOK, ResultsType
    <2>6. \A q \in Receipts, w \in Values :
            results'[q].byCount[w] = Cardinality(Behind(results'[q], w))
        BY <1>2, <2>1, <2>2, <2>3
    <2>7. CountMatches'
        BY <2>6 DEF CountMatches, Behind
    <2>8. SigsSent'
        BY <1>2, <2>1, <2>3, <2>4, NodesAssumption DEF IInv, SigsSent
    <2> QED
        BY <2>5, <2>7, <2>8 DEF IInv
<1> QED
    BY <1>3, <1>4

LEMMA TimeHolds ==
    ASSUME IInv, NEW r \in Receipts, CheckOracleResult(r) \/ TimeOut(r) \/ GrowOld(r)
    PROVE  IInv'
<1>1. results' = results /\ answers' = answers /\ UNCHANGED <<failed, pending, bounds>>
    BY DEF CheckOracleResult, TimeOut, GrowOld, client
<1>2. receiptsMap' \in Seq(Receipts) /\ Len(receiptsMap') <= MapSize
    BY GetIfExistsType DEF CheckOracleResult, TimeOut, GrowOld, client, IInv, TypeOK
<1>3. timedOut' \subseteq Receipts /\ age' \in [Receipts -> Ages]
    BY DEF CheckOracleResult, TimeOut, GrowOld, client, IInv, TypeOK, Ages
<1>4. RestType
    BY <1>1, <1>2, <1>3 DEF RestType, IInv, TypeOK, bounds
<1> QED
    BY <1>1, <1>4, SameEntriesHold

LEMMA RestartHolds == IInv /\ Restart => IInv'
<1> SUFFICES ASSUME IInv, Restart PROVE IInv'
    OBVIOUS
<1>1. /\ results' = [r \in Receipts |-> NoResults] /\ answers' = answers
      /\ receiptsMap' = <<>> /\ timedOut' = {} /\ failed' = {}
      /\ UNCHANGED <<age, submits, lost>>
    BY DEF Restart
<1>2. pending' \in [Honest -> [Receipts -> Nat]]
    BY DEF Restart, IInv, TypeOK
<1>3. crashes' \in 0 .. MaxCrashes
    BY BoundsAssumption DEF Restart, IInv, TypeOK
<1>4. RestType
    BY <1>1, <1>2, <1>3, BoundsAssumption DEF RestType, IInv, TypeOK
<1> QED
    BY <1>1, <1>4, ForgetHolds

LEMMA InitHolds == Init => IInv
<1> SUFFICES ASSUME Init PROVE IInv
    OBVIOUS
<1>1. TypeOK
    <2>1. results \in [Receipts -> ResultsType]
        BY NoResultsCount DEF Init
    <2>2. receiptsMap \in Seq(Receipts) /\ Len(receiptsMap) <= MapSize
        BY BoundsAssumption DEF Init
    <2>3. age \in [Receipts -> Ages] /\ pending \in [Honest -> [Receipts -> Nat]]
        BY DEF Init, Ages
    <2> QED
        BY <2>1, <2>2, <2>3, BoundsAssumption DEF Init, TypeOK, ResultsType
<1>2. CountMatches
    BY NoResultsCount DEF Init, CountMatches, Behind
<1>3. SigsSent
    BY NoResultsCount, NodesAssumption DEF Init, SigsSent
<1> QED
    BY <1>1, <1>2, <1>3 DEF IInv

LEMMA NextHolds == IInv /\ [Next]_vars => IInv'
<1> SUFFICES ASSUME IInv, [Next]_vars PROVE IInv'
    OBVIOUS
<1>1. CASE UNCHANGED vars
    BY <1>1 DEF vars, client, bounds, IInv, TypeOK, CountMatches, SigsSent
<1>2. CASE Next
    BY <1>2, SubmitHolds, WorkerHolds, ResponseHolds, TimeHolds, RestartHolds DEF Next
<1> QED
    BY <1>1, <1>2

-----------------------------------------------------------------------------
\* The inductive invariant holds in every state of the oracle.
THEOREM Invariance == Spec => []IInv
BY InitHolds, NextHolds, PTL DEF Spec

\* OracleClient's receiptsMap stays within ORACLE_RECEIPTS_MAP_SIZE and
\* everything has its type.
THEOREM TypeCorrect == Spec => []TypeOK
<1>1. IInv => TypeOK
    BY DEF IInv
<1> QED
    BY <1>1, Invariance, PTL

\* OracleReceivedResults counts every node once, in an schain of any size.
THEOREM CountMatchesHolds == Spec => []CountMatches
<1>1. IInv => CountMatches
    BY DEF IInv
<1> QED
    BY <1>1, Invariance, PTL

\* tryGettingResult returns only what an honest node got from the endpoint,
\* as long as fewer than a third of the nodes are dishonest.
THEOREM ResultBackedHolds == Spec => []ResultBacked
<1>1. ASSUME IInv PROVE ResultBacked
    <2>1. ASSUME NEW r \in Receipts, NEW v \in TryGettingResult(r)
          PROVE  \E n \in Honest : <<n, r, v>> \in answers
        <3>1. v \in Values /\ Cardinality(Behind(results[r], v)) >= RequiredConfirmations
            BY <1>1, <2>1 DEF TryGettingResult, Confirmed, IInv, CountMatches, Behind
        <3>2. ~(Behind(results[r], v) \subseteq Nodes \ Honest)
            <4>1. IsFiniteSet(Nodes \ Honest)
                BY NodesFinite, FS_Subset
            <4>2. Behind(results[r], v) \subseteq Nodes \ Honest =>
                    /\ Cardinality(Behind(results[r], v)) \in Nat
                    /\ Cardinality(Behind(results[r], v)) <= Cardinality(Nodes \ Honest)
                BY <4>1, FS_Subset, FS_CardinalityType
            <4> QED
                BY <3>1, <4>2, ConfirmationsOutnumber
        <3>3. PICK n \in Honest : results[r].sigs[n] = v
            BY <3>2 DEF Behind
        <3> QED
            BY <1>1, <3>1, <3>3, BoundsAssumption DEF IInv, SigsSent
    <2> QED
        BY <2>1 DEF ResultBacked
<1> QED
    BY <1>1, Invariance, PTL
=============================================================================
