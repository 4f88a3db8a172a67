---------------------------- MODULE NetworkProofs ----------------------------
(***************************************************************************)
(* Proofs about Network for queues of every size, any number of messages   *)
(* and any number of faults.                                               *)
(*                                                                         *)
(* The first part takes nothing from the sender: whatever ZeroMQ delivers, *)
(* a message that the receiver takes for known is somewhere in the         *)
(* receiver, and what is in the message queue may be processed.  The       *)
(* deferred list never outgrows its size, so that it drops at most its     *)
(* first entry.                                                            *)
(*                                                                         *)
(* The second part follows the messages from broadcast to processing: all  *)
(* that is in transit or on disk was broadcast, lists keep to their bounds *)
(* and pop_front finds an entry.  With the first part the network          *)
(* implements the delivery that the consensus relies on.                   *)
(***************************************************************************)
EXTENDS Network, SequenceTheorems, FiniteSetTheorems, TLAPS

\* A list of any entries.
IsList(q) == q \in Seq(Range(q))

ListInv ==
    /\ IsList(known) /\ IsList(deferred) /\ IsList(pulled) /\ IsList(queue)
    /\ Len(deferred) <= MaxDeferred

ProgressInv == block \in Nat /\ round \in Nat

IInv == ListInv /\ ProgressInv /\ StillAccepted /\ NoneLost

-----------------------------------------------------------------------------
(* Lists.                                                                  *)

LEMMA ListOf ==
    ASSUME NEW S, NEW q \in Seq(S)
    PROVE  IsList(q) /\ Len(q) \in Nat /\ Range(q) = {q[i] : i \in 1 .. Len(q)}
<1>1. Len(q) \in Nat /\ q \in [1 .. Len(q) -> S]
    OBVIOUS
<1>2. Range(q) = {q[i] : i \in 1 .. Len(q)}
    BY <1>1 DEF Range
<1>3. q \in [1 .. Len(q) -> Range(q)]
    BY <1>1, <1>2
<1> QED
    BY <1>1, <1>2, <1>3 DEF IsList

LEMMA EmptyList == IsList(<<>>) /\ Range(<<>>) = {} /\ Len(<<>>) = 0
BY DEF IsList, Range

LEMMA AppendList ==
    ASSUME NEW q, NEW m, IsList(q)
    PROVE  /\ IsList(Append(q, m)) /\ Append(q, m) # <<>>
           /\ Range(Append(q, m)) = Range(q) \cup {m}
           /\ Len(Append(q, m)) = Len(q) + 1 /\ Len(q) \in Nat
<1> DEFINE S == Range(q) \cup {m}
           a == Append(q, m)
<1>1. q \in Seq(S) /\ m \in S
    <2>1. Len(q) \in Nat /\ q \in [1 .. Len(q) -> Range(q)]
        BY DEF IsList
    <2>2. q \in [1 .. Len(q) -> S]
        BY <2>1
    <2> QED
        BY <2>1, <2>2
<1> HIDE DEF S
<1>2. /\ a \in Seq(S) /\ a # <<>>
      /\ Len(a) = Len(q) + 1
      /\ \A i \in 1 .. Len(q) : a[i] = q[i]
      /\ a[Len(q) + 1] = m
    BY <1>1, AppendProperties
<1>3. IsList(a) /\ Range(a) = {a[i] : i \in 1 .. Len(a)}
    BY <1>2, ListOf
<1>4. Len(q) \in Nat /\ Range(q) = {q[i] : i \in 1 .. Len(q)}
    BY <1>1, ListOf
<1> HIDE DEF a
<1>5. Range(a) = Range(q) \cup {m}
    <2>1. \A i \in 1 .. Len(a) : i \in 1 .. Len(q) \/ i = Len(q) + 1
        BY <1>2, <1>4
    <2>2. 1 .. Len(q) \subseteq 1 .. Len(a) /\ Len(q) + 1 \in 1 .. Len(a)
        BY <1>2, <1>4
    <2> QED
        BY <1>2, <1>3, <1>4, <2>1, <2>2
<1> QED
    BY <1>2, <1>3, <1>4, <1>5 DEF a

LEMMA TailList ==
    ASSUME NEW q, IsList(q), q # <<>>
    PROVE  /\ IsList(Tail(q)) /\ Len(Tail(q)) = Len(q) - 1 /\ Len(q) \in Nat
           /\ Range(q) = Range(Tail(q)) \cup {Head(q)}
<1> DEFINE S == Range(q)
           t == Tail(q)
<1>1. q \in Seq(S)
    BY DEF IsList
<1> HIDE DEF S
<1>2. t \in Seq(S) /\ Len(t) = Len(q) - 1 /\ \A i \in 1 .. Len(t) : t[i] = q[i + 1]
    BY <1>1, HeadTailProperties
<1>3. Head(q) = q[1]
    BY <1>1
<1>4. IsList(t) /\ Len(t) \in Nat /\ Range(t) = {t[i] : i \in 1 .. Len(t)}
    BY <1>2, ListOf
<1>5. Len(q) \in Nat /\ Range(q) = {q[i] : i \in 1 .. Len(q)}
    BY <1>1, ListOf
<1> HIDE DEF t
<1>6. Range(q) = Range(t) \cup {q[1]}
    <2>1. Range(t) \cup {q[1]} \subseteq Range(q)
        <3>1. \A i \in 1 .. Len(t) : i + 1 \in 1 .. Len(q)
            BY <1>2, <1>4, <1>5
        <3>2. 1 \in 1 .. Len(q)
            BY <1>2, <1>4, <1>5
        <3> QED
            BY <1>2, <1>4, <1>5, <3>1, <3>2
    <2>2. ASSUME NEW j \in 1 .. Len(q)
          PROVE  q[j] \in Range(t) \cup {q[1]}
        <3>1. CASE j = 1
            BY <3>1
        <3>2. CASE j # 1
            <4>1. j - 1 \in 1 .. Len(t) /\ (j - 1) + 1 = j
                BY <3>2, <1>2, <1>4, <1>5
            <4> QED
                BY <4>1, <1>2, <1>4
        <3> QED
            BY <3>1, <3>2
    <2> QED
        BY <1>5, <2>1, <2>2
<1> QED
    BY <1>2, <1>3, <1>4, <1>5, <1>6 DEF t

\* A list that takes an entry in and keeps to its size loses at most its first.
LEMMA BoundedList ==
    ASSUME NEW q, NEW m, IsList(q), NEW size \in Nat
    PROVE  LET b == Bounded(Append(q, m), size)
           IN  /\ IsList(b)
               /\ Range(b) \subseteq Range(q) \cup {m}
               /\ size # 0 => m \in Range(b)
               /\ Len(q) <= size => Len(b) <= size
               /\ Len(q) < size => Range(b) = Range(q) \cup {m}
               /\ size # 0 /\ Len(q) = size => Range(q) \subseteq Range(b) \cup {Head(q)}
<1> DEFINE a == Append(q, m)
<1>1. /\ IsList(a) /\ a # <<>> /\ Range(a) = Range(q) \cup {m}
      /\ Len(a) = Len(q) + 1 /\ Len(q) \in Nat
    BY AppendList
<1>2. /\ IsList(Tail(a)) /\ Len(Tail(a)) = Len(a) - 1
      /\ Range(a) = Range(Tail(a)) \cup {Head(a)}
    BY <1>1, TailList
<1>3. q # <<>> => Head(a) = Head(q) /\ Tail(a) = Append(Tail(q), m)
    BY HeadTailAppend DEF IsList
<1>4. q # <<>> => m \in Range(Tail(a))
    <2>1. q # <<>> => IsList(Tail(q))
        BY TailList
    <2> QED
        BY <1>3, <2>1, AppendList
<1>5. q = <<>> => Len(q) = 0
    OBVIOUS
<1> HIDE DEF a
<1> QED
    BY <1>1, <1>2, <1>3, <1>4, <1>5 DEF Bounded, a

-----------------------------------------------------------------------------
(* The invariant is preserved by every action.                             *)

\* A message is posted, deferred or dropped, and nothing else is lost.
LEMMA Posted ==
    ASSUME IInv, NEW m, PostDeferOrDrop(m), UNCHANGED progress
    PROVE  /\ IsList(queue') /\ IsList(deferred') /\ Len(deferred') <= MaxDeferred
           /\ Range(queue) \subseteq Range(queue') /\ overflowed \subseteq overflowed'
           /\ Range(deferred) \subseteq Range(deferred') \cup overflowed'
           /\ m \in Range(queue') \cup Range(deferred') \/ Block + MaxActive <= block'
           /\ StillAccepted'
<1>0. /\ IsList(queue) /\ IsList(deferred) /\ Len(deferred) <= MaxDeferred
      /\ MaxDeferred \in Nat \ {0} /\ block' = block /\ round' = round
      /\ \A k \in Range(queue) : Block <= block /\ ShouldPost(k)
    BY SizesAssumption DEF IInv, ListInv, progress, StillAccepted
<1>1. CASE /\ deferred' = Bounded(Append(deferred, m), MaxDeferred)
           /\ overflowed' = overflowed
                \cup IF Len(deferred) = MaxDeferred THEN {Head(deferred)} ELSE {}
           /\ UNCHANGED queue
    <2>1. /\ IsList(deferred')
          /\ m \in Range(deferred')
          /\ Len(deferred') <= MaxDeferred
          /\ Len(deferred) < MaxDeferred => Range(deferred') = Range(deferred) \cup {m}
          /\ Len(deferred) = MaxDeferred =>
                Range(deferred) \subseteq Range(deferred') \cup {Head(deferred)}
        BY <1>0, <1>1, BoundedList
    <2>2. Len(deferred) \in Nat
        BY <1>0, AppendList
    <2>3. Len(deferred) < MaxDeferred \/ Len(deferred) = MaxDeferred
        BY <1>0, <2>2
    <2> QED
        BY <1>0, <1>1, <2>1, <2>3 DEF StillAccepted, ShouldPost
<1>2. CASE Block + MaxActive <= block /\ UNCHANGED <<deferred, overflowed, queue>>
    BY <1>0, <1>2 DEF StillAccepted, ShouldPost
<1>3. CASE /\ Block <= block /\ ShouldPost(m)
           /\ queue' = Append(queue, m)
           /\ UNCHANGED <<deferred, overflowed>>
    <2>1. IsList(queue') /\ Range(queue') = Range(queue) \cup {m}
        BY <1>0, <1>3, AppendList
    <2> QED
        BY <1>0, <1>3, <2>1 DEF StillAccepted, ShouldPost
<1> QED
    BY <1>1, <1>2, <1>3 DEF PostDeferOrDrop

LEMMA NetworkReadHolds ==
    ASSUME IInv, NetworkRead
    PROVE  IInv'
<1> DEFINE m == Head(channel)
<1>0. UNCHANGED <<pulled, processed, block, round>>
    BY DEF NetworkRead, progress
<1>1. CASE m \in Range(known) /\ UNCHANGED <<known, deferred, overflowed, queue>>
    BY <1>0, <1>1 DEF IInv, ListInv, ProgressInv, StillAccepted, ShouldPost, NoneLost
<1>2. CASE /\ m \notin Range(known)
           /\ known' = Bounded(Append(known, m), MaxKnown)
           /\ PostDeferOrDrop(m)
    <2> HIDE DEF m
    <2>1. IsList(known') /\ Range(known') \subseteq Range(known) \cup {m}
        BY <1>2, BoundedList, SizesAssumption DEF IInv, ListInv
    <2>2. UNCHANGED progress
        BY <1>0 DEF progress
    <2>3. /\ IsList(queue') /\ IsList(deferred') /\ Len(deferred') <= MaxDeferred
          /\ Range(queue) \subseteq Range(queue') /\ overflowed \subseteq overflowed'
          /\ Range(deferred) \subseteq Range(deferred') \cup overflowed'
          /\ m \in Range(queue') \cup Range(deferred') \/ Block + MaxActive <= block'
          /\ StillAccepted'
        BY <1>2, <2>2, Posted
    <2>4. NoneLost'
        BY <1>0, <2>1, <2>3 DEF IInv, NoneLost
    <2> QED
        BY <1>0, <2>1, <2>3, <2>4 DEF IInv, ListInv, ProgressInv
<1> QED
    BY <1>1, <1>2 DEF NetworkRead

LEMMA PullHolds ==
    ASSUME IInv, PullMessages
    PROVE  IInv'
<1>0. /\ pulled' = deferred /\ deferred' = <<>>
      /\ UNCHANGED <<known, queue, processed, overflowed, block, round>>
    BY DEF PullMessages, progress
<1>1. ListInv'
    BY <1>0, EmptyList, SizesAssumption DEF IInv, ListInv
<1>2. NoneLost'
    <2>1. pulled = <<>>
        BY DEF PullMessages
    <2>2. Range(pulled) = {}
        BY <2>1, EmptyList
    <2> QED
        BY <1>0, <2>2 DEF IInv, NoneLost
<1>3. ProgressInv' /\ StillAccepted'
    BY <1>0 DEF IInv, ProgressInv, StillAccepted, ShouldPost
<1> QED
    BY <1>1, <1>2, <1>3 DEF IInv

LEMMA PostPulledHolds ==
    ASSUME IInv, PostPulled
    PROVE  IInv'
<1> DEFINE m == Head(pulled)
<1>0. /\ pulled # <<>> /\ pulled' = Tail(pulled) /\ PostDeferOrDrop(m) /\ UNCHANGED progress
      /\ UNCHANGED <<known, processed, block, round>>
    BY DEF PostPulled, progress
<1>1. IsList(pulled') /\ Range(pulled) = Range(pulled') \cup {m}
    BY <1>0, TailList DEF IInv, ListInv
<1> HIDE DEF m
<1>2. /\ IsList(queue') /\ IsList(deferred') /\ Len(deferred') <= MaxDeferred
      /\ Range(queue) \subseteq Range(queue') /\ overflowed \subseteq overflowed'
      /\ Range(deferred) \subseteq Range(deferred') \cup overflowed'
      /\ m \in Range(queue') \cup Range(deferred') \/ Block + MaxActive <= block'
      /\ StillAccepted'
    BY <1>0, Posted
<1>3. NoneLost'
    BY <1>0, <1>1, <1>2 DEF IInv, NoneLost
<1> QED
    BY <1>0, <1>1, <1>2, <1>3 DEF IInv, ListInv, ProgressInv

LEMMA ProcessHolds ==
    ASSUME IInv, ProcessMessage
    PROVE  IInv'
<1>0. /\ queue # <<>> /\ queue' = Tail(queue) /\ processed' = processed \cup {Head(queue)}
      /\ UNCHANGED <<known, deferred, pulled, overflowed, block, round>>
    BY DEF ProcessMessage, progress
<1>1. IsList(queue') /\ Range(queue) = Range(queue') \cup {Head(queue)}
    BY <1>0, TailList DEF IInv, ListInv
<1>2. NoneLost'
    BY <1>0, <1>1 DEF IInv, NoneLost
<1>3. StillAccepted'
    BY <1>0, <1>1 DEF IInv, StillAccepted, ShouldPost
<1> QED
    BY <1>0, <1>1, <1>2, <1>3 DEF IInv, ListInv, ProgressInv

LEMMA ProgressHolds ==
    ASSUME IInv, NextRound \/ CommitBlock
    PROVE  IInv'
<1>0. UNCHANGED <<known, deferred, pulled, queue, processed, overflowed>>
    BY DEF NextRound, CommitBlock, receiverVars
<1>1. /\ block \in Nat /\ round \in Nat
      /\ \/ block' = block /\ round' = round + 1
         \/ block' = block + 1 /\ round' = round
    BY DEF IInv, ProgressInv, NextRound, CommitBlock
<1>2. ProgressInv' /\ block <= block' /\ round <= round'
    BY <1>1 DEF ProgressInv
<1>3. NoneLost'
    BY <1>0, <1>1, <1>2, SizesAssumption DEF IInv, NoneLost
<1>4. StillAccepted'
    <2> SUFFICES ASSUME NEW m \in Range(queue)
                 PROVE  Block <= block' /\ m \in Messages /\ RoundOf[m] <= round'
        BY <1>0 DEF StillAccepted, ShouldPost
    <2>1. Block <= block /\ m \in Messages /\ RoundOf[m] <= round
        BY DEF IInv, StillAccepted, ShouldPost
    <2>2. RoundOf[m] \in Nat
        BY <2>1, MessagesAssumption
    <2> QED
        BY <1>1, <1>2, <2>1, <2>2, SizesAssumption
<1> QED
    BY <1>0, <1>2, <1>3, <1>4 DEF IInv, ListInv

LEMMA RestartHolds ==
    ASSUME IInv, RestartReceiver
    PROVE  IInv'
<1>0. /\ known' = <<>> /\ deferred' = <<>> /\ pulled' = <<>> /\ queue' = <<>>
      /\ round' = 0 /\ block' = block
    BY DEF RestartReceiver
<1> QED
    BY <1>0, EmptyList, SizesAssumption
       DEF IInv, ListInv, ProgressInv, StillAccepted, NoneLost

\* The sender and the channel do not touch the receiver.
LEMMA SenderHolds ==
    ASSUME IInv, UNCHANGED <<receiverVars, progress>>
    PROVE  IInv'
BY DEF IInv, ListInv, ProgressInv, StillAccepted, ShouldPost, NoneLost, receiverVars, progress

LEMMA InitHolds == Init => IInv
BY EmptyList, SizesAssumption DEF Init, IInv, ListInv, ProgressInv, StillAccepted, NoneLost

LEMMA NextHolds == IInv /\ [Next]_vars => IInv'
<1> SUFFICES ASSUME IInv, [Next]_vars PROVE IInv'
    OBVIOUS
<1>1. CASE \/ SaveVector \/ SenderCommits \/ BroadcastMessage \/ SendDelayed \/ PopDelayed
           \/ RebroadcastOnTimeout
    BY <1>1, SenderHolds
       DEF SaveVector, SenderCommits, BroadcastMessage, SendDelayed, PopDelayed, RebroadcastOnTimeout
<1>2. CASE LoseChannel \/ RestartSender
    BY <1>2, SenderHolds DEF LoseChannel, RestartSender
<1>3. CASE UNCHANGED vars
    BY <1>3, SenderHolds DEF vars
<1>4. CASE NetworkRead
    BY <1>4, NetworkReadHolds
<1>5. CASE PullMessages \/ PostPulled
    BY <1>5, PullHolds, PostPulledHolds
<1>6. CASE ProcessMessage
    BY <1>6, ProcessHolds
<1>7. CASE NextRound \/ CommitBlock
    BY <1>7, ProgressHolds
<1>8. CASE RestartReceiver
    BY <1>8, RestartHolds
<1> QED
    BY <1>1, <1>2, <1>3, <1>4, <1>5, <1>6, <1>7, <1>8 DEF Next

-----------------------------------------------------------------------------
(* The theorems.                                                           *)

\* The receiver's lists and progress satisfy the inductive invariant.
THEOREM Invariance == Spec => []IInv
BY InitHolds, NextHolds, PTL DEF Spec

\* networkReadLoop and deferredMessagesLoop: shouldPost still holds when the
\* message thread takes a message, for queues of every size.
THEOREM StillAcceptedHolds == Spec => []StillAccepted
<1>1. IInv => StillAccepted
    BY DEF IInv
<1> QED
    BY <1>1, Invariance, PTL

\* A message whose hash is known to the receiver is not lost inside it, for
\* queues of every size and any number of messages and faults: a rebroadcast,
\* which would be taken for a duplicate, is not needed.
THEOREM NoneLostHolds == Spec => []NoneLost
<1>1. IInv => NoneLost
    BY DEF IInv
<1> QED
    BY <1>1, Invariance, PTL


-----------------------------------------------------------------------------
(* Types: everything in transit was broadcast.                             *)

Broadcasts == 1 .. last

SenderInv ==
    /\ senderBlock \in Block .. Block + 1 /\ vectorSaved \in BOOLEAN
    /\ last \in 0 .. LastMessage /\ counter \in Nat
    /\ IsFiniteSet(outDB) /\ outDB \subseteq Nat \X Broadcasts
    /\ channel \in Seq(Broadcasts) /\ Len(channel) <= HWM
    /\ delayed \in Seq(Broadcasts) /\ Len(delayed) <= MaxDelayed
    /\ popping \in Broadcasts \cup {None}
    /\ popping # None => delayed # <<>>

ReceiverInv ==
    /\ known \in Seq(Broadcasts) /\ Len(known) <= MaxKnown
    /\ deferred \in Seq(Broadcasts) /\ Len(deferred) <= MaxDeferred
    /\ pulled \in Seq(Broadcasts)
    /\ queue \in Seq(Broadcasts)
    /\ processed \subseteq Broadcasts
    /\ overflowed \subseteq Broadcasts

CountersInv ==
    /\ block \in FirstBlock .. LastBlock
    /\ round \in Nat
    /\ faults \in 0 .. MaxFaults

TInv == SenderInv /\ ReceiverInv /\ CountersInv

\* addToDelayedSends keeps the newest messages, at least one.
LEMMA DelayedSends ==
    ASSUME NEW S, NEW q \in Seq(S), Len(q) <= MaxDelayed, NEW a \in Seq(S)
    PROVE  LET t == AddToDelayedSends(q, a)
           IN  t \in Seq(S) /\ Len(t) <= MaxDelayed /\ (q # <<>> => t # <<>>)
<1> DEFINE all == q \o a
           first == IF Len(all) > MaxDelayed THEN Len(all) - MaxDelayed + 1 ELSE 1
           t == SubSeq(all, first, Len(all))
<1>1. /\ all \in Seq(S) /\ Len(all) = Len(q) + Len(a)
      /\ Len(q) \in Nat /\ Len(a) \in Nat /\ Len(all) \in Nat /\ MaxDelayed \in Nat \ {0}
    BY ConcatProperties, SizesAssumption
<1> HIDE DEF all
<1>2. first \in Int /\ first >= 1
    BY <1>1
<1>3. \A i \in first .. Len(all) : all[i] \in S
    BY <1>1, <1>2, ElementOfSeq
<1>4. t \in Seq(S) /\ Len(t) = IF first <= Len(all) THEN Len(all) - first + 1 ELSE 0
    BY <1>1, <1>2, <1>3, SubSeqProperties
<1>5. Len(t) <= MaxDelayed
    BY <1>1, <1>4
<1>6. q # <<>> => t # <<>>
    <2> SUFFICES ASSUME q # <<>> PROVE Len(t) # 0
        BY EmptySeq
    <2>1. Len(q) > 0
        BY EmptySeq
    <2> QED
        BY <1>1, <1>4, <2>1
<1> QED
    BY <1>4, <1>5, <1>6 DEF AddToDelayedSends, all

\* ZeroMQ takes no more than it has room for.
LEMMA SendOrDelayTypes ==
    ASSUME NEW S, NEW c \in Seq(S), Len(c) <= HWM, NEW d \in Seq(S), Len(d) <= MaxDelayed,
           NEW list \in Seq(S)
    PROVE  LET t == SendOrDelay([channel |-> c, delayed |-> d], list)
           IN  /\ t.channel \in Seq(S) /\ Len(t.channel) <= HWM
               /\ t.delayed \in Seq(S) /\ Len(t.delayed) <= MaxDelayed
               /\ d # <<>> => t.delayed # <<>>
<1> DEFINE room == HWM - Len(c)
           fits == IF Len(list) < room THEN Len(list) ELSE room
           now == SubSeq(list, 1, fits)
           later == SubSeq(list, fits + 1, Len(list))
<1>1. Len(c) \in Nat /\ Len(list) \in Nat /\ HWM \in Nat
    BY SizesAssumption
<1>2. fits \in 0 .. Len(list) /\ fits <= room
    BY <1>1
<1>3. now \in Seq(S) /\ Len(now) = fits
    <2>1. \A i \in 1 .. fits : list[i] \in S
        BY <1>1, <1>2, ElementOfSeq
    <2> HIDE DEF fits
    <2> QED
        BY <1>1, <1>2, <2>1, SubSeqProperties
<1>4. later \in Seq(S)
    <2>1. \A i \in fits + 1 .. Len(list) : list[i] \in S
        BY <1>1, <1>2, ElementOfSeq
    <2> HIDE DEF fits
    <2> QED
        BY <1>1, <1>2, <2>1, SubSeqProperties
<1>5. SendOrDelay([channel |-> c, delayed |-> d], list) =
        [channel |-> c \o now, delayed |-> AddToDelayedSends(d, later)]
    BY DEF SendOrDelay
<1> HIDE DEF now, later, fits
<1>6. c \o now \in Seq(S) /\ Len(c \o now) = Len(c) + fits
    BY <1>3, ConcatProperties
<1>7. Len(c) + fits <= HWM
    BY <1>1, <1>2
<1>8. /\ AddToDelayedSends(d, later) \in Seq(S)
      /\ Len(AddToDelayedSends(d, later)) <= MaxDelayed
      /\ d # <<>> => AddToDelayedSends(d, later) # <<>>
    BY <1>4, DelayedSends
<1> DEFINE x == c \o now
           y == AddToDelayedSends(d, later)
<1>9. /\ x \in Seq(S) /\ Len(x) <= HWM
      /\ y \in Seq(S) /\ Len(y) <= MaxDelayed /\ (d # <<>> => y # <<>>)
      /\ SendOrDelay([channel |-> c, delayed |-> d], list) = [channel |-> x, delayed |-> y]
    BY <1>5, <1>6, <1>7, <1>8
<1> HIDE DEF x, y
<1> QED
    BY <1>9

\* What is read back from the database was broadcast.
LEMMA SavedTypes ==
    ASSUME NEW S, IsFiniteSet(outDB), outDB \subseteq Nat \X S, NEW list \in GetMessages
    PROVE  list \in Seq(S)
<1> DEFINE n == Cardinality(outDB)
<1>1. n \in Nat
    BY FS_CardinalityType
<1>2. PICK f \in [1 .. n -> outDB] : list = [i \in 1 .. n |-> f[i][2]]
    BY DEF GetMessages
<1> HIDE DEF n
<1>3. \A i \in 1 .. n : f[i][2] \in S
    OBVIOUS
<1>4. list \in [1 .. n -> S]
    BY <1>2, <1>3
<1> QED
    BY <1>1, <1>4

\* A list that takes an entry in and keeps to its size.
LEMMA BoundedTypes ==
    ASSUME NEW S, NEW q \in Seq(S), NEW m \in S, NEW size \in Nat, Len(q) <= size
    PROVE  Bounded(Append(q, m), size) \in Seq(S) /\ Len(Bounded(Append(q, m), size)) <= size
<1> DEFINE a == Append(q, m)
<1>1. a \in Seq(S) /\ a # <<>> /\ Len(a) = Len(q) + 1 /\ Len(q) \in Nat
    BY AppendProperties
<1> HIDE DEF a
<1>2. Tail(a) \in Seq(S) /\ Len(Tail(a)) = Len(a) - 1
    BY <1>1, HeadTailProperties
<1> QED
    BY <1>1, <1>2 DEF Bounded, a

-----------------------------------------------------------------------------
(* Every action keeps the types.                                           *)

LEMMA MoreBroadcasts ==
    ASSUME last \in Nat, last' = last + 1
    PROVE  Broadcasts \subseteq Broadcasts' /\ last + 1 \in Broadcasts'
BY DEF Broadcasts

\* broadcastMessage.
LEMMA BroadcastTypes ==
    ASSUME TInv, BroadcastMessage
    PROVE  TInv'
<1> DEFINE S == Broadcasts'
           m == last + 1
           t == SendOrDelay([channel |-> channel, delayed |-> delayed], <<m>>)
<1>0. /\ last \in 0 .. LastMessage /\ last < LastMessage /\ last' = last + 1
      /\ counter' = counter + 1 /\ outDB' = SaveMsg(m)
      /\ channel' = t.channel /\ delayed' = t.delayed
      /\ UNCHANGED <<senderBlock, vectorSaved, popping, known, deferred, pulled, queue,
                     processed, overflowed, block, round, faults>>
    BY DEF TInv, SenderInv, BroadcastMessage, Sent, consensusVars, receiverVars, progress
<1>1. Broadcasts \subseteq S /\ m \in S
    BY <1>0, MessagesAssumption, MoreBroadcasts
<1>2. /\ channel \in Seq(S) /\ delayed \in Seq(S) /\ <<m>> \in Seq(S)
      /\ known \in Seq(S) /\ deferred \in Seq(S) /\ pulled \in Seq(S) /\ queue \in Seq(S)
    BY <1>1, SeqMonotonic DEF TInv, SenderInv, ReceiverInv
<1>3. /\ t.channel \in Seq(S) /\ Len(t.channel) <= HWM
      /\ t.delayed \in Seq(S) /\ Len(t.delayed) <= MaxDelayed
      /\ delayed # <<>> => t.delayed # <<>>
    <2> HIDE DEF S, m
    <2> QED
        BY <1>2, SendOrDelayTypes DEF TInv, SenderInv
<1>4. IsFiniteSet(outDB') /\ outDB' \subseteq Nat \X S
    <2>1. IsFiniteSet(outDB) /\ outDB \subseteq Nat \X S /\ counter \in Nat
        BY <1>1 DEF TInv, SenderInv
    <2>2. IsFiniteSet(outDB \cup {<<counter, m>>})
        BY <2>1, FS_AddElement
    <2>3. outDB \cup {<<counter, m>>} \subseteq Nat \X S
        BY <1>1, <2>1
    <2> QED
        BY <1>0, <2>1, <2>2, <2>3 DEF SaveMsg
<1>5. last' \in 0 .. LastMessage /\ counter' \in Nat
    BY <1>0, MessagesAssumption DEF TInv, SenderInv
<1> HIDE DEF t, m
<1>6. SenderInv'
    BY <1>0, <1>1, <1>3, <1>4, <1>5 DEF TInv, SenderInv
<1>7. ReceiverInv'
    BY <1>0, <1>1, <1>2 DEF TInv, ReceiverInv
<1> QED
    BY <1>0, <1>6, <1>7 DEF TInv, CountersInv

\* The lists of the sender and the channel, when nothing is broadcast.
LEMMA SenderStep ==
    ASSUME TInv, UNCHANGED consensusVars, last' = last, outDB' = outDB, counter' \in Nat,
           channel' \in Seq(Broadcasts), Len(channel') <= HWM,
           delayed' \in Seq(Broadcasts), Len(delayed') <= MaxDelayed,
           popping' \in Broadcasts \cup {None}, popping' # None => delayed' # <<>>,
           faults' \in 0 .. MaxFaults, UNCHANGED <<receiverVars, progress>>
    PROVE  TInv'
<1>1. Broadcasts' = Broadcasts
    BY DEF Broadcasts
<1> QED
    BY <1>1 DEF TInv, SenderInv, ReceiverInv, CountersInv, consensusVars, receiverVars, progress

\* startConsensus and the commit of the sender.
LEMMA ConsensusTypes ==
    ASSUME TInv, SaveVector \/ SenderCommits
    PROVE  TInv'
<1>1. /\ UNCHANGED <<last, outDB, counter, delayed, popping, channel, faults>>
      /\ UNCHANGED <<receiverVars, progress>>
    BY DEF SaveVector, SenderCommits
<1>2. senderBlock' \in Block .. Block + 1 /\ vectorSaved' \in BOOLEAN
    <2>1. vectorSaved' \in BOOLEAN
        BY Zenon DEF TInv, SenderInv, SaveVector, SenderCommits
    <2>2. senderBlock' = Block \/ senderBlock' = Block + 1
        BY DEF SaveVector, SenderCommits
    <2> QED
        BY <2>1, <2>2, SizesAssumption
<1>3. Broadcasts' = Broadcasts
    BY <1>1 DEF Broadcasts
<1> QED
    BY <1>1, <1>2, <1>3 DEF TInv, SenderInv, ReceiverInv, CountersInv, receiverVars, progress

LEMMA SendDelayedTypes ==
    ASSUME TInv, SendDelayed
    PROVE  TInv'
<1> DEFINE S == Broadcasts
<1>1. /\ delayed # <<>> /\ channel' = Append(channel, Head(delayed)) /\ popping' = Head(delayed)
      /\ Len(channel) < HWM /\ HWM \in Nat
      /\ UNCHANGED <<last, outDB, counter, delayed, faults>>
      /\ UNCHANGED consensusVars /\ UNCHANGED <<receiverVars, progress>>
    BY SizesAssumption DEF SendDelayed
<1>2. channel \in Seq(S) /\ delayed \in Seq(S)
    BY DEF TInv, SenderInv
<1> HIDE DEF S
<1>3. Head(delayed) \in S
    BY <1>1, <1>2, HeadTailProperties
<1>4. channel' \in Seq(S) /\ Len(channel') = Len(channel) + 1 /\ Len(channel) \in Nat
    BY <1>1, <1>2, <1>3, AppendProperties
<1>5. Len(channel') <= HWM
    BY <1>1, <1>4
<1> QED
    BY <1>1, <1>2, <1>3, <1>4, <1>5, SenderStep DEF TInv, SenderInv, CountersInv, S

\* pop_front finds an entry: the list keeps one while a send is under way.
LEMMA PopDelayedTypes ==
    ASSUME TInv, PopDelayed
    PROVE  TInv'
<1>1. /\ delayed # <<>> /\ delayed \in Seq(Broadcasts) /\ delayed' = Tail(delayed)
      /\ popping' = None /\ MaxDelayed \in Nat /\ Len(delayed) <= MaxDelayed
      /\ UNCHANGED <<last, outDB, counter, channel, faults>>
      /\ UNCHANGED consensusVars /\ UNCHANGED <<receiverVars, progress>>
    BY SizesAssumption DEF PopDelayed, TInv, SenderInv
<1>2. delayed' \in Seq(Broadcasts) /\ Len(delayed') = Len(delayed) - 1 /\ Len(delayed) \in Nat
    BY <1>1, HeadTailProperties
<1>3. Len(delayed') <= MaxDelayed
    BY <1>1, <1>2
<1> QED
    BY <1>1, <1>2, <1>3, SenderStep DEF TInv, SenderInv, CountersInv

\* rebroadcastAllMessages.
LEMMA RebroadcastTypes ==
    ASSUME TInv, NEW c \in Seq(Broadcasts), Len(c) <= HWM,
           NEW d \in Seq(Broadcasts), Len(d) <= MaxDelayed,
           RebroadcastAllMessages([channel |-> c, delayed |-> d])
    PROVE  /\ channel' \in Seq(Broadcasts) /\ Len(channel') <= HWM
           /\ delayed' \in Seq(Broadcasts) /\ Len(delayed') <= MaxDelayed
           /\ d # <<>> => delayed' # <<>>
<1>1. PICK list \in GetMessages : Sent(SendOrDelay([channel |-> c, delayed |-> d], list))
    BY DEF RebroadcastAllMessages
<1>2. list \in Seq(Broadcasts)
    BY SavedTypes DEF TInv, SenderInv
<1> QED
    BY <1>1, <1>2, SendOrDelayTypes DEF Sent

LEMMA TimeoutTypes ==
    ASSUME TInv, RebroadcastOnTimeout
    PROVE  TInv'
<1>1. /\ channel \in Seq(Broadcasts) /\ Len(channel) <= HWM
      /\ delayed \in Seq(Broadcasts) /\ Len(delayed) <= MaxDelayed
      /\ RebroadcastAllMessages([channel |-> channel, delayed |-> delayed])
      /\ UNCHANGED <<last, outDB, counter, popping>>
      /\ UNCHANGED consensusVars /\ UNCHANGED <<receiverVars, progress>>
    BY DEF RebroadcastOnTimeout, TInv, SenderInv
<1>2. faults' \in 0 .. MaxFaults
    BY SizesAssumption DEF RebroadcastOnTimeout, TInv, CountersInv
<1> QED
    BY <1>1, <1>2, RebroadcastTypes, SenderStep DEF TInv, SenderInv

LEMMA FaultTypes ==
    ASSUME TInv, Fault
    PROVE  faults' \in 0 .. MaxFaults
BY SizesAssumption DEF TInv, CountersInv, Fault

LEMMA LoseTypes ==
    ASSUME TInv, LoseChannel
    PROVE  TInv'
<1>1. /\ channel' = <<>> /\ UNCHANGED <<last, outDB, counter, delayed, popping>>
      /\ UNCHANGED consensusVars /\ UNCHANGED <<receiverVars, progress>>
      /\ faults' \in 0 .. MaxFaults
    BY FaultTypes DEF LoseChannel, senderVars
<1>2. <<>> \in Seq(Broadcasts) /\ Len(<<>>) = 0 /\ HWM \in Nat
    BY EmptySeq, SizesAssumption
<1> QED
    BY <1>1, <1>2, SenderStep DEF TInv, SenderInv

LEMMA RestartSenderTypes ==
    ASSUME TInv, RestartSender
    PROVE  TInv'
<1>1. PICK c \in {channel, <<>>} :
        \/ RebroadcastAllMessages([channel |-> c, delayed |-> <<>>])
        \/ channel' = c /\ delayed' = <<>>
    BY DEF RestartSender
<1>2. /\ <<>> \in Seq(Broadcasts) /\ Len(<<>>) = 0 /\ HWM \in Nat /\ MaxDelayed \in Nat
      /\ channel \in Seq(Broadcasts) /\ Len(channel) <= HWM
    BY EmptySeq, SizesAssumption DEF TInv, SenderInv
<1>3. c \in Seq(Broadcasts) /\ Len(c) <= HWM /\ Len(<<>>) <= MaxDelayed
    <2>1. CASE c = channel
        BY <1>2, <2>1
    <2>2. CASE c = <<>>
        BY <1>2, <2>2
    <2> QED
        BY <2>1, <2>2
<1>4. /\ channel' \in Seq(Broadcasts) /\ Len(channel') <= HWM
      /\ delayed' \in Seq(Broadcasts) /\ Len(delayed') <= MaxDelayed
    BY <1>1, <1>2, <1>3, RebroadcastTypes
<1>5. /\ counter' = 0 /\ popping' = None /\ last' = last /\ outDB' = outDB
      /\ UNCHANGED consensusVars /\ UNCHANGED <<receiverVars, progress>>
      /\ faults' \in 0 .. MaxFaults
    BY FaultTypes DEF RestartSender
<1> QED
    BY <1>4, <1>5, SenderStep

\* postDeferOrDrop.
LEMMA PostTypes ==
    ASSUME TInv, NEW m \in Broadcasts, PostDeferOrDrop(m)
    PROVE  /\ deferred' \in Seq(Broadcasts) /\ Len(deferred') <= MaxDeferred
           /\ queue' \in Seq(Broadcasts) /\ overflowed' \subseteq Broadcasts
<1> DEFINE S == Broadcasts
<1>0. /\ deferred \in Seq(S) /\ Len(deferred) <= MaxDeferred
      /\ queue \in Seq(S) /\ overflowed \subseteq S /\ MaxDeferred \in Nat \ {0}
    BY SizesAssumption DEF TInv, ReceiverInv
<1>1. /\ deferred' \in {deferred, Bounded(Append(deferred, m), MaxDeferred)}
      /\ queue' \in {queue, Append(queue, m)}
      /\ overflowed' = overflowed \/ overflowed' = overflowed
            \cup IF Len(deferred) = MaxDeferred THEN {Head(deferred)} ELSE {}
    BY DEF PostDeferOrDrop
<1> HIDE DEF S
<1>2. /\ Bounded(Append(deferred, m), MaxDeferred) \in Seq(S)
      /\ Len(Bounded(Append(deferred, m), MaxDeferred)) <= MaxDeferred
    BY <1>0, BoundedTypes DEF S
<1>3. Append(queue, m) \in Seq(S)
    BY <1>0, AppendProperties DEF S
<1>4. Len(deferred) = MaxDeferred => Head(deferred) \in S
    <2> SUFFICES ASSUME Len(deferred) = MaxDeferred PROVE Head(deferred) \in S
        OBVIOUS
    <2>1. deferred # <<>>
        BY <1>0, EmptySeq
    <2> QED
        BY <1>0, <2>1, HeadTailProperties
<1> QED
    BY <1>0, <1>1, <1>2, <1>3, <1>4 DEF S

\* The lists of the receiver, when the sender does nothing.
LEMMA ReceiverStep ==
    ASSUME TInv, UNCHANGED senderVars, UNCHANGED <<progress, faults>>,
           channel' \in Seq(Broadcasts), Len(channel') <= HWM,
           known' \in Seq(Broadcasts), Len(known') <= MaxKnown,
           deferred' \in Seq(Broadcasts), Len(deferred') <= MaxDeferred,
           pulled' \in Seq(Broadcasts), queue' \in Seq(Broadcasts),
           processed' \subseteq Broadcasts, overflowed' \subseteq Broadcasts
    PROVE  TInv'
<1>1. Broadcasts' = Broadcasts
    BY DEF Broadcasts, senderVars
<1> QED
    BY <1>1 DEF TInv, SenderInv, ReceiverInv, CountersInv, consensusVars, senderVars, progress

LEMMA ReadTypes ==
    ASSUME TInv, NetworkRead
    PROVE  TInv'
<1> DEFINE S == Broadcasts
           m == Head(channel)
<1>0. /\ channel \in Seq(S) /\ Len(channel) <= HWM /\ HWM \in Nat
      /\ known \in Seq(S) /\ Len(known) <= MaxKnown /\ MaxKnown \in Nat
      /\ pulled \in Seq(S) /\ processed \subseteq S
      /\ deferred \in Seq(S) /\ Len(deferred) <= MaxDeferred
      /\ queue \in Seq(S) /\ overflowed \subseteq S
    BY SizesAssumption DEF TInv, SenderInv, ReceiverInv
<1>1. /\ channel # <<>> /\ channel' = Tail(channel)
      /\ UNCHANGED senderVars /\ UNCHANGED <<progress, faults>> /\ UNCHANGED <<pulled, processed>>
    BY DEF NetworkRead
<1> HIDE DEF S
<1>2. /\ channel' \in Seq(S) /\ Len(channel') = Len(channel) - 1 /\ Len(channel) \in Nat
      /\ m \in S
    BY <1>0, <1>1, HeadTailProperties
<1>3. Len(channel') <= HWM
    BY <1>0, <1>2
<1>4. CASE UNCHANGED <<known, deferred, overflowed, queue>>
    BY <1>0, <1>1, <1>2, <1>3, <1>4, ReceiverStep DEF S
<1>5. CASE known' = Bounded(Append(known, m), MaxKnown) /\ PostDeferOrDrop(m)
    <2>1. known' \in Seq(S) /\ Len(known') <= MaxKnown
        BY <1>0, <1>2, <1>5, BoundedTypes
    <2>2. /\ deferred' \in Seq(S) /\ Len(deferred') <= MaxDeferred
          /\ queue' \in Seq(S) /\ overflowed' \subseteq S
        BY <1>2, <1>5, PostTypes DEF S
    <2> QED
        BY <1>0, <1>1, <1>2, <1>3, <2>1, <2>2, ReceiverStep DEF S
<1> QED
    BY <1>4, <1>5 DEF NetworkRead

LEMMA PullTypes ==
    ASSUME TInv, PullMessages
    PROVE  TInv'
<1>1. /\ pulled' = deferred /\ deferred' = <<>>
      /\ UNCHANGED senderVars /\ UNCHANGED <<progress, faults>>
      /\ UNCHANGED <<channel, known, queue, processed, overflowed>>
    BY DEF PullMessages
<1>2. <<>> \in Seq(Broadcasts) /\ Len(<<>>) <= MaxDeferred
    BY EmptySeq, SizesAssumption
<1> QED
    BY <1>1, <1>2, ReceiverStep DEF TInv, SenderInv, ReceiverInv

LEMMA PostPulledTypes ==
    ASSUME TInv, PostPulled
    PROVE  TInv'
<1>1. /\ pulled # <<>> /\ pulled' = Tail(pulled) /\ PostDeferOrDrop(Head(pulled))
      /\ UNCHANGED senderVars /\ UNCHANGED <<progress, faults>>
      /\ UNCHANGED <<channel, known, processed>>
    BY DEF PostPulled
<1>2. pulled \in Seq(Broadcasts)
    BY DEF TInv, ReceiverInv
<1>3. Head(pulled) \in Broadcasts /\ pulled' \in Seq(Broadcasts)
    BY <1>1, <1>2, HeadTailProperties
<1>4. /\ deferred' \in Seq(Broadcasts) /\ Len(deferred') <= MaxDeferred
      /\ queue' \in Seq(Broadcasts) /\ overflowed' \subseteq Broadcasts
    BY <1>1, <1>3, PostTypes
<1> QED
    BY <1>1, <1>3, <1>4, ReceiverStep DEF TInv, SenderInv, ReceiverInv

LEMMA ProcessTypes ==
    ASSUME TInv, ProcessMessage
    PROVE  TInv' /\ Head(queue) \in Broadcasts
<1>1. /\ queue # <<>> /\ queue' = Tail(queue) /\ processed' = processed \cup {Head(queue)}
      /\ UNCHANGED senderVars /\ UNCHANGED <<progress, faults>>
      /\ UNCHANGED <<channel, known, deferred, pulled, overflowed>>
    BY DEF ProcessMessage
<1>2. queue \in Seq(Broadcasts) /\ processed \subseteq Broadcasts
    BY DEF TInv, ReceiverInv
<1>3. Head(queue) \in Broadcasts /\ queue' \in Seq(Broadcasts)
    BY <1>1, <1>2, HeadTailProperties
<1>4. processed' \subseteq Broadcasts
    BY <1>1, <1>2, <1>3
<1> QED
    BY <1>1, <1>3, <1>4, ReceiverStep DEF TInv, SenderInv, ReceiverInv

LEMMA ProgressTypes ==
    ASSUME TInv, NextRound \/ CommitBlock
    PROVE  TInv'
<1>1. /\ UNCHANGED senderVars /\ UNCHANGED channel /\ UNCHANGED receiverVars /\ UNCHANGED faults
    BY DEF NextRound, CommitBlock
<1>2. Broadcasts' = Broadcasts
    BY <1>1 DEF Broadcasts, senderVars
<1>3. SenderInv' /\ ReceiverInv'
    BY <1>1, <1>2 DEF TInv, SenderInv, ReceiverInv, consensusVars, senderVars, receiverVars
<1>4. CountersInv'
    BY <1>1, SizesAssumption DEF TInv, CountersInv, NextRound, CommitBlock
<1> QED
    BY <1>3, <1>4 DEF TInv

LEMMA RestartReceiverTypes ==
    ASSUME TInv, RestartReceiver
    PROVE  TInv'
<1>1. /\ channel' \in {channel, <<>>} /\ known' = <<>> /\ deferred' = <<>> /\ pulled' = <<>>
      /\ queue' = <<>> /\ processed' = {} /\ overflowed' = {} /\ round' = 0
      /\ UNCHANGED senderVars /\ block' = block /\ faults' \in 0 .. MaxFaults
    BY FaultTypes DEF RestartReceiver
<1>2. Broadcasts' = Broadcasts
    BY <1>1 DEF Broadcasts, senderVars
<1>3. /\ <<>> \in Seq(Broadcasts) /\ Len(<<>>) <= HWM /\ Len(<<>>) <= MaxKnown
      /\ Len(<<>>) <= MaxDeferred
    BY EmptySeq, SizesAssumption
<1> QED
    BY <1>1, <1>2, <1>3
       DEF TInv, SenderInv, ReceiverInv, CountersInv, consensusVars, senderVars

LEMMA InitTypes == Init => TInv
<1> SUFFICES ASSUME Init PROVE TInv
    OBVIOUS
<1>1. /\ <<>> \in Seq(Broadcasts) /\ Len(<<>>) <= HWM /\ Len(<<>>) <= MaxKnown
      /\ Len(<<>>) <= MaxDeferred /\ Len(<<>>) <= MaxDelayed
    BY EmptySeq, SizesAssumption
<1>2. SenderInv
    <2>1. senderBlock \in Block .. Block + 1
        BY SizesAssumption DEF Init
    <2>2. vectorSaved \in BOOLEAN
        BY DEF Init
    <2> QED
        BY <1>1, <2>1, <2>2, FS_EmptySet, MessagesAssumption, SizesAssumption DEF Init, SenderInv
<1>3. ReceiverInv
    BY <1>1 DEF Init, ReceiverInv
<1>4. CountersInv
    BY SizesAssumption DEF Init, CountersInv
<1> QED
    BY <1>2, <1>3, <1>4 DEF TInv

LEMMA NextTypes == TInv /\ [Next]_vars => TInv'
<1> SUFFICES ASSUME TInv, [Next]_vars PROVE TInv'
    OBVIOUS
<1>1. CASE UNCHANGED vars
    <2>1. UNCHANGED Broadcasts
        BY <1>1 DEF vars, Broadcasts, senderVars
    <2> QED
        BY <1>1, <2>1 DEF vars, TInv, SenderInv, ReceiverInv, CountersInv, consensusVars,
                          senderVars, receiverVars, progress
<1> QED
    BY <1>1, ConsensusTypes, BroadcastTypes, SendDelayedTypes, PopDelayedTypes, TimeoutTypes, ReadTypes,
       PullTypes, PostPulledTypes, ProcessTypes, ProgressTypes, LoseTypes, RestartSenderTypes,
       RestartReceiverTypes DEF Next

\* Everything in transit was broadcast.
THEOREM TransitInvariance == Spec => []TInv
BY InitTypes, NextTypes, PTL DEF Spec

\* Every list of the sender and the receiver holds messages and keeps to its
\* bound, for queues of every size; trySendingDelayedSends never removes an
\* entry of an empty list.
THEOREM TypeCorrect == Spec => []TypeOK
<1>1. TInv => TypeOK
    <2> SUFFICES ASSUME TInv PROVE TypeOK
        OBVIOUS
    <2>1. Broadcasts \subseteq Messages
        BY MessagesAssumption DEF TInv, SenderInv, Broadcasts, Messages
    <2>2. /\ channel \in Seq(Messages) /\ delayed \in Seq(Messages) /\ known \in Seq(Messages)
          /\ deferred \in Seq(Messages) /\ pulled \in Seq(Messages) /\ queue \in Seq(Messages)
        BY <2>1, SeqMonotonic DEF TInv, SenderInv, ReceiverInv
    <2> QED
        BY <2>1, <2>2 DEF TInv, SenderInv, ReceiverInv, CountersInv, TypeOK
<1> QED
    BY <1>1, TransitInvariance, PTL

-----------------------------------------------------------------------------
(* The network implements MessageDelivery.                                 *)

LEMMA StepDelivers ==
    ASSUME IInv, TInv, [Next]_vars
    PROVE  [Promise!Next]_<<Broadcasts, block, round, processed>>
<1> DEFINE abstract == <<Broadcasts, block, round, processed>>
<1>1. CASE BroadcastMessage
    <2>1. /\ last' = last + 1 /\ last < LastMessage /\ last \in Nat
          /\ block' = block /\ round' = round /\ processed' = processed
        BY <1>1, MessagesAssumption DEF BroadcastMessage, receiverVars, progress, TInv, SenderInv
    <2>2. /\ last + 1 \in Messages \ Broadcasts
          /\ Broadcasts' = Broadcasts \cup {last + 1}
        BY <2>1, MessagesAssumption DEF Broadcasts, Messages
    <2>3. Promise!Broadcast
        BY <2>1, <2>2 DEF Promise!Broadcast, Broadcasts
    <2> QED
        BY <2>3 DEF Promise!Next
<1>2. CASE ProcessMessage
    <2>1. /\ queue # <<>> /\ processed' = processed \cup {Head(queue)}
          /\ last' = last /\ block' = block /\ round' = round
        BY <1>2 DEF ProcessMessage, senderVars, progress
    <2>2. Head(queue) \in Broadcasts
        BY <1>2, ProcessTypes
    <2>3. Head(queue) \in Range(queue)
        BY <2>1, TailList DEF IInv, ListInv
    <2>4. Block <= block /\ RoundOf[Head(queue)] <= round
        BY <2>3 DEF IInv, StillAccepted, ShouldPost
    <2>5. Promise!Deliver
        BY <2>1, <2>2, <2>4, SizesAssumption DEF Promise!Deliver, Broadcasts, TInv, CountersInv
    <2> QED
        BY <2>5 DEF Promise!Next
<1>3. CASE NextRound
    <2>1. Promise!NextRound
        BY <1>3 DEF NextRound, Promise!NextRound, senderVars, receiverVars
    <2> QED
        BY <2>1 DEF Promise!Next
<1>4. CASE CommitBlock
    <2>1. Promise!CommitBlock
        BY <1>4 DEF CommitBlock, Promise!CommitBlock, senderVars, receiverVars
    <2> QED
        BY <2>1 DEF Promise!Next
<1>5. CASE RestartReceiver
    <2>1. Promise!Forget
        BY <1>5 DEF RestartReceiver, Promise!Forget, senderVars
    <2> QED
        BY <2>1 DEF Promise!Next
<1>6. CASE UNCHANGED <<last, block, round, processed>>
    BY <1>6 DEF Broadcasts
<1>7. CASE \/ SaveVector \/ SenderCommits
           \/ SendDelayed \/ PopDelayed \/ RebroadcastOnTimeout \/ NetworkRead \/ PullMessages
           \/ PostPulled \/ LoseChannel \/ RestartSender \/ UNCHANGED vars
    <2>1. UNCHANGED <<last, block, round, processed>>
        BY <1>7 DEF SaveVector, SenderCommits, SendDelayed, PopDelayed, RebroadcastOnTimeout, NetworkRead, PullMessages,
                    PostPulled, LoseChannel, RestartSender, vars, senderVars, receiverVars, progress
    <2> QED
        BY <2>1, <1>6
<1> QED
    BY <1>1, <1>2, <1>3, <1>4, <1>5, <1>7 DEF Next

\* networkReadLoop, deferredMessagesLoop, rebroadcasts and restarts: the message
\* thread of the receiver routes only what the sender broadcast, and only when
\* the consensus accepts it, for queues of every size and any number of faults.
THEOREM DeliveryRefinement == Spec => ImplementsDelivery
<1>1. Init => Promise!Init
    BY DEF Init, Promise!Init
<1>2. IInv /\ TInv /\ [Next]_vars => [Promise!Next]_<<Broadcasts, block, round, processed>>
    BY StepDelivers
<1> QED
    BY <1>1, <1>2, Invariance, TransitInvariance, PTL
       DEF Spec, ImplementsDelivery, Promise!Spec, Promise!vars, Broadcasts
=============================================================================
