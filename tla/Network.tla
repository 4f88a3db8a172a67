------------------------------- MODULE Network -------------------------------
(***************************************************************************)
(* How the consensus messages that one node broadcasts for one block reach *)
(* the message thread of another node: the outgoing message database, the  *)
(* delayed sends and the rebroadcast of the sender, and the known hashes,  *)
(* the deferred messages and the message queue of the receiver.            *)
(*                                                                         *)
(* ZeroMQ queues a message for a receiver that is down or slow, and loses  *)
(* what it holds when a connection breaks or a process dies.  A sender     *)
(* whose ZeroMQ queue is full keeps the message in delayedSends.  Only the *)
(* outgoing messages are on disk.                                          *)
(***************************************************************************)
EXTENDS Integers, Sequences, SequencesExt, FiniteSets

CONSTANTS
    NodeCount,       \* nodes of the schain
    LastMessage,     \* the sender broadcasts the messages 1 .. LastMessage
    RoundOf,         \* RoundOf[m]: the consensus round of message m
    Block,           \* the block that the messages are about
    FirstBlock,      \* the block that the receiver starts with
    LastBlock,       \* the last block the receiver gets to
    HWM,             \* CONSENSUS_ZMQ_HWM
    MaxDelayed,      \* MAX_DELAYED_MESSAGE_SENDS
    MaxDeferred,     \* MAX_DEFERRED_QUEUE_SIZE_FOR_BLOCK
    MaxKnown,        \* KNOWN_MSG_HASHES_SIZE
    MaxActive,       \* MAX_ACTIVE_CONSENSUSES
    KeyBefore(_, _), \* LevelDB sorts the keys as strings: "10" is before "9"
    FirstKey,        \* msgCounter when the first message of Block is sent
    MaxFaults        \* bound on restarts, broken connections and long outages

Messages == 1 .. LastMessage
None == 0

ASSUME MessagesAssumption == LastMessage \in Nat /\ RoundOf \in [Messages -> Nat]

ASSUME SizesAssumption ==
    /\ {HWM, MaxDelayed, MaxDeferred, MaxKnown, MaxActive} \subseteq Nat \ {0}
    /\ {NodeCount, Block, FirstBlock, LastBlock, FirstKey, MaxFaults} \subseteq Nat
    /\ FirstBlock <= LastBlock

VARIABLES
    senderBlock, \* the block that the sender works on
    vectorSaved, \* whether the sender's proposal vector of Block is on disk
    last,       \* the last message that was broadcast
    outDB,      \* the outgoing messages on disk: <<key, message>>
    counter,    \* msgCounter, the next key
    channel,    \* what ZeroMQ holds for the receiver
    delayed,    \* delayedSends of the receiver
    popping,    \* the delayed message that was just sent, or None
    known,      \* knownMsgHashes
    deferred,   \* deferredMessageQueue of Block
    pulled,     \* messages the deferred thread has pulled and not handled yet
    queue,      \* messageQueue of Schain
    processed,  \* messages that the message thread has routed to the consensus
    overflowed, \* messages that a full deferred queue has dropped
    block,      \* the block that the receiver works on
    round,      \* the last round of Block that the receiver accepts
    faults      \* faults so far

consensusVars == <<senderBlock, vectorSaved>>
senderVars == <<consensusVars, last, outDB, counter, delayed, popping>>
progress == <<block, round>>
receiverVars == <<known, deferred, pulled, queue, processed, overflowed>>
vars == <<senderVars, channel, receiverVars, progress, faults>>

-----------------------------------------------------------------------------
(* The sender.                                                             *)

\* Mistake: the queue is not cut.
AddToDelayedSends_Uncut(list, added) == list \o added

\* addToDelayedSends, for each of added: the oldest messages make room.
AddToDelayedSends(list, added) ==
    LET all == list \o added
        first == IF Len(all) > MaxDelayed THEN Len(all) - MaxDelayed + 1 ELSE 1
    IN  SubSeq(all, first, Len(all))

\* broadcastMessageImpl for this receiver, for each of list: ZeroMQ takes what
\* it has room for.
SendOrDelay(net, list) ==
    LET room == HWM - Len(net.channel)
        fits == IF Len(list) < room THEN Len(list) ELSE room
    IN  [channel |-> net.channel \o SubSeq(list, 1, fits),
         delayed |-> AddToDelayedSends(net.delayed, SubSeq(list, fits + 1, Len(list)))]

\* saveMsg: a key that exists is not written again.
SaveMsg(m) ==
    IF \E e \in outDB : e[1] = counter THEN outDB ELSE outDB \cup {<<counter, m>>}

\* getMessages, in the order of the keys: a set with one sequence.
GetMessages ==
    {[i \in 1 .. Cardinality(outDB) |-> order[i][2]] : order \in
        {f \in [1 .. Cardinality(outDB) -> outDB] :
            \A i, j \in 1 .. Cardinality(outDB) : i < j => KeyBefore(f[i][1], f[j][1])}}

Saved == {e[2] : e \in outDB}

Sent(net) == channel' = net.channel /\ delayed' = net.delayed

\* startConsensus of the sender.  Its consensus may have answered others
\* before.
SaveVector ==
    /\ senderBlock = Block
    /\ ~vectorSaved
    /\ vectorSaved' = TRUE
    /\ UNCHANGED <<senderBlock, last, outDB, counter, delayed, popping, channel, receiverVars,
                   progress, faults>>

\* The sender commits Block; its consensus of Block still answers others.
SenderCommits ==
    /\ senderBlock = Block
    /\ senderBlock' = Block + 1
    /\ UNCHANGED <<vectorSaved, last, outDB, counter, delayed, popping, channel, receiverVars,
                   progress, faults>>

BroadcastMessage ==
    /\ last < LastMessage
    /\ last' = last + 1
    /\ outDB' = SaveMsg(last + 1)
    /\ counter' = counter + 1
    /\ Sent(SendOrDelay([channel |-> channel, delayed |-> delayed], <<last + 1>>))
    /\ UNCHANGED <<consensusVars, popping, receiverVars, progress, faults>>

\* trySendingDelayedSends reads the first delayed message and sends it ...
SendDelayed ==
    /\ popping = None
    /\ delayed # <<>>
    /\ Len(channel) < HWM
    /\ channel' = Append(channel, Head(delayed))
    /\ popping' = Head(delayed)
    /\ UNCHANGED <<consensusVars, last, outDB, counter, delayed, receiverVars, progress, faults>>

\* ... and removes the first one under a new lock.
PopDelayed ==
    /\ popping # None
    /\ delayed' = Tail(delayed)
    /\ popping' = None
    /\ UNCHANGED <<consensusVars, last, outDB, counter, channel, receiverVars, progress, faults>>

\* Mistake: only what is delayed is sent again.
RebroadcastAllMessages_Delayed(net) == Sent(SendOrDelay(net, delayed))

RebroadcastAllMessages(net) == \E list \in GetMessages : Sent(SendOrDelay(net, list))

Calm == channel = <<>> /\ delayed = <<>>

\* The messages of the block after the sender's last committed one are
\* broadcast again, by a timer that runs from the third block on.
TimerRebroadcasts == NodeCount > 2 /\ senderBlock > 2 /\ senderBlock = Block

\* The timeout agent, every two minutes.  By then all that can be delivered
\* has been delivered; otherwise the receiver was out for long.
RebroadcastOnTimeout ==
    /\ TimerRebroadcasts
    /\ Calm \/ faults < MaxFaults
    /\ faults' = IF Calm THEN faults ELSE faults + 1
    /\ RebroadcastAllMessages([channel |-> channel, delayed |-> delayed])
    /\ UNCHANGED <<consensusVars, last, outDB, counter, popping, receiverVars, progress>>

-----------------------------------------------------------------------------
(* The receiver.                                                           *)

\* A list that drops its oldest entry when it is full.
Bounded(list, size) == IF Len(list) > size THEN Tail(list) ELSE list

\* Mistake: the next round is accepted before the decision.
ShouldPost_Early(m) == m \in Messages /\ RoundOf[m] <= round + 1

\* shouldPost, of the consensus of Block, which goes on after a catchup.
ShouldPost(m) == m \in Messages /\ RoundOf[m] <= round

\* Mistake: a message of a later round is not deferred.
PostDeferOrDrop_Post(m) ==
    \/ /\ Block > block
       /\ deferred' = Bounded(Append(deferred, m), MaxDeferred)
       /\ overflowed' = overflowed
            \cup IF Len(deferred) = MaxDeferred THEN {Head(deferred)} ELSE {}
       /\ UNCHANGED queue
    \/ /\ Block + MaxActive <= block
       /\ UNCHANGED <<deferred, overflowed, queue>>
    \/ /\ Block <= block /\ block < Block + MaxActive
       /\ queue' = Append(queue, m)
       /\ UNCHANGED <<deferred, overflowed>>

PostDeferOrDrop(m) ==
    \/ /\ \/ Block > block
          \/ Block + MaxActive > block /\ ~ShouldPost(m)
       /\ deferred' = Bounded(Append(deferred, m), MaxDeferred)
       /\ overflowed' = overflowed
            \cup IF Len(deferred) = MaxDeferred THEN {Head(deferred)} ELSE {}
       /\ UNCHANGED queue
    \/ /\ Block + MaxActive <= block
       /\ UNCHANGED <<deferred, overflowed, queue>>
    \/ /\ Block <= block /\ block < Block + MaxActive /\ ShouldPost(m)
       /\ queue' = Append(queue, m)
       /\ UNCHANGED <<deferred, overflowed>>

\* networkReadLoop: a message that is known is dropped.
NetworkRead ==
    /\ channel # <<>>
    /\ channel' = Tail(channel)
    /\ LET m == Head(channel)
       IN  \/ /\ m \in Range(known)
              /\ UNCHANGED <<known, deferred, overflowed, queue>>
           \/ /\ m \notin Range(known)
              /\ known' = Bounded(Append(known, m), MaxKnown)
              /\ PostDeferOrDrop(m)
    /\ UNCHANGED <<senderVars, pulled, processed, progress, faults>>

\* Mistake: the list is taken even if it is of a later block.
PullMessages_First ==
    /\ pulled = <<>>
    /\ deferred # <<>>
    /\ pulled' = <<Head(deferred)>>
    /\ deferred' = <<>>
    /\ UNCHANGED <<senderVars, channel, known, queue, processed, overflowed, progress, faults>>

\* deferredMessagesLoop takes the whole list of a block that is not ahead ...
PullMessages ==
    /\ pulled = <<>>
    /\ deferred # <<>>
    /\ Block <= block
    /\ pulled' = deferred
    /\ deferred' = <<>>
    /\ UNCHANGED <<senderVars, channel, known, queue, processed, overflowed, progress, faults>>

\* ... and posts, defers or drops its messages one by one.
PostPulled ==
    /\ pulled # <<>>
    /\ pulled' = Tail(pulled)
    /\ PostDeferOrDrop(Head(pulled))
    /\ UNCHANGED <<senderVars, channel, known, processed, progress, faults>>

\* messageThreadProcessingLoop
ProcessMessage ==
    /\ queue # <<>>
    /\ queue' = Tail(queue)
    /\ processed' = processed \cup {Head(queue)}
    /\ UNCHANGED <<senderVars, channel, known, deferred, pulled, overflowed, progress, faults>>

\* The consensus of the receiver goes on to the next round, or the receiver
\* commits a block, by consensus or by catchup.
NextRound ==
    /\ block >= Block
    /\ \E m \in Messages : RoundOf[m] > round
    /\ round' = round + 1
    /\ UNCHANGED <<senderVars, channel, receiverVars, block, faults>>

CommitBlock ==
    /\ block < LastBlock
    /\ block' = block + 1
    /\ UNCHANGED <<senderVars, channel, receiverVars, round, faults>>

-----------------------------------------------------------------------------
(* Faults.                                                                 *)

Fault == faults < MaxFaults /\ faults' = faults + 1

\* The connection breaks.
LoseChannel ==
    /\ Fault
    /\ channel # <<>>
    /\ channel' = <<>>
    /\ UNCHANGED <<senderVars, receiverVars, progress>>

\* The sender dies and is started again: if bootstrap() finds the proposal
\* vector of the block it works on, it broadcasts its messages again.
RestartSender ==
    /\ Fault
    /\ \E c \in {channel, <<>>} :
        \/ /\ senderBlock = Block /\ vectorSaved
           /\ RebroadcastAllMessages([channel |-> c, delayed |-> <<>>])
        \/ /\ senderBlock # Block \/ ~vectorSaved
           /\ channel' = c
           /\ delayed' = <<>>
    /\ counter' = 0
    /\ popping' = None
    /\ UNCHANGED <<consensusVars, last, outDB, receiverVars, progress>>

\* The receiver dies and is started again, with a new consensus instance.
RestartReceiver ==
    /\ Fault
    /\ channel' \in {channel, <<>>}
    /\ known' = <<>>
    /\ deferred' = <<>>
    /\ pulled' = <<>>
    /\ queue' = <<>>
    /\ processed' = {}
    /\ overflowed' = {}
    /\ round' = 0
    /\ UNCHANGED <<senderVars, block>>

-----------------------------------------------------------------------------
Init ==
    /\ senderBlock = Block
    /\ vectorSaved = FALSE
    /\ last = 0
    /\ outDB = {}
    /\ counter = FirstKey
    /\ channel = <<>>
    /\ delayed = <<>>
    /\ popping = None
    /\ known = <<>>
    /\ deferred = <<>>
    /\ pulled = <<>>
    /\ queue = <<>>
    /\ processed = {}
    /\ overflowed = {}
    /\ block = FirstBlock
    /\ round = 0
    /\ faults = 0

Next ==
    \/ SaveVector
    \/ SenderCommits
    \/ BroadcastMessage
    \/ SendDelayed
    \/ PopDelayed
    \/ RebroadcastOnTimeout
    \/ NetworkRead
    \/ PullMessages
    \/ PostPulled
    \/ ProcessMessage
    \/ NextRound
    \/ CommitBlock
    \/ LoseChannel
    \/ RestartSender
    \/ RestartReceiver

Spec == Init /\ [][Next]_vars

(* The loops of both nodes go on and the rebroadcast timer runs while the  *)
(* sender works on the block.  The consensus of neither owes progress.     *)
Fairness ==
    /\ WF_vars(SendDelayed)
    /\ WF_vars(PopDelayed)
    /\ WF_vars(Calm /\ RebroadcastOnTimeout)
    /\ WF_vars(NetworkRead)
    /\ WF_vars(PullMessages)
    /\ WF_vars(PostPulled)
    /\ WF_vars(ProcessMessage)

FairSpec == Spec /\ Fairness

-----------------------------------------------------------------------------
\* The queues hold messages and keep to their bounds.
TypeOK ==
    /\ senderBlock \in Block .. Block + 1
    /\ vectorSaved \in BOOLEAN
    /\ last \in 0 .. LastMessage
    /\ outDB \subseteq Nat \X Messages
    /\ counter \in Nat
    /\ channel \in Seq(Messages) /\ Len(channel) <= HWM
    /\ delayed \in Seq(Messages) /\ Len(delayed) <= MaxDelayed
    /\ popping \in Messages \cup {None}
    /\ known \in Seq(Messages) /\ Len(known) <= MaxKnown
    /\ deferred \in Seq(Messages) /\ Len(deferred) <= MaxDeferred
    /\ pulled \in Seq(Messages)
    /\ queue \in Seq(Messages)
    /\ processed \subseteq Messages
    /\ overflowed \subseteq Messages
    /\ block \in FirstBlock .. LastBlock
    /\ round \in Nat
    /\ faults \in 0 .. MaxFaults

\* shouldPost still holds when the message thread takes a message, although
\* the network threads asked for it earlier and the consensus went on.
StillAccepted == \A m \in Range(queue) : Block <= block /\ ShouldPost(m)

\* A message whose hash is known is not lost inside the receiver: it has been
\* processed, or some thread or queue has it, unless a full queue dropped it or
\* its block is old.  A rebroadcast would not bring it back.
NoneLost ==
    \A m \in Range(known) :
        \/ m \in processed \cup overflowed
        \/ m \in Range(queue) \cup Range(deferred) \cup Range(pulled)
        \/ Block + MaxActive <= block

Active == Block <= block /\ block < Block + MaxActive

\* The sender has the message on disk, or was not restarted since it sent it.
Kept(m) == m \in Saved \/ (m <= last /\ counter = FirstKey + last)

\* As long as the sender has not committed the block, its messages reach the
\* consensus of a receiver that still runs it and accepts their round, whatever
\* was lost, delayed, deferred or forgotten before.  Nothing is promised for a
\* message that a restarted sender could not save under its old keys, that
\* a full deferred queue dropped, or after the sender's commit, when catchup
\* has to bring the block.
EventuallyDelivered ==
    \A m \in Messages :
        <>[](Kept(m) /\ TimerRebroadcasts /\ Active /\ ShouldPost(m) /\ m \notin overflowed)
            => <>[](m \in processed)

\* The network keeps the promise that the consensus relies on: whatever the
\* queues, the database, the rebroadcasts and the restarts do, the message
\* thread routes only what the sender broadcast and the consensus accepts then.
Promise == INSTANCE MessageDelivery WITH sent <- 1 .. last, delivered <- processed
ImplementsDelivery == Promise!Spec
=============================================================================
