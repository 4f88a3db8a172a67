----------------------------- MODULE BlockCommit -----------------------------
(***************************************************************************)
(* How one node commits the blocks of the chain: Schain::blockCommitArrived *)
(* in the message thread, blockCommitsArrivedThroughCatchup in the catchup *)
(* thread, processCommittedBlock, which both call under blockProcessMutex, *)
(* and bootstrap(), which pushes the blocks that skaled has lost.          *)
(*                                                                         *)
(* A block is written to BlockDB, executed by skaled through createBlock,  *)
(* and only then the node counts it as committed.  The process, which      *)
(* skaled and consensus share, may die between any two of these steps, or  *)
(* be asked to exit, at best on a block boundary; skaled may then be back  *)
(* at an earlier block than the last one it executed.  The block of every  *)
(* height is the one the consensus of the schain has agreed on.            *)
(***************************************************************************)
EXTENDS Integers

CONSTANTS
    MaxBlock,     \* blocks of the chain so far
    MaxLag,       \* blocks bootstrap() accepts to be missing in skaled, 128 in the code
    MaxCrashes,   \* bound on the crashes of one behaviour
    MaxFailures,  \* bound on the calls of createBlock that fail
    MayExit       \* whether the node may be asked to exit

ASSUME BoundsAssumption ==
    /\ MaxBlock \in Nat
    /\ MaxLag \in Nat \ {0}
    /\ MaxCrashes \in Nat
    /\ MaxFailures \in Nat
    /\ MayExit \in BOOLEAN

VARIABLES
    blockDB,       \* blocks written to BlockDB
    lastSaved,     \* the last committed block id in BlockDB
    skaled,        \* the last block that skaled has executed and kept
    lastCommitted, \* Schain::lastCommittedBlockID
    initialized,   \* Schain::isStateInitialized
    mutex,         \* the thread that holds blockProcessMutex
    pc,            \* pc[t]: where thread t is
    next,          \* next[t]: the next block of t's list
    last,          \* last[t]: the last block of t's list
    exitOnBlock,   \* Node::exitOnBlockBoundaryRequested
    exitRequested, \* Node::exitRequested
    crashes,       \* crashes so far
    failures       \* failed calls of createBlock so far

disk == <<blockDB, lastSaved>>
exit == <<exitOnBlock, exitRequested>>
bounds == <<crashes, failures>>
vars == <<disk, skaled, lastCommitted, initialized, mutex, pc, next, last, exit, bounds>>

Blocks == 1 .. MaxBlock
Committers == {"consensus", "catchup"}
Threads == Committers \cup {"bootstrap"}
Nobody == "nobody"

\* In "await" a thread waits for isStateInitialized.  "save" to "created" are
\* inside processCommittedBlock; bootstrap() goes through "push" and "created"
\* only, and through "caught" in its loop.
Places == {"await", "idle", "lock", "process", "save", "saveLast", "push", "created",
           "check", "boot", "caught", "propose", "ended", "failed"}

\* The threads run before bootstrap() is called.
StartPlace(t) ==
    CASE t = "bootstrap" -> "check"
      [] t = "catchup" -> "await"
      [] t = "consensus" -> "idle"

-----------------------------------------------------------------------------
Start(block) ==
    /\ lastCommitted' = 0
    /\ initialized' = FALSE
    /\ mutex' = Nobody
    /\ pc' = [t \in Threads |-> StartPlace(t)]
    /\ next' = [t \in Threads |-> block + 1]
    /\ last' = [t \in Threads |-> lastSaved]
    /\ exitOnBlock' = FALSE
    /\ exitRequested' = FALSE

Init ==
    /\ blockDB = {}
    /\ lastSaved = 0
    /\ skaled = 0
    /\ lastCommitted = 0
    /\ initialized = FALSE
    /\ mutex = Nobody
    /\ pc = [t \in Threads |-> StartPlace(t)]
    /\ next = [t \in Threads |-> 1]
    /\ last = [t \in Threads |-> 0]
    /\ exitOnBlock = FALSE
    /\ exitRequested = FALSE
    /\ crashes = 0
    /\ failures = 0

Goto(t, place) == pc' = [pc EXCEPT ![t] = place]

\* An exception leaves the handler of t, which unlocks the mutex; bootstrap()
\* catches it inside its loop.
Throw(t, place) ==
    IF t = "bootstrap" THEN Goto(t, "caught") /\ UNCHANGED mutex
    ELSE Goto(t, place) /\ mutex' = Nobody

-----------------------------------------------------------------------------
(* Blocks arrive and the handlers take the mutex.                          *)

\* finalizeDecidedAndSignedBlock calls blockCommitArrived for the next block.
\* Before bootstrap() is done the last committed block is 0.
FinalizeBlock ==
    /\ pc["consensus"] = "idle"
    /\ ~exitRequested
    /\ lastCommitted < MaxBlock
    /\ next' = [next EXCEPT !["consensus"] = lastCommitted + 1]
    /\ last' = [last EXCEPT !["consensus"] = lastCommitted + 1]
    /\ Goto("consensus", "await")
    /\ UNCHANGED <<disk, skaled, lastCommitted, initialized, mutex, exit, bounds>>

\* The loops that wait for bootstrap() do not look at the exit flags;
\* blockCommitArrived does so after its loop.
WaitForInitialized(t) ==
    /\ pc[t] = "await"
    /\ initialized
    /\ \/ t = "catchup" /\ Goto(t, "idle")
       \/ t = "consensus" /\ exitRequested /\ Goto(t, "ended")
       \/ t = "consensus" /\ ~exitRequested /\ Goto(t, "lock")
    /\ UNCHANGED <<disk, skaled, lastCommitted, initialized, mutex, next, last, exit, bounds>>

\* The catchup client downloads blocks from another node.
CatchupDownload ==
    /\ pc["catchup"] = "idle"
    /\ ~exitRequested
    /\ \E b \in lastCommitted + 1 .. MaxBlock :
        last' = [last EXCEPT !["catchup"] = b]
    /\ next' = [next EXCEPT !["catchup"] = lastCommitted + 1]
    /\ Goto("catchup", "lock")
    /\ UNCHANGED <<disk, skaled, lastCommitted, initialized, mutex, exit, bounds>>

\* The thread is between two messages, or between two downloads.
Leave(t) ==
    /\ exitRequested
    /\ pc[t] = "idle"
    /\ Goto(t, "ended")
    /\ UNCHANGED <<disk, skaled, lastCommitted, initialized, mutex, next, last, exit, bounds>>

\* The message thread does not go on with a block that catchup has committed
\* meanwhile.
LockMutex(t) ==
    /\ pc[t] = "lock"
    /\ mutex = Nobody
    /\ IF t = "consensus" /\ next[t] <= lastCommitted
       THEN Goto(t, "idle") /\ UNCHANGED mutex
       ELSE Goto(t, "process") /\ mutex' = t
    /\ UNCHANGED <<disk, skaled, lastCommitted, initialized, next, last, exit, bounds>>

\* Mistake: after the timeout the blocks are processed without the mutex.
LockTimeout_Proceed ==
    /\ pc["catchup"] = "lock"
    /\ mutex # Nobody
    /\ Goto("catchup", "process")
    /\ UNCHANGED <<disk, skaled, lastCommitted, initialized, mutex, next, last, exit, bounds>>

\* try_lock_for gives up after a minute.  When the node exits, the exception of
\* checkForExit goes through the handler that unlocks.
LockTimeout ==
    /\ pc["catchup"] = "lock"
    /\ mutex # Nobody
    /\ IF exitRequested THEN Throw("catchup", "ended")
       ELSE Goto("catchup", "idle") /\ UNCHANGED mutex
    /\ UNCHANGED <<disk, skaled, lastCommitted, initialized, next, last, exit, bounds>>

-----------------------------------------------------------------------------
(* processCommittedBlock and the loop around it.                           *)

\* Mistake: the loop goes on past the end of the list.
NextBlock_PastEnd(t) ==
    /\ pc[t] = "process"
    /\ \/ /\ next[t] > last[t] + 1
          /\ Goto(t, "idle") /\ mutex' = Nobody
       \/ /\ next[t] <= last[t] + 1 /\ next[t] = lastCommitted + 1
          /\ Goto(t, "save")
          /\ UNCHANGED mutex
    /\ UNCHANGED <<disk, skaled, lastCommitted, initialized, next, last, exit, bounds>>

\* The next block of the list is processed if it is the next one of the
\* chain.  After the list the node proposes and unlocks.
NextBlock(t) ==
    /\ pc[t] = "process"
    /\ \/ /\ exitRequested
          /\ Throw(t, "ended")
          /\ UNCHANGED next
       \/ /\ ~exitRequested /\ next[t] > last[t]
          /\ Goto(t, "idle") /\ mutex' = Nobody
          /\ UNCHANGED next
       \/ /\ ~exitRequested /\ next[t] <= last[t] /\ next[t] = lastCommitted + 1
          /\ Goto(t, "save")
          /\ UNCHANGED <<mutex, next>>
       \/ /\ ~exitRequested /\ next[t] <= last[t] /\ next[t] # lastCommitted + 1
          /\ next' = [next EXCEPT ![t] = @ + 1]
          /\ UNCHANGED <<mutex, pc>>
    /\ UNCHANGED <<disk, skaled, lastCommitted, initialized, last, exit, bounds>>

\* Mistake: the block id is written before the block.
SaveBlock_IdFirst(t) ==
    /\ pc[t] = "save"
    /\ ~exitRequested
    /\ lastSaved' = next[t]
    /\ Goto(t, "saveLast")
    /\ UNCHANGED <<blockDB, skaled, lastCommitted, initialized, mutex, next, last, exit,
                   bounds>>

\* saveBlock writes the block ...
SaveBlock(t) ==
    /\ pc[t] = "save"
    /\ \/ /\ exitRequested
          /\ Throw(t, "ended")
          /\ UNCHANGED blockDB
       \/ /\ ~exitRequested
          /\ blockDB' = blockDB \cup {next[t]}
          /\ Goto(t, "saveLast")
          /\ UNCHANGED mutex
    /\ UNCHANGED <<lastSaved, skaled, lastCommitted, initialized, next, last, exit, bounds>>

\* ... and then its id.
SaveLastCommitted(t) ==
    /\ pc[t] = "saveLast"
    /\ lastSaved' = next[t]
    /\ Goto(t, "push")
    /\ UNCHANGED <<blockDB, skaled, lastCommitted, initialized, mutex, next, last, exit,
                   bounds>>

\* pushBlockToExtFace up to the return of createBlock.
PushBlockToExtFace(t) ==
    /\ pc[t] = "push"
    /\ \/ /\ exitOnBlock \/ exitRequested
          /\ exitRequested' = TRUE
          /\ Throw(t, "ended")
          /\ UNCHANGED skaled
       \/ /\ ~exitOnBlock /\ ~exitRequested
          /\ skaled' = next[t]
          /\ Goto(t, "created")
          /\ UNCHANGED <<mutex, exitRequested>>
    /\ UNCHANGED <<disk, lastCommitted, initialized, next, last, exitOnBlock, bounds>>

\* Mistake: the mutex is not unlocked when createBlock fails.
CreateBlockFails_Locked(t) ==
    /\ pc[t] = "push"
    /\ failures < MaxFailures
    /\ failures' = failures + 1
    /\ Goto(t, IF t = "bootstrap" THEN "caught" ELSE "idle")
    /\ UNCHANGED <<disk, skaled, lastCommitted, initialized, mutex, next, last, exit, crashes>>

\* createBlock throws; the thread goes on with its next message or download.
CreateBlockFails(t) ==
    /\ pc[t] = "push"
    /\ failures < MaxFailures
    /\ failures' = failures + 1
    /\ Throw(t, "idle")
    /\ UNCHANGED <<disk, skaled, lastCommitted, initialized, next, last, exit, crashes>>

\* The end of pushBlockToExtFace, and updateLastCommittedBlockInfo.
UpdateLastCommitted(t) ==
    /\ pc[t] = "created"
    /\ \/ /\ exitOnBlock
          /\ exitRequested' = TRUE
          /\ Throw(t, "ended")
          /\ UNCHANGED <<lastCommitted, next>>
       \/ /\ ~exitOnBlock
          /\ next' = [next EXCEPT ![t] = @ + 1]
          /\ IF t = "bootstrap" THEN Goto(t, "boot") /\ UNCHANGED lastCommitted
             ELSE Goto(t, "process") /\ lastCommitted' = next[t]
          /\ UNCHANGED <<mutex, exitRequested>>
    /\ UNCHANGED <<disk, skaled, initialized, last, exitOnBlock, bounds>>

-----------------------------------------------------------------------------
(* bootstrap()                                                             *)

\* Before its loop bootstrap() looks at the exit flag and compares the blocks
\* of consensus and skaled.  If it throws, bootStrapAll() lets skaled terminate
\* the node.
BootstrapCheck ==
    /\ pc["bootstrap"] = "check"
    /\ \/ exitRequested /\ Goto("bootstrap", "ended") /\ UNCHANGED exitOnBlock
       \/ /\ ~exitRequested
          /\ last["bootstrap"] > skaled + MaxLag \/ last["bootstrap"] < skaled
          /\ Goto("bootstrap", "failed")
          /\ exitOnBlock' = TRUE
       \/ /\ ~exitRequested
          /\ last["bootstrap"] \in skaled .. skaled + MaxLag
          /\ Goto("bootstrap", "boot")
          /\ UNCHANGED exitOnBlock
    /\ UNCHANGED <<disk, skaled, lastCommitted, initialized, mutex, next, last, exitRequested,
                   bounds>>

\* The loop pushes the blocks that skaled does not have.
BootstrapLoop ==
    /\ pc["bootstrap"] = "boot"
    /\ \/ /\ next["bootstrap"] <= last["bootstrap"]
          /\ Goto("bootstrap", IF next["bootstrap"] \in blockDB THEN "push" ELSE "caught")
          /\ UNCHANGED <<lastCommitted, initialized>>
       \/ /\ next["bootstrap"] > last["bootstrap"]
          /\ lastCommitted' = next["bootstrap"] - 1
          /\ initialized' = TRUE
          /\ Goto("bootstrap", "propose")
    /\ UNCHANGED <<disk, skaled, mutex, next, last, exit, bounds>>

\* catch ( ... ) inside the loop: the same block is tried again.
BootstrapCatch ==
    /\ pc["bootstrap"] = "caught"
    /\ Goto("bootstrap", "boot")
    /\ UNCHANGED <<disk, skaled, lastCommitted, initialized, mutex, next, last, exit, bounds>>

\* proposeNextBlock under the mutex, and the end of bootstrap().
BootstrapPropose ==
    /\ pc["bootstrap"] = "propose"
    /\ mutex = Nobody
    /\ Goto("bootstrap", "ended")
    /\ UNCHANGED <<disk, skaled, lastCommitted, initialized, mutex, next, last, exit, bounds>>

-----------------------------------------------------------------------------
(* Exit and crash.                                                         *)

\* doSoftAndThenHardExit: first on a block boundary ...
RequestExit ==
    /\ MayExit
    /\ ~exitOnBlock
    /\ exitOnBlock' = TRUE
    /\ UNCHANGED <<disk, skaled, lastCommitted, initialized, mutex, pc, next, last,
                   exitRequested, bounds>>

\* ... and after half a minute immediately.
HardExit ==
    /\ exitOnBlock
    /\ ~exitRequested
    /\ exitRequested' = TRUE
    /\ UNCHANGED <<disk, skaled, lastCommitted, initialized, mutex, pc, next, last,
                   exitOnBlock, bounds>>

\* Mistake: bootstrap() starts from the blocks that consensus has.
Crash_TrustConsensus ==
    /\ crashes < MaxCrashes
    /\ crashes' = crashes + 1
    /\ \E kept \in 0 .. skaled : skaled' = kept
    /\ Start(lastSaved)
    /\ UNCHANGED <<disk, failures>>

\* The process dies, or has exited, and is started again.  skaled passes the
\* last block it has kept: after crashes, or when it starts from a snapshot, an
\* earlier one than it has executed.
Crash ==
    /\ crashes < MaxCrashes
    /\ crashes' = crashes + 1
    /\ \E kept \in 0 .. skaled :
        /\ skaled' = kept
        /\ Start(kept)
    /\ UNCHANGED <<disk, failures>>

\* processCommittedBlock of thread t goes on.
ProcessStep(t) ==
    \/ NextBlock(t)
    \/ SaveBlock(t)
    \/ SaveLastCommitted(t)
    \/ PushBlockToExtFace(t)
    \/ UpdateLastCommitted(t)

Bootstrap == BootstrapCheck \/ BootstrapLoop \/ BootstrapCatch \/ BootstrapPropose

Next ==
    \/ FinalizeBlock
    \/ CatchupDownload
    \/ LockTimeout
    \/ \E t \in Committers : Leave(t) \/ WaitForInitialized(t) \/ LockMutex(t)
    \/ \E t \in Threads : ProcessStep(t) \/ CreateBlockFails(t)
    \/ Bootstrap
    \/ RequestExit
    \/ HardExit
    \/ Crash

Spec == Init /\ [][Next]_vars

(* Every thread goes on, catchup asks again and again, a thread that waits *)
(* for the mutex gets it if it is free again and again, and the timer of   *)
(* the hard exit runs.  Nothing is assumed of the consensus thread beyond  *)
(* what it has begun.                                                      *)
Fairness ==
    /\ \A t \in Threads : WF_vars(ProcessStep(t))
    /\ \A t \in Committers :
        WF_vars(Leave(t)) /\ WF_vars(WaitForInitialized(t)) /\ SF_vars(LockMutex(t))
    /\ WF_vars(BootstrapCheck \/ BootstrapLoop \/ BootstrapCatch)
    /\ SF_vars(BootstrapPropose)
    /\ WF_vars(CatchupDownload)
    /\ WF_vars(LockTimeout)
    /\ WF_vars(HardExit)

FairSpec == Spec /\ Fairness

-----------------------------------------------------------------------------
\* The node's memory, its disk and skaled have the types of the code.
TypeOK ==
    /\ blockDB \subseteq Blocks
    /\ lastSaved \in 0 .. MaxBlock
    /\ skaled \in 0 .. MaxBlock
    /\ lastCommitted \in 0 .. MaxBlock
    /\ initialized \in BOOLEAN
    /\ mutex \in Threads \cup {Nobody}
    /\ pc \in [Threads -> Places]
    /\ next \in [Threads -> 1 .. MaxBlock + 1]
    /\ last \in [Threads -> 0 .. MaxBlock]
    /\ exitOnBlock \in BOOLEAN
    /\ exitRequested \in BOOLEAN
    /\ crashes \in 0 .. MaxCrashes
    /\ failures \in 0 .. MaxFailures

\* skaled executes every block of the chain once and in order, whichever
\* thread pushes it, and across crashes and restarts.
ExecutedInOrder ==
    [][\A t \in Threads : pc[t] = "push" /\ pc'[t] = "created" => next[t] = skaled + 1]_vars

\* Consensus never has fewer blocks than skaled, whatever skaled has kept
\* ("this can never happen because consensus passes blocks to skaled"), and it
\* has all the blocks that bootstrap() has to push.  Once bootstrap() is done,
\* what is committed, executed and saved differs by the block in progress only.
\* bootstrap() refuses to start only when skaled has lost more than MaxLag
\* blocks.
Pipeline ==
    /\ skaled <= lastSaved
    /\ 1 .. lastSaved \subseteq blockDB
    /\ initialized => lastCommitted <= skaled /\ lastSaved <= lastCommitted + 1
    /\ pc["bootstrap"] = "failed" => lastSaved > skaled + MaxLag

\* Two threads never process blocks at the same time.
OneProcesses ==
    \A t, u \in Threads :
        pc[t] \in {"process", "save", "saveLast", "push", "created"}
            /\ pc[u] \in {"process", "save", "saveLast", "push", "created"} => t = u

\* skaled gets the whole chain, although the process dies, skaled loses blocks,
\* calls of createBlock fail and the consensus thread may commit nothing, unless
\* the node exits for good or bootstrap() refuses to start it.
EventuallyExecuted == <>[]~exitOnBlock => <>(skaled = MaxBlock)


\* An exit "will initiate immediate exit of consensus and throw
\* ExitRequestedException so the current thread will exit".
ThreadsExit ==
    \A t \in Threads : exitRequested ~> pc[t] \in {"ended", "failed"} \/ ~exitRequested
=============================================================================
