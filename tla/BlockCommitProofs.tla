-------------------------- MODULE BlockCommitProofs --------------------------
(***************************************************************************)
(* Proofs about BlockCommit for chains of every length and any number of   *)
(* crashes, blocks that skaled loses and failed calls of createBlock.      *)
(*                                                                         *)
(* The argument: blockProcessMutex keeps the message thread and the        *)
(* catchup thread apart (MutexInv), and neither begins before bootstrap()  *)
(* is done (PhaseInv).  So the three marks of progress, what is saved,     *)
(* executed and committed, are moved by one thread at a time, and its      *)
(* place says how far apart they are (BootInv, ProgressInv).  An exit is the*)
(* exception: a thread may leave the mutex unlocked under another one, or  *)
(* leave an executed block uncommitted, and nothing is pushed after it.    *)
(***************************************************************************)
EXTENDS BlockCommit, TLAPS

\* Inside processCommittedBlock or the loop around it.
Processing == {"process", "save", "saveLast", "push", "created"}

\* A thread that processes blocks holds the mutex.  An exiting catchup thread
\* unlocks the mutex of the message thread and ends.
MutexInv ==
    /\ pc["catchup"] \in Processing => mutex = "catchup"
    /\ pc["consensus"] \in Processing => mutex = "consensus" \/ pc["catchup"] = "ended"

\* No block is processed before bootstrap() is done.
PhaseInv ==
    /\ initialized => pc["bootstrap"] \in {"propose", "ended"}
    /\ ~initialized =>
        /\ pc["bootstrap"] \in {"check", "boot", "caught", "push", "created", "ended", "failed"}
        /\ \A t \in Committers : pc[t] \in {"await", "idle", "ended"}
        /\ pc["catchup"] = "await"

\* bootstrap() is at the block after the last one of skaled, or, when an exit
\* met it after createBlock, at the last one.
BootInv ==
    ~initialized =>
        /\ last["bootstrap"] = lastSaved
        /\ pc["bootstrap"] \in {"push", "created"} => next["bootstrap"] <= lastSaved
        /\ pc["bootstrap"] = "created" => next["bootstrap"] = skaled
        /\ pc["bootstrap"] # "created" =>
            \/ next["bootstrap"] = skaled + 1
            \/ exitRequested /\ next["bootstrap"] = skaled

\* How far a thread that processes a block has got.
ProgressInv ==
    \A t \in Committers :
        /\ pc[t] \in {"save", "saveLast", "push", "created"} =>
            next[t] = lastCommitted + 1 /\ next[t] <= last[t]
        /\ pc[t] = "saveLast" => next[t] \in blockDB
        /\ pc[t] \in {"push", "created"} => lastSaved = next[t]
        /\ pc[t] = "created" => skaled = next[t]

\* Unless the node exits, skaled and consensus differ only inside "created".
SettledInv ==
    initialized /\ ~exitRequested /\ (\A t \in Committers : pc[t] # "created")
        => skaled = lastCommitted

IInv ==
    /\ TypeOK
    /\ MutexInv
    /\ PhaseInv
    /\ BootInv
    /\ ProgressInv
    /\ SettledInv
    /\ Pipeline

-----------------------------------------------------------------------------
LEMMA ThreadNames ==
    /\ Threads = {"consensus", "catchup", "bootstrap"}
    /\ \A t \in Committers : t \in Threads /\ t # "bootstrap"
    /\ \A t \in Threads : t \in Committers \/ t = "bootstrap"
BY DEF Threads, Committers

\* The mutex works.
LEMMA Exclusive ==
    ASSUME MutexInv, PhaseInv
    PROVE  OneProcesses
<1>1. ASSUME NEW t \in Threads, NEW u \in Threads, pc[t] \in Processing, pc[u] \in Processing
      PROVE  t = u
    <2>1. "bootstrap" \in {t, u} => ~initialized
        BY <1>1 DEF PhaseInv, Processing
    <2>2. "bootstrap" \in {t, u} => t = u
        BY <1>1, <2>1, ThreadNames DEF PhaseInv, Processing
    <2>3. t \in Committers /\ u \in Committers => t = u
        BY <1>1 DEF MutexInv, Processing, Committers
    <2> QED
        BY <2>2, <2>3, ThreadNames
<1> QED
    BY <1>1 DEF OneProcesses, Processing

LEMMA StartPlaces ==
    /\ StartPlace("bootstrap") = "check"
    /\ StartPlace("catchup") = "await"
    /\ StartPlace("consensus") = "idle"
    /\ \A t \in Threads : StartPlace(t) \in Places
BY DEF StartPlace, Places, Threads, Committers

LEMMA InitHolds == Init => IInv
<1> SUFFICES ASSUME Init PROVE IInv
    OBVIOUS
<1> USE ThreadNames, BoundsAssumption, StartPlaces DEF Init
<1>1. TypeOK
    <2>1. pc \in [Threads -> Places]
        OBVIOUS
    <2>2. next \in [Threads -> 1 .. MaxBlock + 1] /\ last \in [Threads -> 0 .. MaxBlock]
        OBVIOUS
    <2>3. mutex \in Threads \cup {Nobody} /\ blockDB \subseteq Blocks
        OBVIOUS
    <2>4. initialized \in BOOLEAN /\ exitOnBlock \in BOOLEAN /\ exitRequested \in BOOLEAN
        OBVIOUS
    <2> QED
        BY <2>1, <2>2, <2>3, <2>4 DEF TypeOK
<1>2. MutexInv /\ PhaseInv
    BY DEF MutexInv, PhaseInv, Processing, Committers
<1>3. BootInv /\ ProgressInv /\ SettledInv /\ Pipeline
    BY DEF BootInv, ProgressInv, SettledInv, Pipeline, Committers
<1> QED
    BY <1>1, <1>2, <1>3 DEF IInv

LEMMA CrashHolds == IInv /\ Crash => IInv'
<1> SUFFICES ASSUME IInv, Crash PROVE IInv'
    OBVIOUS
<1>1. PICK kept \in 0 .. skaled :
        /\ crashes < MaxCrashes /\ crashes' = crashes + 1
        /\ lastCommitted' = 0 /\ initialized' = FALSE /\ mutex' = Nobody
        /\ pc' = [t \in Threads |-> StartPlace(t)]
        /\ next' = [t \in Threads |-> kept + 1]
        /\ last' = [t \in Threads |-> lastSaved]
        /\ exitOnBlock' = FALSE /\ exitRequested' = FALSE
        /\ skaled' = kept
        /\ UNCHANGED <<blockDB, lastSaved, failures>>
    BY DEF Crash, Start, disk
<1> USE ThreadNames, BoundsAssumption
<1>2. TypeOK'
    <2>1. pc' \in [Threads -> Places]
        BY <1>1, StartPlaces
    <2>2. next' \in [Threads -> 1 .. MaxBlock + 1] /\ last' \in [Threads -> 0 .. MaxBlock]
        BY <1>1 DEF IInv, TypeOK
    <2>3. crashes' \in 0 .. MaxCrashes
        BY <1>1 DEF IInv, TypeOK
    <2>4. initialized' \in BOOLEAN /\ exitOnBlock' \in BOOLEAN /\ exitRequested' \in BOOLEAN
        BY <1>1
    <2>5. mutex' \in Threads \cup {Nobody} /\ lastCommitted' \in 0 .. MaxBlock
        BY <1>1
    <2>6. skaled' \in 0 .. MaxBlock
        BY <1>1 DEF IInv, TypeOK
    <2> QED
        BY <1>1, <2>1, <2>2, <2>3, <2>4, <2>5, <2>6 DEF IInv, TypeOK
<1>3. MutexInv' /\ PhaseInv'
    BY <1>1, StartPlaces DEF MutexInv, PhaseInv, Processing, Committers
<1>4. BootInv' /\ ProgressInv' /\ SettledInv'
    BY <1>1, <1>2, StartPlaces DEF IInv, TypeOK, BootInv, ProgressInv, SettledInv, Committers
<1>5. Pipeline'
    BY <1>1, StartPlaces DEF IInv, TypeOK, Pipeline
<1> QED
    BY <1>2, <1>3, <1>4, <1>5 DEF IInv

-----------------------------------------------------------------------------
(* Steps that move one thread.                                             *)

LEMMA GotoIs ==
    ASSUME TypeOK, NEW t \in Threads, NEW place \in Places, Goto(t, place)
    PROVE  /\ pc' \in [Threads -> Places]
           /\ pc'[t] = place
           /\ \A u \in Threads \ {t} : pc'[u] = pc[u]
BY DEF TypeOK, Goto

\* An exit may be requested and is never taken back, and the bounds are kept.
ExitGrows ==
    /\ exitOnBlock' \in BOOLEAN
    /\ exitRequested' \in BOOLEAN
    /\ exitRequested => exitRequested'
    /\ crashes' \in 0 .. MaxCrashes
    /\ failures' \in 0 .. MaxFailures

LEMMA ExitSame == TypeOK /\ UNCHANGED <<exit, bounds>> => ExitGrows
BY DEF TypeOK, ExitGrows, exit, bounds

\* A committer moves outside of the processing of a block, and moves no block.
LEMMA MoveHolds ==
    ASSUME IInv, NEW t \in Committers, NEW place \in {"await", "idle", "lock", "ended"},
           Goto(t, place), initialized \/ (t = "consensus" /\ place \in {"await", "ended"}),
           UNCHANGED <<disk, skaled, lastCommitted, initialized>>, ExitGrows,
           mutex' \in {mutex, Nobody},
           pc[t] \in Processing \/ mutex' = mutex \/ (t = "catchup" /\ place = "ended"),
           pc[t] # "ended", pc[t] = "created" => exitRequested',
           next' \in [Threads -> 1 .. MaxBlock + 1], last' \in [Threads -> 0 .. MaxBlock],
           \A u \in Threads \ {t} : next'[u] = next[u] /\ last'[u] = last[u]
    PROVE  IInv'
<1>1. /\ pc' \in [Threads -> Places]
      /\ pc'[t] = place
      /\ \A u \in Threads \ {t} : pc'[u] = pc[u]
    BY GotoIs, ThreadNames DEF IInv, Places
<1>2. TypeOK'
    <2>1. mutex' \in Threads \cup {Nobody}
        BY DEF IInv, TypeOK
    <2> QED
        BY <1>1, <2>1 DEF IInv, TypeOK, disk, ExitGrows
<1>3. MutexInv'
    <2>1. OneProcesses
        BY Exclusive DEF IInv
    <2>2. \A u \in Committers \ {t} : pc[u] \in Processing /\ pc[t] \in Processing => FALSE
        BY <2>1, ThreadNames DEF OneProcesses, Processing
    <2>3. CASE t = "catchup"
        BY <1>1, <2>2, <2>3, ThreadNames DEF IInv, MutexInv, Processing, Committers
    <2>4. CASE t = "consensus"
        BY <1>1, <2>2, <2>4, ThreadNames DEF IInv, MutexInv, Processing, Committers
    <2> QED
        BY <2>3, <2>4 DEF Committers
<1>4. PhaseInv'
    BY <1>1, ThreadNames DEF IInv, PhaseInv, Committers
<1>5. BootInv'
    BY <1>1, ThreadNames DEF IInv, BootInv, Committers, disk, ExitGrows
<1>6. ProgressInv'
    BY <1>1, ThreadNames DEF IInv, ProgressInv, Committers, disk
<1>7. SettledInv'
    BY <1>1, ThreadNames DEF IInv, SettledInv, Committers, ExitGrows
<1>8. Pipeline'
    BY <1>1, ThreadNames DEF IInv, Pipeline, disk
<1> QED
    BY <1>2, <1>3, <1>4, <1>5, <1>6, <1>7, <1>8 DEF IInv

LEMMA FinalizeHolds == IInv /\ FinalizeBlock => IInv'
<1> SUFFICES ASSUME IInv, FinalizeBlock PROVE IInv'
    OBVIOUS
<1>1. "consensus" \in Committers /\ "consensus" \in Threads
    BY DEF Committers, Threads
<1>2. /\ next' \in [Threads -> 1 .. MaxBlock + 1]
      /\ last' \in [Threads -> 0 .. MaxBlock]
      /\ \A u \in Threads \ {"consensus"} : next'[u] = next[u] /\ last'[u] = last[u]
    BY <1>1, BoundsAssumption DEF IInv, TypeOK, FinalizeBlock
<1> QED
    BY <1>1, <1>2, ExitSame, MoveHolds DEF FinalizeBlock, IInv

LEMMA DownloadHolds == IInv /\ CatchupDownload => IInv'
<1> SUFFICES ASSUME IInv, CatchupDownload PROVE IInv'
    OBVIOUS
<1>1. "catchup" \in Committers /\ "catchup" \in Threads
    BY DEF Committers, Threads
<1>2. PICK b \in lastCommitted + 1 .. MaxBlock : last' = [last EXCEPT !["catchup"] = b]
    BY DEF CatchupDownload
<1>3. /\ next' \in [Threads -> 1 .. MaxBlock + 1]
      /\ last' \in [Threads -> 0 .. MaxBlock]
      /\ \A u \in Threads \ {"catchup"} : next'[u] = next[u] /\ last'[u] = last[u]
    BY <1>1, <1>2, BoundsAssumption DEF IInv, TypeOK, CatchupDownload
<1>4. initialized
    BY DEF IInv, PhaseInv, CatchupDownload
<1> QED
    BY <1>1, <1>3, <1>4, ExitSame, MoveHolds DEF CatchupDownload, IInv

LEMMA LeaveHolds ==
    ASSUME IInv, NEW t \in Committers, Leave(t)
    PROVE  IInv'
<1>1. next' = next /\ last' = last /\ mutex' = mutex
    BY DEF Leave
<1>2. initialized \/ t = "consensus"
    BY DEF Leave, IInv, PhaseInv, Committers
<1> QED
    BY <1>1, <1>2, ExitSame, MoveHolds DEF Leave, IInv, TypeOK

LEMMA AwaitHolds ==
    ASSUME IInv, NEW t \in Committers, WaitForInitialized(t)
    PROVE  IInv'
<1>1. /\ next' = next /\ last' = last /\ mutex' = mutex /\ initialized
      /\ pc[t] = "await"
    BY DEF WaitForInitialized
<1>2. PICK place \in {"idle", "lock", "ended"} : Goto(t, place)
    BY DEF WaitForInitialized
<1> QED
    BY <1>1, <1>2, ExitSame, MoveHolds DEF WaitForInitialized, IInv, TypeOK

LEMMA TimeoutHolds == IInv /\ LockTimeout => IInv'
<1> SUFFICES ASSUME IInv, LockTimeout PROVE IInv'
    OBVIOUS
<1>1. "catchup" \in Committers /\ "catchup" # "bootstrap"
    BY DEF Committers
<1>2. initialized
    BY <1>1 DEF IInv, PhaseInv, LockTimeout
<1>3. /\ next' = next /\ last' = last
      /\ next \in [Threads -> 1 .. MaxBlock + 1] /\ last \in [Threads -> 0 .. MaxBlock]
    BY DEF LockTimeout, IInv, TypeOK
<1>4. CASE Goto("catchup", "ended") /\ mutex' = Nobody
    BY <1>1, <1>2, <1>3, <1>4, ExitSame, MoveHolds DEF LockTimeout, IInv
<1>5. CASE Goto("catchup", "idle") /\ UNCHANGED mutex
    BY <1>1, <1>2, <1>3, <1>5, ExitSame, MoveHolds DEF LockTimeout, IInv
<1> QED
    BY <1>1, <1>4, <1>5 DEF LockTimeout, Throw

\* A step of bootstrap() that moves no block.
LEMMA BootMoveHolds ==
    ASSUME IInv, ~initialized, NEW place \in {"boot", "caught", "push", "ended", "failed"},
           Goto("bootstrap", place),
           UNCHANGED <<disk, skaled, lastCommitted, initialized, mutex, next, last>>, ExitGrows,
           pc["bootstrap"] = "created" => exitRequested',
           place = "push" => next["bootstrap"] <= lastSaved,
           place = "failed" => lastSaved > skaled + MaxLag
    PROVE  IInv'
<1>1. /\ pc' \in [Threads -> Places]
      /\ pc'["bootstrap"] = place
      /\ \A u \in Threads \ {"bootstrap"} : pc'[u] = pc[u]
    BY GotoIs, ThreadNames DEF IInv, Places
<1>2. TypeOK'
    BY <1>1 DEF IInv, TypeOK, disk, ExitGrows
<1>3. MutexInv' /\ PhaseInv'
    BY <1>1, ThreadNames DEF IInv, MutexInv, PhaseInv, Committers
<1>4. BootInv'
    BY <1>1 DEF IInv, BootInv, disk, ExitGrows
<1>5. ProgressInv' /\ SettledInv'
    BY <1>1, ThreadNames DEF IInv, ProgressInv, SettledInv, disk, ExitGrows
<1>6. Pipeline'
    BY <1>1 DEF IInv, Pipeline, disk
<1> QED
    BY <1>2, <1>3, <1>4, <1>5, <1>6 DEF IInv

\* A thread that processes a block leaves it.  An exception of bootstrap() is
\* caught in its loop.
LEMMA ThrowHolds ==
    ASSUME IInv, NEW t \in Threads, pc[t] \in Processing,
           NEW place \in {"idle", "ended"}, Throw(t, place),
           ExitGrows, pc[t] = "created" => exitRequested',
           UNCHANGED <<disk, skaled, lastCommitted, initialized, next, last>>
    PROVE  IInv'
<1>1. next \in [Threads -> 1 .. MaxBlock + 1] /\ last \in [Threads -> 0 .. MaxBlock]
    BY DEF IInv, TypeOK
<1>2. CASE t \in Committers
    <2>1. Goto(t, place) /\ mutex' = Nobody /\ pc[t] # "ended" /\ initialized
        BY <1>2, ThreadNames DEF Throw, Processing, IInv, PhaseInv
    <2> QED
        BY <1>1, <1>2, <2>1, MoveHolds
<1>3. CASE t = "bootstrap"
    <2>1. Goto("bootstrap", "caught") /\ UNCHANGED mutex /\ ~initialized
        BY <1>3 DEF Throw, Processing, IInv, PhaseInv
    <2> QED
        BY <1>3, <2>1, BootMoveHolds
<1> QED
    BY <1>2, <1>3, ThreadNames

LEMMA CreateFailsHolds ==
    ASSUME IInv, NEW t \in Threads, CreateBlockFails(t)
    PROVE  IInv'
<1>1. ExitGrows
    BY BoundsAssumption DEF CreateBlockFails, ExitGrows, IInv, TypeOK, exit
<1> QED
    BY <1>1, ThrowHolds DEF CreateBlockFails, Processing

LEMMA BootstrapHolds == IInv /\ Bootstrap => IInv'
<1> SUFFICES ASSUME IInv, Bootstrap PROVE IInv'
    OBVIOUS
<1>1. CASE BootstrapCatch
    <2>1. ~initialized
        BY <1>1 DEF BootstrapCatch, IInv, PhaseInv
    <2> QED
        BY <1>1, <2>1, ExitSame, BootMoveHolds DEF BootstrapCatch, IInv
<1>2. CASE BootstrapPropose
    <2>1. /\ pc["bootstrap"] = "propose" /\ initialized
          /\ UNCHANGED <<disk, skaled, lastCommitted, initialized, mutex, next, last, exit, bounds>>
        BY <1>2 DEF BootstrapPropose, IInv, PhaseInv
    <2>2. /\ pc' \in [Threads -> Places]
          /\ pc'["bootstrap"] = "ended"
          /\ \A u \in Threads \ {"bootstrap"} : pc'[u] = pc[u]
        BY <1>2, GotoIs, ThreadNames DEF IInv, Places, BootstrapPropose
    <2>3. TypeOK'
        BY <2>1, <2>2 DEF IInv, TypeOK, disk, exit, bounds
    <2>4. MutexInv' /\ PhaseInv'
        BY <2>1, <2>2, ThreadNames DEF IInv, MutexInv, PhaseInv, Committers
    <2>5. BootInv' /\ ProgressInv' /\ SettledInv' /\ Pipeline'
        BY <2>1, <2>2, ThreadNames
           DEF IInv, BootInv, ProgressInv, SettledInv, Pipeline, disk, exit
    <2> QED
        BY <2>3, <2>4, <2>5 DEF IInv
<1>3. CASE BootstrapCheck
    <2>1. /\ pc["bootstrap"] = "check" /\ ~initialized
          /\ last["bootstrap"] = lastSaved /\ skaled <= lastSaved
          /\ UNCHANGED <<disk, skaled, lastCommitted, initialized, mutex, next, last,
                         exitRequested, bounds>>
        BY <1>3 DEF BootstrapCheck, IInv, PhaseInv, BootInv, Pipeline
    <2>2. ExitGrows
        <3>1. exitOnBlock' \in BOOLEAN
            BY <1>3, Zenon DEF BootstrapCheck, IInv, TypeOK
        <3> QED
            BY <2>1, <3>1 DEF ExitGrows, IInv, TypeOK, bounds
    <2>3. \/ Goto("bootstrap", "ended") \/ Goto("bootstrap", "boot")
          \/ Goto("bootstrap", "failed") /\ lastSaved > skaled + MaxLag
        BY <1>3, <2>1, BoundsAssumption DEF BootstrapCheck, IInv, TypeOK
    <2> QED
        BY <2>1, <2>2, <2>3, BootMoveHolds
<1>4. CASE BootstrapLoop
    <2>1. /\ pc["bootstrap"] = "boot" /\ ~initialized
          /\ last["bootstrap"] = lastSaved
          /\ skaled <= lastSaved
          /\ 1 .. lastSaved \subseteq blockDB
          /\ skaled \in Nat /\ lastSaved \in 0 .. MaxBlock
          /\ next["bootstrap"] \in 1 .. MaxBlock + 1
          /\ next["bootstrap"] = skaled + 1 \/ next["bootstrap"] = skaled
        BY <1>4, ThreadNames, BoundsAssumption
           DEF BootstrapLoop, IInv, PhaseInv, BootInv, Pipeline, TypeOK
    <2>3. CASE next["bootstrap"] <= last["bootstrap"]
        <3>1. next["bootstrap"] \in blockDB
            BY <2>1, <2>3, BoundsAssumption
        <3>2. Goto("bootstrap", "push") /\ UNCHANGED <<lastCommitted, initialized>>
            BY <1>4, <2>1, <2>3, <3>1, BoundsAssumption DEF BootstrapLoop
        <3> QED
            BY <1>4, <2>1, <2>3, <3>2, ExitSame, BootMoveHolds DEF BootstrapLoop, IInv
    <2>4. CASE ~(next["bootstrap"] <= last["bootstrap"])
        <3>1. /\ Goto("bootstrap", "propose")
              /\ lastCommitted' = next["bootstrap"] - 1
              /\ initialized' = TRUE
              /\ UNCHANGED <<disk, skaled, mutex, next, last, exit, bounds>>
            BY <1>4, <2>1, <2>4, BoundsAssumption DEF BootstrapLoop
        <3>2. lastCommitted' = skaled /\ skaled = lastSaved
            BY <2>1, <2>4, <3>1, BoundsAssumption
        <3>3. /\ pc' \in [Threads -> Places]
              /\ pc'["bootstrap"] = "propose"
              /\ \A u \in Threads \ {"bootstrap"} : pc'[u] = pc[u]
            BY <3>1, GotoIs, ThreadNames DEF IInv, Places
        <3>4. TypeOK'
            BY <2>1, <3>1, <3>2, <3>3 DEF IInv, TypeOK, disk, exit, bounds
        <3>5. MutexInv' /\ PhaseInv'
            BY <3>1, <3>3, ThreadNames DEF IInv, MutexInv, PhaseInv, Committers
        <3>6. BootInv' /\ SettledInv' /\ Pipeline'
            BY <2>1, <3>1, <3>2, <3>3, BoundsAssumption DEF IInv, BootInv, SettledInv, Pipeline, disk
        <3>7. ProgressInv'
            BY <2>1, <3>3, ThreadNames DEF IInv, PhaseInv, ProgressInv
        <3> QED
            BY <3>4, <3>5, <3>6, <3>7 DEF IInv
    <2> QED
        BY <2>3, <2>4
<1> QED
    BY <1>1, <1>2, <1>3, <1>4 DEF Bootstrap

\* The exit flags change and nothing else.
LEMMA ExitHolds ==
    ASSUME IInv, ExitGrows,
           UNCHANGED <<disk, skaled, lastCommitted, initialized, mutex, pc, next, last>>
    PROVE  IInv'
<1>1. TypeOK'
    BY DEF IInv, TypeOK, disk, ExitGrows
<1>2. MutexInv' /\ PhaseInv' /\ BootInv'
    BY DEF IInv, MutexInv, PhaseInv, BootInv, disk, ExitGrows
<1>3. ProgressInv' /\ SettledInv' /\ Pipeline'
    BY DEF IInv, ProgressInv, SettledInv, Pipeline, disk, ExitGrows
<1> QED
    BY <1>1, <1>2, <1>3 DEF IInv

LEMMA LockHolds ==
    ASSUME IInv, NEW t \in Committers, LockMutex(t)
    PROVE  IInv'
<1>1. /\ pc[t] = "lock" /\ mutex = Nobody /\ initialized /\ t \in Threads
      /\ UNCHANGED <<disk, skaled, lastCommitted, initialized, next, last, exit, bounds>>
    BY ThreadNames DEF LockMutex, IInv, PhaseInv
<1>2. next \in [Threads -> 1 .. MaxBlock + 1] /\ last \in [Threads -> 0 .. MaxBlock]
    BY DEF IInv, TypeOK
<1>3. CASE Goto(t, "idle") /\ UNCHANGED mutex
    BY <1>1, <1>2, <1>3, ExitSame, MoveHolds DEF IInv
<1>4. CASE Goto(t, "process") /\ mutex' = t
    <2>1. /\ pc' \in [Threads -> Places]
          /\ pc'[t] = "process"
          /\ \A u \in Threads \ {t} : pc'[u] = pc[u]
        BY <1>1, <1>4, GotoIs DEF IInv, Places
    <2>2. TypeOK'
        BY <1>1, <1>4, <2>1 DEF IInv, TypeOK, disk, exit, bounds
    <2>3. MutexInv'
        <3>1. pc["catchup"] \notin Processing
            BY <1>1 DEF IInv, MutexInv, Nobody
        <3>2. pc["consensus"] \in Processing => pc["catchup"] = "ended"
            BY <1>1 DEF IInv, MutexInv, Nobody
        <3>3. CASE t = "catchup"
            BY <1>1, <1>4, <2>1, <3>1, <3>2, <3>3, ThreadNames DEF MutexInv, Committers
        <3>4. CASE t = "consensus"
            BY <1>4, <2>1, <3>1, <3>4, ThreadNames DEF MutexInv
        <3> QED
            BY <3>3, <3>4 DEF Committers
    <2>4. PhaseInv' /\ BootInv'
        BY <1>1, <2>1, ThreadNames DEF IInv, PhaseInv, BootInv
    <2>5. ProgressInv' /\ SettledInv' /\ Pipeline'
        BY <1>1, <2>1, ThreadNames DEF IInv, ProgressInv, SettledInv, Pipeline, disk, exit
    <2> QED
        BY <2>2, <2>3, <2>4, <2>5 DEF IInv
<1> QED
    BY <1>3, <1>4 DEF LockMutex

-----------------------------------------------------------------------------
(* Steps inside processCommittedBlock and pushBlockToExtFace.              *)

\* The thread goes on with its block.
LEMMA ProcessMove ==
    ASSUME IInv, NEW t \in Threads, pc[t] \in Processing,
           NEW place \in Processing \cup {"boot"}, Goto(t, place),
           t = "bootstrap" <=> place = "boot" \/ (place = "created" /\ ~initialized),
           UNCHANGED <<mutex, initialized>>
    PROVE  /\ pc' \in [Threads -> Places]
           /\ pc'[t] = place
           /\ \A u \in Threads \ {t} : pc'[u] = pc[u] /\ pc[u] \notin Processing
           /\ MutexInv'
           /\ PhaseInv'
<1>1. /\ pc' \in [Threads -> Places]
      /\ pc'[t] = place
      /\ \A u \in Threads \ {t} : pc'[u] = pc[u]
    BY GotoIs DEF IInv, Places, Processing
<1>2. \A u \in Threads \ {t} : pc[u] \notin Processing
    BY Exclusive DEF IInv, OneProcesses, Processing
<1>3. MutexInv'
    BY <1>1, ThreadNames DEF IInv, MutexInv, Processing, Committers
<1>4. PhaseInv'
    BY <1>1, ThreadNames DEF IInv, PhaseInv, Processing, Committers
<1> QED
    BY <1>1, <1>2, <1>3, <1>4

\* Before bootstrap() is done no committer processes a block.
LEMMA CommitterWorks ==
    ASSUME IInv, NEW t \in Threads, pc[t] \in Processing
    PROVE  t \in Committers <=> initialized
BY ThreadNames DEF IInv, PhaseInv, Processing

LEMMA NextBlockHolds ==
    ASSUME IInv, NEW t \in Threads, NextBlock(t)
    PROVE  IInv'
<1>1. /\ pc[t] = "process" /\ pc[t] \in Processing
      /\ UNCHANGED <<disk, skaled, lastCommitted, initialized, last, exit, bounds>>
    BY DEF NextBlock, Processing
<1>2. initialized /\ t \in Committers /\ t # "bootstrap"
    BY <1>1, CommitterWorks, ThreadNames DEF IInv, PhaseInv
<1>3. next \in [Threads -> 1 .. MaxBlock + 1] /\ last \in [Threads -> 0 .. MaxBlock]
    BY DEF IInv, TypeOK
<1>4. ExitGrows
    BY <1>1, ExitSame DEF IInv
<1>5. CASE exitRequested /\ Throw(t, "ended") /\ UNCHANGED next
    BY <1>1, <1>4, <1>5, ThrowHolds
<1>6. CASE Goto(t, "idle") /\ mutex' = Nobody /\ UNCHANGED next
    BY <1>1, <1>2, <1>3, <1>4, <1>6, MoveHolds
<1>7. CASE /\ next[t] <= last[t] /\ next[t] = lastCommitted + 1
           /\ Goto(t, "save") /\ UNCHANGED <<mutex, next>>
    <2>1. /\ pc' \in [Threads -> Places]
          /\ pc'[t] = "save"
          /\ \A u \in Threads \ {t} : pc'[u] = pc[u] /\ pc[u] \notin Processing
          /\ MutexInv' /\ PhaseInv'
        BY <1>1, <1>2, <1>7, ProcessMove DEF Processing
    <2>2. TypeOK'
        BY <1>1, <1>7, <2>1 DEF IInv, TypeOK, disk, exit, bounds
    <2>3. BootInv' /\ Pipeline'
        BY <1>1, <1>2, <2>1 DEF IInv, BootInv, PhaseInv, Pipeline, disk
    <2>4. ProgressInv' /\ SettledInv'
        BY <1>1, <1>7, <2>1, ThreadNames DEF IInv, ProgressInv, SettledInv, disk, exit, Processing
    <2> QED
        BY <2>1, <2>2, <2>3, <2>4 DEF IInv
<1>8. CASE next[t] <= last[t] /\ next' = [next EXCEPT ![t] = @ + 1] /\ UNCHANGED <<mutex, pc>>
    <2>1. /\ next' \in [Threads -> 1 .. MaxBlock + 1]
          /\ \A u \in Threads \ {t} : next'[u] = next[u]
        BY <1>3, <1>8, BoundsAssumption
    <2>2. TypeOK'
        BY <1>1, <1>8, <2>1 DEF IInv, TypeOK, disk, exit, bounds
    <2>3. MutexInv' /\ PhaseInv' /\ BootInv'
        BY <1>1, <1>2, <1>8 DEF IInv, MutexInv, PhaseInv, BootInv
    <2>4. ProgressInv' /\ SettledInv' /\ Pipeline'
        BY <1>1, <1>8, <2>1, ThreadNames
           DEF IInv, ProgressInv, SettledInv, Pipeline, disk, exit
    <2> QED
        BY <2>2, <2>3, <2>4 DEF IInv
<1> QED
    BY <1>5, <1>6, <1>7, <1>8 DEF NextBlock

LEMMA SaveBlockHolds ==
    ASSUME IInv, NEW t \in Threads, SaveBlock(t)
    PROVE  IInv'
<1>1. /\ pc[t] = "save" /\ pc[t] \in Processing
      /\ UNCHANGED <<lastSaved, skaled, lastCommitted, initialized, next, last, exit, bounds>>
    BY DEF SaveBlock, Processing
<1>2. initialized /\ t \in Committers /\ t # "bootstrap"
    BY <1>1, CommitterWorks, ThreadNames DEF IInv, PhaseInv
<1>3. ExitGrows
    BY <1>1, ExitSame DEF IInv
<1>4. CASE exitRequested /\ Throw(t, "ended") /\ UNCHANGED blockDB
    BY <1>1, <1>3, <1>4, ThrowHolds DEF disk
<1>5. CASE blockDB' = blockDB \cup {next[t]} /\ Goto(t, "saveLast") /\ UNCHANGED mutex
    <2>1. /\ pc' \in [Threads -> Places]
          /\ pc'[t] = "saveLast"
          /\ \A u \in Threads \ {t} : pc'[u] = pc[u] /\ pc[u] \notin Processing
          /\ MutexInv' /\ PhaseInv'
        BY <1>1, <1>2, <1>5, ProcessMove DEF Processing
    <2>2. next[t] = lastCommitted + 1 /\ next[t] <= last[t] /\ next[t] \in Blocks
        BY <1>1, <1>2, BoundsAssumption DEF IInv, ProgressInv, TypeOK, Blocks
    <2>3. TypeOK'
        BY <1>1, <1>5, <2>1, <2>2 DEF IInv, TypeOK, exit, bounds
    <2>4. BootInv' /\ Pipeline'
        BY <1>1, <1>2, <1>5, <2>1 DEF IInv, BootInv, PhaseInv, Pipeline
    <2>5. ProgressInv' /\ SettledInv'
        BY <1>1, <1>5, <2>1, <2>2, ThreadNames DEF IInv, ProgressInv, SettledInv, exit, Processing
    <2> QED
        BY <2>1, <2>3, <2>4, <2>5 DEF IInv
<1> QED
    BY <1>4, <1>5 DEF SaveBlock

LEMMA SaveLastHolds ==
    ASSUME IInv, NEW t \in Threads, SaveLastCommitted(t)
    PROVE  IInv'
<1>1. /\ pc[t] = "saveLast" /\ pc[t] \in Processing
      /\ lastSaved' = next[t] /\ Goto(t, "push")
      /\ UNCHANGED <<blockDB, skaled, lastCommitted, initialized, mutex, next, last, exit, bounds>>
    BY DEF SaveLastCommitted, Processing
<1>2. initialized /\ t \in Committers /\ t # "bootstrap"
    BY <1>1, CommitterWorks, ThreadNames DEF IInv, PhaseInv
<1>3. /\ pc' \in [Threads -> Places]
      /\ pc'[t] = "push"
      /\ \A u \in Threads \ {t} : pc'[u] = pc[u] /\ pc[u] \notin Processing
      /\ MutexInv' /\ PhaseInv'
    BY <1>1, <1>2, ProcessMove DEF Processing
<1>4. /\ next[t] = lastCommitted + 1 /\ next[t] <= last[t] /\ next[t] \in blockDB
      /\ last[t] \in 0 .. MaxBlock
    BY <1>1, <1>2, ThreadNames DEF IInv, ProgressInv, TypeOK
<1>5. TypeOK'
    BY <1>1, <1>3, <1>4, BoundsAssumption DEF IInv, TypeOK, exit, bounds
<1>6. BootInv'
    BY <1>1, <1>2 DEF BootInv
<1>7. Pipeline'
    BY <1>1, <1>2, <1>3, <1>4, BoundsAssumption DEF IInv, TypeOK, PhaseInv, Pipeline
<1>8. ProgressInv' /\ SettledInv'
    BY <1>1, <1>3, <1>4, ThreadNames DEF IInv, ProgressInv, SettledInv, exit, Processing
<1> QED
    BY <1>3, <1>5, <1>6, <1>7, <1>8 DEF IInv

LEMMA PushHolds ==
    ASSUME IInv, NEW t \in Threads, PushBlockToExtFace(t)
    PROVE  IInv'
<1>1. /\ pc[t] = "push" /\ pc[t] \in Processing
      /\ UNCHANGED <<disk, lastCommitted, initialized, next, last, exitOnBlock, bounds>>
    BY DEF PushBlockToExtFace, Processing
<1>2. CASE exitRequested' = TRUE /\ Throw(t, "ended") /\ UNCHANGED skaled
    <2>1. ExitGrows
        BY <1>1, <1>2 DEF ExitGrows, IInv, TypeOK, bounds
    <2> QED
        BY <1>1, <1>2, <2>1, ThrowHolds
<1>3. CASE /\ ~exitRequested /\ skaled' = next[t]
           /\ Goto(t, "created") /\ UNCHANGED <<mutex, exitRequested>>
    <2>1. /\ pc' \in [Threads -> Places]
          /\ pc'[t] = "created"
          /\ \A u \in Threads \ {t} : pc'[u] = pc[u] /\ pc[u] \notin Processing
          /\ MutexInv' /\ PhaseInv'
        BY <1>1, <1>3, CommitterWorks, ThreadNames, ProcessMove DEF Processing
    <2>2. /\ next[t] = skaled + 1 \/ initialized
          /\ next[t] <= lastSaved /\ lastSaved \in 0 .. MaxBlock
          /\ next[t] \in 1 .. MaxBlock + 1
          /\ initialized => next[t] = lastCommitted + 1
          /\ t \in Committers => lastSaved = next[t]
        <3>1. CASE t \in Committers
            BY <1>1, <3>1, CommitterWorks DEF IInv, ProgressInv, TypeOK
        <3>2. CASE t = "bootstrap"
            BY <1>1, <1>3, <3>2, CommitterWorks, ThreadNames DEF IInv, BootInv, TypeOK
        <3> QED
            BY <3>1, <3>2, ThreadNames
    <2>3. TypeOK'
        <3>1. skaled' \in 0 .. MaxBlock
            BY <1>3, <2>2, BoundsAssumption
        <3> QED
            BY <1>1, <1>3, <2>1, <3>1 DEF IInv, TypeOK, disk, bounds
    <2>4. Pipeline'
        <3>1. pc'["bootstrap"] # "failed"
            BY <1>1, <2>1, CommitterWorks, ThreadNames DEF PhaseInv
        <3> QED
            BY <1>1, <1>3, <2>2, <3>1, BoundsAssumption DEF IInv, TypeOK, Pipeline, disk
    <2>5. BootInv'
        BY <1>1, <1>3, <2>1, <2>2, CommitterWorks, ThreadNames DEF IInv, BootInv, disk
    <2>6. ProgressInv'
        BY <1>1, <1>3, <2>1, <2>2, ThreadNames DEF IInv, ProgressInv, disk, Processing
    <2>7. SettledInv'
        BY <1>1, <2>1, CommitterWorks DEF SettledInv
    <2> QED
        BY <2>1, <2>3, <2>4, <2>5, <2>6, <2>7 DEF IInv
<1> QED
    BY <1>2, <1>3 DEF PushBlockToExtFace

LEMMA UpdateHolds ==
    ASSUME IInv, NEW t \in Threads, UpdateLastCommitted(t)
    PROVE  IInv'
<1>1. /\ pc[t] = "created" /\ pc[t] \in Processing
      /\ UNCHANGED <<disk, skaled, initialized, last, exitOnBlock, bounds>>
    BY DEF UpdateLastCommitted, Processing
<1>2. CASE exitRequested' = TRUE /\ Throw(t, "ended") /\ UNCHANGED <<lastCommitted, next>>
    <2>1. ExitGrows
        BY <1>1, <1>2 DEF ExitGrows, IInv, TypeOK, bounds
    <2> QED
        BY <1>1, <1>2, <2>1, ThrowHolds
<1>3. CASE /\ next' = [next EXCEPT ![t] = @ + 1]
           /\ IF t = "bootstrap" THEN Goto(t, "boot") /\ UNCHANGED lastCommitted
              ELSE Goto(t, "process") /\ lastCommitted' = next[t]
           /\ UNCHANGED <<mutex, exitRequested>>
    <2>1. /\ next[t] = skaled /\ next[t] <= lastSaved
          /\ initialized => lastSaved = next[t]
          /\ next[t] \in 1 .. MaxBlock + 1 /\ lastSaved \in 0 .. MaxBlock
        <3>1. CASE t \in Committers
            BY <1>1, <3>1, ThreadNames DEF IInv, ProgressInv, TypeOK
        <3>2. CASE t = "bootstrap"
            BY <1>1, <3>2, CommitterWorks, ThreadNames DEF IInv, BootInv, TypeOK
        <3> QED
            BY <3>1, <3>2, ThreadNames
    <2>2. /\ next' \in [Threads -> 1 .. MaxBlock + 1]
          /\ next'[t] = next[t] + 1
          /\ \A u \in Threads \ {t} : next'[u] = next[u]
        BY <1>3, <2>1, BoundsAssumption DEF IInv, TypeOK
    <2>3. CASE t \in Committers
        <3>1. initialized /\ Goto(t, "process") /\ lastCommitted' = next[t]
            BY <1>1, <1>3, <2>3, CommitterWorks, ThreadNames
        <3>2. /\ pc' \in [Threads -> Places]
              /\ pc'[t] = "process"
              /\ \A u \in Threads \ {t} : pc'[u] = pc[u] /\ pc[u] \notin Processing
              /\ MutexInv' /\ PhaseInv'
            BY <1>1, <1>3, <2>3, <3>1, ThreadNames, ProcessMove DEF Processing
        <3>3. TypeOK'
            BY <1>1, <1>3, <2>1, <2>2, <3>1, <3>2 DEF IInv, TypeOK, disk, bounds
        <3>4. BootInv'
            BY <1>1, <3>1 DEF BootInv
        <3>5. ProgressInv' /\ SettledInv'
            BY <1>1, <2>1, <3>1, <3>2, ThreadNames DEF ProgressInv, SettledInv, Processing
        <3>6. Pipeline'
            BY <1>1, <2>1, <3>1, <3>2 DEF IInv, PhaseInv, Pipeline, disk
        <3> QED
            BY <3>2, <3>3, <3>4, <3>5, <3>6 DEF IInv
    <2>4. CASE t = "bootstrap"
        <3>1. ~initialized /\ Goto(t, "boot") /\ UNCHANGED lastCommitted
            BY <1>1, <1>3, <2>4, CommitterWorks, ThreadNames
        <3>2. /\ pc' \in [Threads -> Places]
              /\ pc'[t] = "boot"
              /\ \A u \in Threads \ {t} : pc'[u] = pc[u] /\ pc[u] \notin Processing
              /\ MutexInv' /\ PhaseInv'
            BY <1>1, <1>3, <2>4, <3>1, ThreadNames, ProcessMove DEF Processing
        <3>3. TypeOK'
            BY <1>1, <1>3, <2>2, <3>1, <3>2 DEF IInv, TypeOK, disk, bounds
        <3>4. BootInv'
            BY <1>1, <2>1, <2>2, <2>4, <3>1, <3>2 DEF IInv, BootInv, disk
        <3>5. ProgressInv' /\ SettledInv'
            BY <1>1, <2>4, <3>1, <3>2, ThreadNames DEF ProgressInv, SettledInv, Processing
        <3>6. Pipeline'
            BY <1>1, <2>4, <3>1, <3>2 DEF IInv, Pipeline, disk
        <3> QED
            BY <3>2, <3>3, <3>4, <3>5, <3>6 DEF IInv
    <2> QED
        BY <2>3, <2>4, ThreadNames
<1> QED
    BY <1>2, <1>3 DEF UpdateLastCommitted

LEMMA NextHolds == IInv /\ [Next]_vars => IInv'
<1> SUFFICES ASSUME IInv, [Next]_vars PROVE IInv'
    OBVIOUS
<1>1. CASE FinalizeBlock \/ CatchupDownload \/ LockTimeout \/ Bootstrap \/ Crash
    BY <1>1, FinalizeHolds, DownloadHolds, TimeoutHolds, BootstrapHolds, CrashHolds
<1>2. CASE \E t \in Committers : Leave(t) \/ WaitForInitialized(t) \/ LockMutex(t)
    BY <1>2, LeaveHolds, AwaitHolds, LockHolds
<1>3. CASE \E t \in Threads : ProcessStep(t) \/ CreateBlockFails(t)
    BY <1>3, NextBlockHolds, SaveBlockHolds, SaveLastHolds, PushHolds, UpdateHolds, CreateFailsHolds
       DEF ProcessStep
<1>4. CASE RequestExit \/ HardExit
    <2>1. ExitGrows
        BY <1>4 DEF RequestExit, HardExit, ExitGrows, IInv, TypeOK, bounds
    <2> QED
        BY <1>4, <2>1, ExitHolds DEF RequestExit, HardExit
<1>5. CASE UNCHANGED vars
    <2>1. ExitGrows
        BY <1>5, ExitSame DEF vars, IInv
    <2> QED
        BY <1>5, <2>1, ExitHolds DEF vars
<1> QED
    BY <1>1, <1>2, <1>3, <1>4, <1>5 DEF Next

\* createBlock returns in pushBlockToExtFace only.
LEMMA OnlyPush ==
    ASSUME IInv, Next, NEW t \in Threads, pc[t] = "push", pc'[t] = "created"
    PROVE  ~exitRequested
<1>1. pc \in [Threads -> Places]
    BY DEF IInv, TypeOK
<1>2. \A u \in Threads, place \in Places : Goto(u, place) => u = t /\ place = "created"
    BY <1>1 DEF Goto
<1>3. ~(FinalizeBlock \/ CatchupDownload \/ LockTimeout)
    BY <1>2, ThreadNames DEF FinalizeBlock, CatchupDownload, LockTimeout, Throw, Places
<1>4. ~(\E u \in Committers : Leave(u) \/ WaitForInitialized(u) \/ LockMutex(u))
    BY <1>2, ThreadNames DEF Leave, WaitForInitialized, LockMutex, Places
<1>5. ~(\E u \in Threads : CreateBlockFails(u))
    BY <1>2 DEF CreateBlockFails, Throw, Places
<1>6. ~(\E u \in Threads : NextBlock(u))
    BY <1>2 DEF NextBlock, Throw, Places
<1>7. ~(\E u \in Threads : SaveBlock(u) \/ SaveLastCommitted(u) \/ UpdateLastCommitted(u))
    BY <1>2 DEF SaveBlock, SaveLastCommitted, UpdateLastCommitted, Throw, Places
<1>8. ~Bootstrap
    BY <1>2, ThreadNames
       DEF Bootstrap, BootstrapCheck, BootstrapLoop, BootstrapCatch, BootstrapPropose, Places
<1>9. ~(RequestExit \/ HardExit \/ Crash)
    BY StartPlaces, ThreadNames DEF RequestExit, HardExit, Crash, Start
<1>10. (\E u \in Threads : PushBlockToExtFace(u)) => ~exitRequested
    BY <1>2 DEF PushBlockToExtFace, Throw, Places
<1> QED
    BY <1>3, <1>4, <1>5, <1>6, <1>7, <1>8, <1>9, <1>10 DEF Next, ProcessStep

-----------------------------------------------------------------------------
\* The inductive invariant holds in every state of the node.
THEOREM Invariance == Spec => []IInv
BY InitHolds, NextHolds, PTL DEF Spec

\* Schain's committing threads keep the types of their state: in particular
\* no list and no counter leaves the chain.
THEOREM TypeCorrect == Spec => []TypeOK
<1>1. IInv => TypeOK
    BY DEF IInv
<1> QED
    BY <1>1, Invariance, PTL

\* However often the process dies, however many blocks skaled loses then and
\* wherever the exit meets the node: consensus never has less than skaled,
\* bootstrap() finds every block it has to push, refuses to start only when
\* more than MaxLag blocks are lost, and leaves the node with at most the block
\* in progress between what is saved and what is committed.
THEOREM PipelineHolds == Spec => []Pipeline
<1>1. IInv => Pipeline
    BY DEF IInv
<1> QED
    BY <1>1, Invariance, PTL

\* blockProcessMutex keeps the message thread, the catchup thread and
\* bootstrap() apart, although an exiting catchup thread may unlock it under
\* the message thread.
THEOREM OneProcessesHolds == Spec => []OneProcesses
<1>1. IInv => OneProcesses
    BY Exclusive DEF IInv
<1> QED
    BY <1>1, Invariance, PTL

\* skaled gets every block once and in order, through pushBlockToExtFace of
\* whichever thread, across crashes, restarts and failed calls of createBlock.
THEOREM ExecutedInOrderHolds == Spec => ExecutedInOrder
<1> DEFINE InOrder ==
        \A t \in Threads : pc[t] = "push" /\ pc'[t] = "created" => next[t] = skaled + 1
<1>1. ASSUME IInv, [Next]_vars PROVE [InOrder]_vars
    <2>1. ASSUME Next, NEW t \in Threads, pc[t] = "push", pc'[t] = "created"
          PROVE  next[t] = skaled + 1
        <3>1. ~exitRequested
            BY <1>1, <2>1, OnlyPush
        <3>2. CASE t = "bootstrap"
            BY <1>1, <2>1, <3>1, <3>2 DEF IInv, PhaseInv, BootInv
        <3>3. CASE t \in Committers
            <4>1. initialized
                BY <1>1, <2>1, <3>3 DEF IInv, PhaseInv
            <4>2. \A u \in Committers : pc[u] # "created"
                BY <1>1, <2>1, Exclusive, ThreadNames DEF IInv, OneProcesses
            <4>3. skaled = lastCommitted
                BY <1>1, <3>1, <4>1, <4>2 DEF IInv, SettledInv
            <4> QED
                BY <1>1, <2>1, <3>3, <4>3 DEF IInv, ProgressInv
        <3> QED
            BY <3>2, <3>3, ThreadNames
    <2> QED
        BY <1>1, <2>1
<1>2. Spec => [][InOrder]_vars
    BY <1>1, Invariance, PTL DEF Spec
<1> QED
    BY <1>2 DEF ExecutedInOrder
=============================================================================
