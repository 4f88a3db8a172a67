---------------------------- MODULE CacheLevelDB ----------------------------
(***************************************************************************)
(* CacheLevelDB, the database that every table of a node is built on: a    *)
(* few LevelDB databases in the directories db.<index>.  The newest one is *)
(* written to and replaced by a new one when it is full, and the oldest    *)
(* directory is removed.  Threads write concurrently, the process may die  *)
(* anywhere, also between the creation of a directory and the removal of   *)
(* the oldest one, and the stuck detection agent destroys tables.          *)
(*                                                                         *)
(* LevelDB is external: a Put or a batch is atomic and synchronous, and    *)
(* DestroyDB refuses a database that is open.                              *)
(***************************************************************************)
EXTENDS Integers, FiniteSets

CONSTANTS
    Keys,            \* keys of single values
    Overwritten,     \* keys that are written with _overWrite
    Values,          \* values of the keys
    Blocks,          \* blocks that have a set of entries
    Signers,         \* indices of the entries, 1 .. totalSigners in the code
    Writers,         \* threads that write
    Shards,          \* LEVELDB_SHARDS
    MaxDBSize,       \* writes after which the newest database is rotated
    LastIndex,       \* bound on the indices of the directories
    MaxFaults        \* bound on crashes and failed removals

None == "none"   \* no value: a read returns the empty string

ASSUME ConstantsAssumption ==
    /\ Overwritten \subseteq Keys
    /\ None \notin Values
    /\ IsFiniteSet(Signers)

ASSUME BoundsAssumption ==
    /\ Shards \in Nat \ {0}
    /\ MaxDBSize \in Nat
    /\ LastIndex \in Nat /\ LastIndex >= Shards
    /\ MaxFaults \in Nat

VARIABLES
    found,    \* indices of the directories db.<i> on the disk
    dirs,     \* dirs[i]: the contents of db.<i>, empty if it is not there
    highest,  \* highestDBIndex, 0 while the process does not run
    closed,   \* destroy() has closed the databases
    thread,   \* thread[w]: what w does
    latest,   \* latest[k]: the value of k that was written last (history)
    faults    \* crashes and failures so far

vars == <<found, dirs, highest, closed, thread, latest, faults>>

Indices == 1 .. LastIndex

-----------------------------------------------------------------------------
(* One LevelDB database.                                                   *)

Database == [
    value : [Keys -> Values \cup {None}],
    entries : [Blocks -> SUBSET Signers],   \* keys <block>:<index>
    count : [Blocks -> Nat],                \* keys COUNTER:<block>; 0 is no key
    size : Nat]                             \* writes so far, for getActiveDBSize

EmptyDB == [
    value |-> [k \in Keys |-> None],
    entries |-> [b \in Blocks |-> {}],
    count |-> [b \in Blocks |-> 0],
    size |-> 0]

Put(d, k, v) == [d EXCEPT !.value[k] = v, !.size = @ + 1]

\* The batch of writeByteArrayToSetUnsafe: the counter and the entry.
PutEntry(d, b, s) ==
    [d EXCEPT !.entries[b] = @ \cup {s}, !.count[b] = @ + 1, !.size = @ + 1]

-----------------------------------------------------------------------------
(* Reads.                                                                  *)

\* The highest index of a set of directories.
HighestOf(S) == CHOOSE h \in S : \A i \in S : i <= h

\* The constructor's highestDBIndex: from the directories, at least Shards.
DiskHighest == HighestOf(found \cup {Shards})

\* The databases that the process has open, or would open.
OpenDBs == DiskHighest - Shards + 1 .. DiskHighest

\* Mistake: the oldest database is read first.
ReadString_OldestFirst(k) ==
    LET holders == {i \in OpenDBs : dirs[i].value[k] # None}
    IN  IF holders = {} THEN None
        ELSE dirs[CHOOSE l \in holders : \A i \in holders : l <= i].value[k]

\* readStringUnsafe: the newest database that has the key.
ReadString(k) ==
    LET holders == {i \in OpenDBs : dirs[i].value[k] # None}
    IN  IF holders = {} THEN None ELSE dirs[HighestOf(holders)].value[k]

\* Mistake: only the newest database is asked.
KeyExists_Newest(k) == dirs[DiskHighest].value[k] # None

\* keyExistsUnsafe
KeyExists(k) == \E i \in OpenDBs : dirs[i].value[k] # None

EntryExists(b, s) == \E i \in OpenDBs : s \in dirs[i].entries[b]

\* readCount: the newest counter, 0 if there is none.
ReadCount(b) ==
    LET holders == {i \in OpenDBs : dirs[i].count[b] # 0}
    IN  IF holders = {} THEN 0 ELSE dirs[HighestOf(holders)].count[b]

\* readSetUnsafe, before it is cut off at RequiredSigners.
ReadSet(b) == {s \in Signers : EntryExists(b, s)}

-----------------------------------------------------------------------------
(* Writes.  A call is a value, or an entry of a set; a thread first checks *)
(* the size, then rotates under the mutex if it must, then writes under    *)
(* the mutex.                                                              *)

Calls == [key : Keys, value : Values] \cup [block : Blocks, index : Signers]
Places == {"lock", "remove", "write"}
Idle == [at |-> "idle"]
Threads == {Idle} \cup [at : Places, call : Calls]

Goto(w, place) == thread' = [thread EXCEPT ![w].at = place]

Running == highest # 0 /\ ~closed

\* rotateDBsIfNeeded keeps the mutex while it removes directories.
MutexFree == \A w \in Writers : thread[w].at # "remove"

Init ==
    /\ found = {}
    /\ dirs = [i \in Indices |-> EmptyDB]
    /\ highest = 0
    /\ closed = FALSE
    /\ thread = [w \in Writers |-> Idle]
    /\ latest = [k \in Keys |-> None]
    /\ faults = 0

\* The constructor: the missing directories of the newest databases are
\* created.  If it dies in between, it finds the same indices again.
Construct ==
    /\ highest = 0
    /\ highest' = DiskHighest
    /\ found' = found \cup OpenDBs
    /\ UNCHANGED <<dirs, closed, thread, latest, faults>>

\* The directories S are removed.
Remove(S) ==
    /\ found' = found \ S
    /\ dirs' = [i \in Indices |-> IF i \in S THEN EmptyDB ELSE dirs[i]]

Full == dirs[highest].size > MaxDBSize

\* A thread calls a write and checks the size without the mutex.
Call(w, call) ==
    /\ Running
    /\ thread[w] = Idle
    /\ thread' = [thread EXCEPT ![w] =
                    [at |-> IF Full THEN "lock" ELSE "write", call |-> call]]
    /\ UNCHANGED <<found, dirs, highest, closed, latest, faults>>

\* Mistake: the size is not checked again under the mutex.
RotateDBs_Unchecked(w) ==
    /\ Running
    /\ thread[w].at = "lock"
    /\ MutexFree
    /\ highest < LastIndex
    /\ found' = found \cup {highest + 1}
    /\ highest' = highest + 1
    /\ Goto(w, "remove")
    /\ UNCHANGED <<dirs, closed, latest, faults>>

\* rotateDBsIfNeeded with the mutex: another thread may have rotated.
RotateDBs(w) ==
    /\ Running
    /\ thread[w].at = "lock"
    /\ MutexFree
    /\ \/ /\ ~Full
          /\ Goto(w, "write")
          /\ UNCHANGED <<found, highest>>
       \/ /\ Full
          /\ highest < LastIndex
          /\ found' = found \cup {highest + 1}
          /\ highest' = highest + 1
          /\ Goto(w, "remove")
    /\ UNCHANGED <<dirs, closed, latest, faults>>

\* Mistake: one directory too many is removed.
RemoveOldDBs_OneMore(w) ==
    /\ Running
    /\ thread[w].at = "remove"
    /\ \E low \in found :
        /\ \A i \in found : low <= i
        /\ IF low + Shards <= highest + 1
           THEN Remove({low}) /\ UNCHANGED thread
           ELSE Goto(w, "write") /\ UNCHANGED <<found, dirs>>
    /\ UNCHANGED <<highest, closed, latest, faults>>

\* The loop at the end of rotateDBsIfNeeded removes the oldest directory
\* while it is not one of the open ones.
RemoveOldDBs(w) ==
    /\ Running
    /\ thread[w].at = "remove"
    /\ \E low \in found :
        /\ \A i \in found : low <= i
        /\ IF low + Shards <= highest
           THEN Remove({low}) /\ UNCHANGED thread
           ELSE Goto(w, "write") /\ UNCHANGED <<found, dirs>>
    /\ UNCHANGED <<highest, closed, latest, faults>>

\* remove_all throws: the write is not done, the directory stays.
RemoveFails(w) ==
    /\ Running
    /\ thread[w].at = "remove"
    /\ faults < MaxFaults
    /\ faults' = faults + 1
    /\ thread' = [thread EXCEPT ![w] = Idle]
    /\ UNCHANGED <<found, dirs, highest, closed, latest>>

\* writeString with the mutex.
WriteString(k, v) ==
    /\ IF k \notin Overwritten /\ KeyExists(k)
       THEN UNCHANGED <<dirs, latest>>
       ELSE /\ dirs' = [dirs EXCEPT ![highest] = Put(@, k, v)]
            /\ latest' = [latest EXCEPT ![k] = v]

\* Mistake: the entry is always written to the newest database.
WriteEntry_Newest(b, s) ==
    /\ IF EntryExists(b, s) THEN UNCHANGED dirs
       ELSE dirs' = [dirs EXCEPT ![highest] =
                       [PutEntry(@, b, s) EXCEPT !.count[b] = ReadCount(b) + 1]]
    /\ UNCHANGED latest

\* writeByteArrayToSetUnsafe: into the database of the counter, if any.
WriteEntry(b, s) ==
    /\ IF EntryExists(b, s) THEN UNCHANGED dirs
       ELSE \E i \in OpenDBs :
              /\ \/ /\ dirs[i].count[b] # 0
                    /\ \A j \in OpenDBs : j > i => dirs[j].count[b] = 0
                 \/ /\ i = highest
                    /\ \A j \in OpenDBs : dirs[j].count[b] = 0
              /\ dirs' = [dirs EXCEPT ![i] = PutEntry(@, b, s)]
    /\ UNCHANGED latest

Write(w) ==
    /\ Running
    /\ thread[w].at = "write"
    /\ MutexFree
    /\ \/ \E k \in Keys, v \in Values :
            thread[w].call = [key |-> k, value |-> v] /\ WriteString(k, v)
       \/ \E b \in Blocks, s \in Signers :
            thread[w].call = [block |-> b, index |-> s] /\ WriteEntry(b, s)
    /\ thread' = [thread EXCEPT ![w] = Idle]
    /\ UNCHANGED <<found, highest, closed, faults>>

-----------------------------------------------------------------------------
\* destroy(), for a restart of a stuck node, closes the databases from the
\* newest to the oldest, and after the one at position p, which is db.<highest -
\* Shards + 1 + p>, it destroys db.<p>, unless that is still open.  Whatever
\* the threads do afterwards fails; that a full table may still rotate before
\* the process ends, and then take writes, is left out.
Destroy ==
    /\ Running
    /\ MutexFree
    /\ closed' = TRUE
    /\ Remove({p \in 0 .. Shards - 1 : p \notin highest - Shards + 1 .. highest - Shards + p})
    /\ thread' = [w \in Writers |-> Idle]
    /\ UNCHANGED <<highest, latest, faults>>

\* The process ends, anywhere, and is started again.
Crash ==
    /\ highest # 0
    /\ faults < MaxFaults
    /\ faults' = faults + 1
    /\ highest' = 0
    /\ closed' = FALSE
    /\ thread' = [w \in Writers |-> Idle]
    /\ UNCHANGED <<found, dirs, latest>>

Next ==
    \/ Construct
    \/ \E w \in Writers :
        \/ \E call \in Calls : Call(w, call)
        \/ RotateDBs(w)
        \/ RemoveOldDBs(w)
        \/ RemoveFails(w)
        \/ Write(w)
    \/ Destroy
    \/ Crash

Spec == Init /\ [][Next]_vars

-----------------------------------------------------------------------------
\* The directories, the open databases and the threads have the types of the
\* code, and verify() holds: the newest databases are there whenever the
\* process runs.
TypeOK ==
    /\ found \subseteq Indices
    /\ dirs \in [Indices -> Database]
    /\ highest \in {0} \cup Shards .. LastIndex
    /\ closed \in BOOLEAN
    /\ thread \in [Writers -> Threads]
    /\ latest \in [Keys -> Values \cup {None}]
    /\ faults \in 0 .. MaxFaults
    /\ Running => highest - Shards + 1 .. highest \subseteq found

\* A counter counts the entries that can be read, so that the CHECK_STATE on
\* the size of a complete set holds: in spite of rotations, crashes and other
\* writers, a set is never torn between two databases.
CountMatches == \A b \in Blocks : ReadCount(b) = Cardinality(ReadSet(b))

\* A key reads as the value that was written last, or as no value when its
\* database was removed; an older one, such as an old last committed block,
\* never comes back.
ReadsLatest == \A k \in Keys : ReadString(k) \in {latest[k], None}

\* A value that is written once does not change while it can be read: of two
\* threads that save different hashes of a proposal, one fails.
WrittenOnce ==
    [][\A k \in Keys \ Overwritten :
        ReadString(k) # None /\ ReadString(k)' # None => ReadString(k)' = ReadString(k)]_vars

\* The tables are a store that only forgets its oldest generation, and only
\* when the newest one is full, although several threads rotate, the process
\* dies between the steps of a rotation and directories cannot be removed.
Store == INSTANCE RotatingStore WITH
    gens <- [j \in 1 .. Shards |-> dirs[DiskHighest - Shards + j]]

ImplementsStore == Store!Spec
=============================================================================
