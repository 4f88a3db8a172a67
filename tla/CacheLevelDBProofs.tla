------------------------- MODULE CacheLevelDBProofs -------------------------
(***************************************************************************)
(* Proofs about CacheLevelDB for every number of shards, threads, keys,    *)
(* signers and faults.                                                     *)
(*                                                                         *)
(* The argument: the newest directory on the disk is the one the process   *)
(* writes to (DirInv), so every step of the code changes what can be read  *)
(* in one of four ways (StepKinds): not at all, by a rotation, by a value  *)
(* or by an entry.  The other invariants and the refinement follow from    *)
(* these four.                                                             *)
(***************************************************************************)
EXTENDS CacheLevelDB, FiniteSetTheorems, WellFoundedInduction, TLAPS

-----------------------------------------------------------------------------
(* The inductive invariant.                                                *)

IsTop(h) == h \in found \cup {Shards} /\ \A i \in found \cup {Shards} : i <= h

\* The process writes to the newest directory, the open databases are there,
\* and a directory that is not there has no contents.
DirInv ==
    /\ \E h \in Nat : IsTop(h)
    /\ highest # 0 => IsTop(highest) /\ highest - Shards + 1 .. highest \subseteq found
    /\ \A i \in Indices : i \notin found => dirs[i] = EmptyDB

\* The newest database that has a key has its latest value.
LatestInv ==
    \A k \in Keys, i \in OpenDBs :
        /\ dirs[i].value[k] # None
        /\ \A j \in OpenDBs : j > i => dirs[j].value[k] = None
        => dirs[i].value[k] = latest[k]

\* The counter of a set is in one database, with all entries of the set.
SetInv ==
    /\ \A b \in Blocks, i \in OpenDBs :
        dirs[i].count[b] = Cardinality(dirs[i].entries[b])
    /\ \A b \in Blocks : \A i, j \in OpenDBs :
        dirs[i].count[b] # 0 /\ dirs[j].count[b] # 0 => i = j

-----------------------------------------------------------------------------
(* Highest elements.                                                       *)

\* HighestOf returns the highest element, if there is one.
LEMMA HighestOfIs ==
    ASSUME NEW S \in SUBSET Int, NEW h \in S, \A i \in S : i <= h
    PROVE  HighestOf(S) = h
<1>1. \A g \in S : (\A i \in S : i <= g) => g = h
    OBVIOUS
<1> QED
    BY <1>1 DEF HighestOf

\* A set of integers with an upper bound has a highest element.
LEMMA BoundedHasHighest ==
    ASSUME NEW n \in Int, NEW S \in SUBSET Int, S # {}, \A i \in S : i <= n
    PROVE  \E h \in S : \A i \in S : i <= h
<1> DEFINE T == {m \in Nat : n - m \in S}
<1>1. \A i \in S : n - i \in T /\ i = n - (n - i)
    OBVIOUS
<1>2. T \subseteq Nat /\ T # {}
    BY <1>1
<1>3. PICK x \in T : \A y \in T : ~ (<<y, x>> \in OpToRel(<, Nat))
    BY <1>2, NatLessThanWellFounded, WFMin, Zenon
<1>4. \A y \in T : ~ (y < x)
    <2> TAKE y \in T
    <2>1. <<y, x>> \in Nat \X Nat /\ <<y, x>>[1] = y /\ <<y, x>>[2] = x
        OBVIOUS
    <2> QED
        BY <1>3, <2>1 DEF OpToRel
<1>5. \A i \in S : i <= n - x
    BY <1>1, <1>4
<1> QED
    BY <1>5

\* highestDBIndex is the newest directory, also after a crash.
LEMMA TopIs ==
    ASSUME TypeOK, NEW h, IsTop(h)
    PROVE  /\ DiskHighest = h
           /\ h \in Shards .. LastIndex
           /\ OpenDBs = h - Shards + 1 .. h
           /\ OpenDBs \subseteq Indices
<1>1. found \cup {Shards} \in SUBSET Int
    BY BoundsAssumption DEF TypeOK, Indices
<1>2. DiskHighest = h
    BY <1>1, HighestOfIs DEF DiskHighest, IsTop
<1>3. h \in Shards .. LastIndex
    BY BoundsAssumption DEF TypeOK, Indices, IsTop
<1> QED
    BY <1>2, <1>3, BoundsAssumption DEF OpenDBs, Indices

-----------------------------------------------------------------------------
(* What a write does to one database.                                      *)

LEMMA EmptyDBType ==
    /\ EmptyDB \in Database
    /\ \A k \in Keys : EmptyDB.value[k] = None
    /\ \A b \in Blocks : EmptyDB.entries[b] = {} /\ EmptyDB.count[b] = 0
    /\ EmptyDB.size = 0
BY DEF EmptyDB, Database

\* The types of a database with some fields replaced.
LEMMA FieldsType ==
    ASSUME NEW d \in Database, NEW n \in Nat,
           NEW v \in [Keys -> Values \cup {None}],
           NEW e \in [Blocks -> SUBSET Signers], NEW c \in [Blocks -> Nat]
    PROVE  /\ [d EXCEPT !.value = v, !.size = n] \in Database
           /\ [d EXCEPT !.entries = e, !.count = c, !.size = n] \in Database
BY DEF Database

LEMMA PutType ==
    ASSUME NEW d \in Database, NEW k \in Keys, NEW v \in Values
    PROVE  /\ Put(d, k, v) \in Database
           /\ Put(d, k, v).value[k] = v
           /\ \A l \in Keys \ {k} : Put(d, k, v).value[l] = d.value[l]
           /\ Put(d, k, v).entries = d.entries
           /\ Put(d, k, v).count = d.count
<1> DEFINE value == [d.value EXCEPT ![k] = v]
           size == d.size + 1
<1>1. value \in [Keys -> Values \cup {None}] /\ size \in Nat
    BY DEF Database
<1>2. Put(d, k, v) = [d EXCEPT !.value = value, !.size = size]
    BY DEF Put
<1>3. value[k] = v /\ \A l \in Keys \ {k} : value[l] = d.value[l]
    BY DEF Database
<1> HIDE DEF value, size
<1>4. [d EXCEPT !.value = value, !.size = size] \in Database
    <2>1. d.entries \in [Blocks -> SUBSET Signers] /\ d.count \in [Blocks -> Nat]
        BY DEF Database
    <2> QED
        BY <1>1, <2>1, FieldsType
<1>5. /\ Put(d, k, v).value = value
      /\ Put(d, k, v).entries = d.entries
      /\ Put(d, k, v).count = d.count
    BY <1>2 DEF Database
<1> QED
    BY <1>2, <1>3, <1>4, <1>5

LEMMA PutEntryType ==
    ASSUME NEW d \in Database, NEW b \in Blocks, NEW s \in Signers
    PROVE  /\ PutEntry(d, b, s) \in Database
           /\ PutEntry(d, b, s).value = d.value
           /\ PutEntry(d, b, s).entries[b] = d.entries[b] \cup {s}
           /\ PutEntry(d, b, s).count[b] = d.count[b] + 1
           /\ \A c \in Blocks \ {b} : /\ PutEntry(d, b, s).entries[c] = d.entries[c]
                                      /\ PutEntry(d, b, s).count[c] = d.count[c]
<1> DEFINE entries == [d.entries EXCEPT ![b] = d.entries[b] \cup {s}]
           count == [d.count EXCEPT ![b] = d.count[b] + 1]
           size == d.size + 1
<1>1. /\ entries \in [Blocks -> SUBSET Signers]
      /\ count \in [Blocks -> Nat]
      /\ size \in Nat
    BY DEF Database
<1>2. PutEntry(d, b, s) = [d EXCEPT !.entries = entries, !.count = count, !.size = size]
    BY DEF PutEntry
<1>3. /\ entries[b] = d.entries[b] \cup {s}
      /\ count[b] = d.count[b] + 1
      /\ \A c \in Blocks \ {b} : entries[c] = d.entries[c] /\ count[c] = d.count[c]
    BY DEF Database
<1> HIDE DEF entries, count, size
<1>4. [d EXCEPT !.entries = entries, !.count = count, !.size = size] \in Database
    <2>1. d.value \in [Keys -> Values \cup {None}]
        BY DEF Database
    <2> QED
        BY <1>1, <2>1, FieldsType
<1>5. /\ PutEntry(d, b, s).value = d.value
      /\ PutEntry(d, b, s).entries = entries
      /\ PutEntry(d, b, s).count = count
    BY <1>2 DEF Database
<1> QED
    BY <1>2, <1>3, <1>4, <1>5

-----------------------------------------------------------------------------
(* The four ways a step changes what can be read.                          *)

SameView ==
    /\ DiskHighest' = DiskHighest
    /\ \A i \in OpenDBs : dirs'[i] = dirs[i]
    /\ latest' = latest

RotateView ==
    /\ DiskHighest' = DiskHighest + 1
    /\ DiskHighest + 1 \in Indices
    /\ dirs' = dirs
    /\ dirs[DiskHighest + 1] = EmptyDB
    /\ dirs[DiskHighest].size > MaxDBSize
    /\ latest' = latest

WriteView(k, v) ==
    /\ DiskHighest' = DiskHighest
    /\ k \in Overwritten \/ ~KeyExists(k)
    /\ dirs' = [dirs EXCEPT ![DiskHighest] = Put(@, k, v)]
    /\ latest' = [latest EXCEPT ![k] = v]

AddView(b, s) ==
    /\ DiskHighest' = DiskHighest
    /\ ~EntryExists(b, s)
    /\ \E i \in OpenDBs :
        /\ \/ dirs[i].count[b] # 0
           \/ i = DiskHighest /\ \A j \in OpenDBs : dirs[j].count[b] = 0
        /\ dirs' = [dirs EXCEPT ![i] = PutEntry(@, b, s)]
    /\ latest' = latest

View ==
    \/ SameView
    \/ RotateView
    \/ \E k \in Keys, v \in Values : WriteView(k, v)
    \/ \E b \in Blocks, s \in Signers : AddView(b, s)

\* Same directories found, same newest one.
LEMMA SameTop ==
    ASSUME found' = found, NEW h
    PROVE  /\ DiskHighest' = DiskHighest
           /\ OpenDBs' = OpenDBs
           /\ IsTop(h)' <=> IsTop(h)
BY DEF DiskHighest, OpenDBs, HighestOf, IsTop

\* A running process writes to the newest directory.
LEMMA RunningTop ==
    ASSUME TypeOK, DirInv, highest # 0
    PROVE  /\ DiskHighest = highest
           /\ highest \in Shards .. LastIndex
           /\ OpenDBs = highest - Shards + 1 .. highest
           /\ OpenDBs \subseteq Indices
           /\ OpenDBs \subseteq found
           /\ highest \in OpenDBs
<1>1. IsTop(highest) /\ highest - Shards + 1 .. highest \subseteq found
    BY DEF DirInv
<1>2. /\ DiskHighest = highest
      /\ highest \in Shards .. LastIndex
      /\ OpenDBs = highest - Shards + 1 .. highest
      /\ OpenDBs \subseteq Indices
    BY <1>1, TopIs
<1> QED
    BY <1>1, <1>2, BoundsAssumption

\* Directories that are not open are removed: the newest one stays.
LEMMA RemoveKeepsTop ==
    ASSUME TypeOK, DirInv, highest # 0, TypeOK',
           NEW S, S \cap (highest - Shards + 1 .. highest) = {}, Remove(S), highest' = highest
    PROVE  /\ DirInv'
           /\ DiskHighest' = DiskHighest
           /\ \A i \in OpenDBs : dirs'[i] = dirs[i]
<1>1. /\ highest \in Shards .. LastIndex
      /\ OpenDBs = highest - Shards + 1 .. highest
      /\ OpenDBs \subseteq Indices
      /\ OpenDBs \subseteq found
      /\ highest \in OpenDBs
      /\ DiskHighest = highest
    BY RunningTop
<1>2. IsTop(highest)
    BY DEF DirInv
<1>3. IsTop(highest)'
    BY <1>1, <1>2, BoundsAssumption DEF IsTop, Remove
<1>4. OpenDBs \subseteq found'
    BY <1>1 DEF Remove
<1>5. \A i \in Indices : i \notin found' => dirs'[i] = EmptyDB
    BY DEF Remove, DirInv
<1>6. DirInv'
    <2>1. (\E h \in Nat : IsTop(h))'
        BY <1>1, <1>3, BoundsAssumption DEF IsTop
    <2> QED
        BY <1>1, <1>3, <1>4, <1>5, <2>1 DEF DirInv, IsTop
<1>7. DiskHighest' = highest
    <2>1. found' \cup {Shards} \in SUBSET Int
        BY BoundsAssumption DEF TypeOK, Indices
    <2> QED
        BY <1>3, <2>1, HighestOfIs DEF DiskHighest, IsTop
<1>8. \A i \in OpenDBs : dirs'[i] = dirs[i]
    BY <1>1 DEF Remove
<1> QED
    BY <1>1, <1>6, <1>7, <1>8

-----------------------------------------------------------------------------
(* One lemma per action: the types, DirInv and the kind of step.           *)

Kept == TypeOK' /\ DirInv' /\ View

\* A step that leaves the directories alone changes nothing that is read.
LEMMA NoWrite ==
    ASSUME TypeOK', DirInv, UNCHANGED <<found, dirs, latest>>,
           highest' \in {0, highest}
    PROVE  DirInv' /\ View
<1>1. SameView
    BY SameTop DEF SameView
<1>2. \A h : IsTop(h)' <=> IsTop(h)
    BY DEF IsTop
<1>3. DirInv'
    BY <1>2 DEF DirInv, IsTop
<1> QED
    BY <1>1, <1>3 DEF View

LEMMA ConstructStep ==
    ASSUME TypeOK, DirInv, Construct
    PROVE  Kept
<1>1. PICK h \in Nat : IsTop(h)
    BY DEF DirInv
<1>2. /\ DiskHighest = h
      /\ h \in Shards .. LastIndex
      /\ OpenDBs = h - Shards + 1 .. h
      /\ OpenDBs \subseteq Indices
    BY <1>1, TopIs
<1>3. /\ found' = found \cup OpenDBs
      /\ highest' = h
      /\ UNCHANGED <<dirs, closed, thread, latest, faults>>
    BY <1>2 DEF Construct
<1>4. IsTop(h)'
    BY <1>1, <1>2, <1>3, BoundsAssumption DEF IsTop
<1>5. TypeOK'
    BY <1>2, <1>3, BoundsAssumption DEF TypeOK, Running
<1>6. found' \cup {Shards} \in SUBSET Int
    BY <1>5, BoundsAssumption DEF TypeOK, Indices
<1>7. DiskHighest' = h
    BY <1>4, <1>6, HighestOfIs DEF DiskHighest, IsTop
<1>8. DirInv'
    BY <1>1, <1>2, <1>3, <1>4 DEF DirInv, IsTop
<1>9. SameView
    BY <1>2, <1>3, <1>7 DEF SameView
<1> QED
    BY <1>5, <1>8, <1>9 DEF Kept, View

LEMMA CallStep ==
    ASSUME TypeOK, DirInv, NEW w \in Writers, NEW call \in Calls, Call(w, call)
    PROVE  Kept
<1>1. TypeOK'
    BY DEF Call, TypeOK, Threads, Places, Running
<1> QED
    BY <1>1, NoWrite DEF Call, Kept

LEMMA RemoveFailsStep ==
    ASSUME TypeOK, DirInv, NEW w \in Writers, RemoveFails(w)
    PROVE  Kept
<1>1. TypeOK'
    BY BoundsAssumption DEF RemoveFails, TypeOK, Threads, Running
<1> QED
    BY <1>1, NoWrite DEF RemoveFails, Kept

LEMMA CrashStep ==
    ASSUME TypeOK, DirInv, Crash
    PROVE  Kept
<1>1. TypeOK'
    <2>1. /\ thread' \in [Writers -> Threads]
          /\ highest' = 0
          /\ closed' = FALSE
          /\ UNCHANGED <<found, dirs, latest>>
        BY DEF Crash, Threads
    <2>2. faults' \in 0 .. MaxFaults
        BY BoundsAssumption DEF Crash, TypeOK
    <2> QED
        BY <2>1, <2>2 DEF TypeOK, Running
<1> QED
    BY <1>1, NoWrite DEF Crash, Kept

\* A thread that is not idle has a place and a call.
LEMMA GotoType ==
    ASSUME TypeOK, NEW w \in Writers, thread[w].at # "idle", NEW place \in Places,
           Goto(w, place)
    PROVE  thread' \in [Writers -> Threads]
<1>1. thread[w] \in [at : Places, call : Calls]
    BY DEF TypeOK, Threads, Idle
<1>2. [thread[w] EXCEPT !.at = place] \in [at : Places, call : Calls]
    BY <1>1
<1>3. thread' = [thread EXCEPT ![w] = [thread[w] EXCEPT !.at = place]]
    BY DEF Goto
<1> QED
    BY <1>2, <1>3 DEF TypeOK, Threads

LEMMA RotateStep ==
    ASSUME TypeOK, DirInv, NEW w \in Writers, RotateDBs(w)
    PROVE  Kept
<1>1. /\ highest # 0
      /\ thread[w].at # "idle"
      /\ "write" \in Places /\ "remove" \in Places
      /\ UNCHANGED <<dirs, closed, latest, faults>>
    BY DEF RotateDBs, Running, Places
<1>2. /\ DiskHighest = highest
      /\ highest \in Shards .. LastIndex
      /\ OpenDBs = highest - Shards + 1 .. highest
      /\ OpenDBs \subseteq Indices
      /\ OpenDBs \subseteq found
      /\ highest \in OpenDBs
    BY <1>1, RunningTop
<1>3. CASE Goto(w, "write") /\ UNCHANGED <<found, highest>>
    <2>1. TypeOK'
        BY <1>1, <1>3, GotoType DEF TypeOK, Running
    <2> QED
        BY <1>1, <1>3, <2>1, NoWrite DEF Kept
<1>4. CASE /\ Full
           /\ highest < LastIndex
           /\ found' = found \cup {highest + 1}
           /\ highest' = highest + 1
           /\ Goto(w, "remove")
    <2>1. highest + 1 \in Indices /\ highest + 1 \notin found
        BY <1>1, <1>2, <1>4, BoundsAssumption DEF DirInv, IsTop, Indices
    <2>2. TypeOK'
        <3>1. (highest' - Shards + 1 .. highest') \subseteq found'
            BY <1>2, <1>4, BoundsAssumption
        <3> QED
            BY <1>1, <1>2, <1>4, <2>1, <3>1, GotoType, BoundsAssumption DEF TypeOK
    <2>3. IsTop(highest)
        BY <1>1 DEF DirInv
    <2>4. /\ highest + 1 \in found' \cup {Shards}
          /\ \A i \in found' \cup {Shards} : i <= highest + 1
        BY <1>2, <1>4, <2>1, <2>3, BoundsAssumption DEF IsTop, TypeOK, Indices
    <2>5. DirInv'
        BY <1>1, <1>2, <1>4, <2>4, BoundsAssumption DEF DirInv, IsTop
    <2>6. found' \cup {Shards} \in SUBSET Int
        BY <2>2, BoundsAssumption DEF TypeOK, Indices
    <2>7. DiskHighest' = highest + 1
        BY <1>4, <2>4, <2>6, HighestOfIs DEF DiskHighest, IsTop
    <2>8. RotateView
        BY <1>1, <1>2, <1>4, <2>1, <2>7 DEF RotateView, DirInv, Full
    <2> QED
        BY <2>2, <2>5, <2>8 DEF Kept, View
<1> QED
    BY <1>3, <1>4 DEF RotateDBs

\* A step that removes directories that are not open.
LEMMA RemoveStep ==
    ASSUME TypeOK, DirInv, highest # 0, highest' = highest, UNCHANGED <<latest, faults>>,
           closed' \in BOOLEAN, thread' \in [Writers -> Threads],
           NEW S, S \cap (highest - Shards + 1 .. highest) = {}, Remove(S)
    PROVE  Kept
<1>1. /\ highest \in Shards .. LastIndex
      /\ OpenDBs = highest - Shards + 1 .. highest
      /\ OpenDBs \subseteq found
    BY RunningTop
<1>2. TypeOK'
    <2>1. dirs' \in [Indices -> Database]
        BY EmptyDBType DEF Remove, TypeOK
    <2>2. found' \subseteq Indices /\ highest - Shards + 1 .. highest \subseteq found'
        BY <1>1 DEF Remove, TypeOK
    <2> QED
        BY <2>1, <2>2 DEF TypeOK
<1>3. /\ DirInv'
      /\ DiskHighest' = DiskHighest
      /\ \A i \in OpenDBs : dirs'[i] = dirs[i]
    BY <1>2, RemoveKeepsTop
<1> QED
    BY <1>2, <1>3 DEF Kept, View, SameView

LEMMA RemoveOldStep ==
    ASSUME TypeOK, DirInv, NEW w \in Writers, RemoveOldDBs(w)
    PROVE  Kept
<1>1. /\ highest # 0
      /\ thread[w].at # "idle"
      /\ "write" \in Places
      /\ UNCHANGED <<highest, closed, latest, faults>>
    BY DEF RemoveOldDBs, Running, Places
<1>2. PICK low \in found :
        IF low + Shards <= highest
        THEN Remove({low}) /\ UNCHANGED thread
        ELSE Goto(w, "write") /\ UNCHANGED <<found, dirs>>
    BY DEF RemoveOldDBs
<1>3. CASE low + Shards <= highest
    <2>1. Remove({low}) /\ UNCHANGED thread
        BY <1>2, <1>3
    <2>2. low \in Nat /\ highest \in Nat
        BY BoundsAssumption DEF TypeOK, Indices
    <2>3. {low} \cap (highest - Shards + 1 .. highest) = {}
        BY <1>3, <2>2, BoundsAssumption
    <2>4. closed' \in BOOLEAN /\ thread' \in [Writers -> Threads]
        BY <1>1, <2>1 DEF TypeOK
    <2> QED
        BY <1>1, <2>1, <2>3, <2>4, RemoveStep
<1>4. CASE ~(low + Shards <= highest)
    <2>1. Goto(w, "write") /\ UNCHANGED <<found, dirs>>
        BY <1>2, <1>4
    <2>2. TypeOK'
        BY <1>1, <2>1, GotoType DEF TypeOK, Running
    <2> QED
        BY <1>1, <2>1, <2>2, NoWrite DEF Kept
<1> QED
    BY <1>3, <1>4

LEMMA DestroyStep ==
    ASSUME TypeOK, DirInv, Destroy
    PROVE  Kept
<1> DEFINE S == {p \in 0 .. Shards - 1 : p \notin highest - Shards + 1 .. highest - Shards + p}
<1>1. /\ highest # 0
      /\ highest' = highest
      /\ UNCHANGED <<latest, faults>>
      /\ closed' \in BOOLEAN
      /\ thread' \in [Writers -> Threads]
      /\ Remove(S)
    BY DEF Destroy, Running, Threads
<1>2. highest \in Shards .. LastIndex
    BY <1>1, RunningTop
<1>3. S \cap (highest - Shards + 1 .. highest) = {}
    BY <1>2, BoundsAssumption
<1> QED
    BY <1>1, <1>3, RemoveStep

LEMMA WriteStep ==
    ASSUME TypeOK, DirInv, NEW w \in Writers, Write(w)
    PROVE  Kept
<1>1. /\ highest # 0
      /\ UNCHANGED <<found, highest, closed, faults>>
      /\ thread' \in [Writers -> Threads]
    BY DEF Write, Running, TypeOK, Threads
<1>2. /\ DiskHighest = highest
      /\ highest \in Indices
      /\ OpenDBs \subseteq Indices
      /\ highest \in OpenDBs
    BY <1>1, RunningTop
<1>3. DiskHighest' = DiskHighest /\ \A h : IsTop(h)' <=> IsTop(h)
    BY <1>1, SameTop
<1>4. ASSUME NEW i \in OpenDBs, NEW d \in Database, dirs' = [dirs EXCEPT ![i] = d],
             latest' \in [Keys -> Values \cup {None}]
      PROVE  TypeOK' /\ DirInv'
    <2>1. TypeOK'
        BY <1>1, <1>2, <1>4 DEF TypeOK, Running
    <2>2. OpenDBs \subseteq found
        BY <1>1, RunningTop
    <2>3. DirInv'
        BY <1>1, <1>3, <1>4, <2>2 DEF DirInv, IsTop, TypeOK
    <2> QED
        BY <2>1, <2>3
<1>5. CASE UNCHANGED <<dirs, latest>>
    <2>1. TypeOK'
        BY <1>1, <1>5 DEF TypeOK, Running
    <2> QED
        BY <1>1, <1>5, <2>1, NoWrite DEF Kept
<1>6. ASSUME NEW k \in Keys, NEW v \in Values, WriteString(k, v)
      PROVE  Kept
    <2>1. CASE k \notin Overwritten /\ KeyExists(k)
        BY <1>5, <1>6, <2>1 DEF WriteString
    <2>2. CASE ~(k \notin Overwritten /\ KeyExists(k))
        <3>1. /\ dirs' = [dirs EXCEPT ![highest] = Put(dirs[highest], k, v)]
              /\ latest' = [latest EXCEPT ![k] = v]
            BY <1>6, <2>2 DEF WriteString
        <3>2. Put(dirs[highest], k, v) \in Database
            BY <1>2, PutType DEF TypeOK
        <3>3. latest' \in [Keys -> Values \cup {None}]
            BY <3>1 DEF TypeOK
        <3>4. TypeOK' /\ DirInv'
            BY <1>2, <1>4, <3>1, <3>2, <3>3
        <3>5. WriteView(k, v)
            BY <1>2, <1>3, <2>2, <3>1 DEF WriteView
        <3> QED
            BY <3>4, <3>5 DEF Kept, View
    <2> QED
        BY <2>1, <2>2
<1>7. ASSUME NEW b \in Blocks, NEW s \in Signers, WriteEntry(b, s)
      PROVE  Kept
    <2>1. CASE EntryExists(b, s)
        BY <1>5, <1>7, <2>1 DEF WriteEntry
    <2>2. CASE ~EntryExists(b, s)
        <3>1. PICK i \in OpenDBs :
                /\ \/ dirs[i].count[b] # 0
                   \/ i = highest /\ \A j \in OpenDBs : dirs[j].count[b] = 0
                /\ dirs' = [dirs EXCEPT ![i] = PutEntry(dirs[i], b, s)]
            BY <1>7, <2>2 DEF WriteEntry
        <3>2. PutEntry(dirs[i], b, s) \in Database
            BY <1>2, PutEntryType DEF TypeOK
        <3>3. latest' = latest
            BY <1>7 DEF WriteEntry
        <3>4. TypeOK' /\ DirInv'
            BY <1>4, <3>1, <3>2, <3>3 DEF TypeOK
        <3>5. AddView(b, s)
            <4>1. \/ dirs[i].count[b] # 0
                  \/ i = DiskHighest /\ \A j \in OpenDBs : dirs[j].count[b] = 0
                BY <1>2, <3>1
            <4>2. dirs' = [dirs EXCEPT ![i] = PutEntry(@, b, s)]
                BY <3>1
            <4> QED
                BY <1>3, <2>2, <3>3, <4>1, <4>2 DEF AddView
        <3> QED
            BY <3>4, <3>5 DEF Kept, View
    <2> QED
        BY <2>1, <2>2
<1> QED
    BY <1>6, <1>7 DEF Write

LEMMA StepKinds ==
    ASSUME TypeOK, DirInv, [Next]_vars
    PROVE  Kept
<1>1. CASE UNCHANGED vars
    <2>1. TypeOK'
        BY <1>1 DEF vars, TypeOK, Running
    <2> QED
        BY <1>1, <2>1, NoWrite DEF vars, Kept
<1>2. CASE Next
    BY <1>2, ConstructStep, CallStep, RotateStep, RemoveOldStep, RemoveFailsStep,
       WriteStep, DestroyStep, CrashStep DEF Next
<1> QED
    BY <1>1, <1>2

-----------------------------------------------------------------------------
(* The values and the sets.                                                *)

LEMMA OpenIs ==
    ASSUME TypeOK, DirInv
    PROVE  /\ DiskHighest \in Shards .. LastIndex
           /\ OpenDBs = DiskHighest - Shards + 1 .. DiskHighest
           /\ OpenDBs \subseteq Indices
           /\ DiskHighest \in OpenDBs
           /\ \A i \in OpenDBs : dirs[i] \in Database
<1>1. PICK h \in Nat : IsTop(h)
    BY DEF DirInv
<1>2. /\ DiskHighest = h
      /\ h \in Shards .. LastIndex
      /\ OpenDBs = h - Shards + 1 .. h
      /\ OpenDBs \subseteq Indices
    BY <1>1, TopIs
<1> QED
    BY <1>2, BoundsAssumption DEF TypeOK

LEMMA LatestStep ==
    ASSUME TypeOK, DirInv, LatestInv, View
    PROVE  LatestInv'
<1>1. /\ DiskHighest \in Shards .. LastIndex
      /\ OpenDBs = DiskHighest - Shards + 1 .. DiskHighest
      /\ OpenDBs \subseteq Indices
      /\ DiskHighest \in OpenDBs
      /\ \A i \in OpenDBs : dirs[i] \in Database
    BY OpenIs
<1>2. OpenDBs' = DiskHighest' - Shards + 1 .. DiskHighest'
    BY DEF OpenDBs
<1>3. SUFFICES ASSUME NEW k \in Keys, NEW i \in OpenDBs',
                      dirs'[i].value[k] # None,
                      \A j \in OpenDBs' : j > i => dirs'[j].value[k] = None
               PROVE  dirs'[i].value[k] = latest'[k]
    BY DEF LatestInv
<1>4. CASE SameView
    BY <1>1, <1>2, <1>3, <1>4 DEF SameView, LatestInv
<1>5. CASE RotateView
    <2>1. i # DiskHighest + 1
        BY <1>3, <1>5, EmptyDBType DEF RotateView
    <2>2. i \in OpenDBs /\ \A j \in OpenDBs : j > i => j \in OpenDBs'
        BY <1>1, <1>2, <1>5, <2>1, BoundsAssumption DEF RotateView
    <2> QED
        BY <1>3, <1>5, <2>2 DEF RotateView, LatestInv
<1>6. ASSUME NEW l \in Keys, NEW v \in Values, WriteView(l, v)
      PROVE  dirs'[i].value[k] = latest'[k]
    <2>1. /\ dirs' = [dirs EXCEPT ![DiskHighest] = Put(dirs[DiskHighest], l, v)]
          /\ latest' = [latest EXCEPT ![l] = v]
          /\ OpenDBs' = OpenDBs
        BY <1>1, <1>2, <1>6 DEF WriteView
    <2>2. DiskHighest \in DOMAIN dirs /\ DOMAIN latest = Keys
        BY <1>1 DEF TypeOK
    <2>3. \A j \in OpenDBs \ {DiskHighest} : dirs'[j] = dirs[j]
        BY <2>1
    <2>4. /\ dirs'[DiskHighest].value[l] = v
          /\ \A m \in Keys \ {l} : dirs'[DiskHighest].value[m] = dirs[DiskHighest].value[m]
        BY <1>1, <2>1, <2>2, PutType
    <2>5. CASE k = l
        <3>1. v # None
            BY ConstantsAssumption
        <3>2. i = DiskHighest
            BY <1>1, <1>3, <2>1, <2>4, <2>5, <3>1
        <3> QED
            BY <2>1, <2>2, <2>4, <2>5, <3>2
    <2>6. CASE k # l
        <3>1. \A j \in OpenDBs : dirs'[j].value[k] = dirs[j].value[k]
            BY <2>3, <2>4, <2>6
        <3>2. latest'[k] = latest[k]
            BY <2>1, <2>2, <2>6
        <3> QED
            BY <1>3, <2>1, <3>1, <3>2 DEF LatestInv
    <2> QED
        BY <2>5, <2>6
<1>7. ASSUME NEW b \in Blocks, NEW s \in Signers, AddView(b, s)
      PROVE  dirs'[i].value[k] = latest'[k]
    <2>1. PICK m \in OpenDBs : dirs' = [dirs EXCEPT ![m] = PutEntry(dirs[m], b, s)]
        BY <1>7 DEF AddView
    <2>2. \A j \in OpenDBs : dirs'[j].value = dirs[j].value
        BY <1>1, <2>1, PutEntryType DEF TypeOK
    <2>3. OpenDBs' = OpenDBs /\ latest' = latest
        BY <1>1, <1>2, <1>7 DEF AddView
    <2> QED
        BY <1>3, <2>2, <2>3 DEF LatestInv
<1> QED
    BY <1>4, <1>5, <1>6, <1>7 DEF View

LEMMA SetStep ==
    ASSUME TypeOK, DirInv, SetInv, View
    PROVE  SetInv'
<1>1. /\ DiskHighest \in Shards .. LastIndex
      /\ OpenDBs = DiskHighest - Shards + 1 .. DiskHighest
      /\ OpenDBs \subseteq Indices
      /\ DiskHighest \in OpenDBs
      /\ \A i \in OpenDBs : dirs[i] \in Database
    BY OpenIs
<1>2. OpenDBs' = DiskHighest' - Shards + 1 .. DiskHighest'
    BY DEF OpenDBs
<1>3. CASE SameView
    BY <1>1, <1>2, <1>3 DEF SameView, SetInv
<1>4. CASE RotateView
    <2>1. \A i \in OpenDBs' : i \in OpenDBs \/ i = DiskHighest + 1
        BY <1>1, <1>2, <1>4, BoundsAssumption DEF RotateView
    <2>2. \A b \in Blocks : /\ dirs'[DiskHighest + 1].count[b] = 0
                            /\ dirs'[DiskHighest + 1].entries[b] = {}
        BY <1>4, EmptyDBType DEF RotateView
    <2>3. dirs' = dirs
        BY <1>4 DEF RotateView
    <2> QED
        BY <2>1, <2>2, <2>3, FS_EmptySet DEF SetInv
<1>5. ASSUME NEW l \in Keys, NEW v \in Values, WriteView(l, v)
      PROVE  SetInv'
    <2>1. /\ dirs' = [dirs EXCEPT ![DiskHighest] = Put(dirs[DiskHighest], l, v)]
          /\ OpenDBs' = OpenDBs
        BY <1>1, <1>2, <1>5 DEF WriteView
    <2>2. \A j \in OpenDBs : dirs'[j].count = dirs[j].count /\ dirs'[j].entries = dirs[j].entries
        BY <1>1, <2>1, PutType DEF TypeOK
    <2> QED
        BY <2>1, <2>2 DEF SetInv
<1>6. ASSUME NEW b \in Blocks, NEW s \in Signers, AddView(b, s)
      PROVE  SetInv'
    <2>1. PICK m \in OpenDBs :
            /\ \/ dirs[m].count[b] # 0
               \/ m = DiskHighest /\ \A j \in OpenDBs : dirs[j].count[b] = 0
            /\ dirs' = [dirs EXCEPT ![m] = PutEntry(dirs[m], b, s)]
        BY <1>6 DEF AddView
    <2>2. OpenDBs' = OpenDBs /\ s \notin dirs[m].entries[b]
        BY <1>1, <1>2, <1>6 DEF AddView, EntryExists
    <2>3. \A j \in OpenDBs \ {m} : dirs'[j] = dirs[j]
        BY <2>1
    <2>4. /\ dirs'[m].entries[b] = dirs[m].entries[b] \cup {s}
          /\ dirs'[m].count[b] = dirs[m].count[b] + 1
          /\ \A c \in Blocks \ {b} : /\ dirs'[m].entries[c] = dirs[m].entries[c]
                                     /\ dirs'[m].count[c] = dirs[m].count[c]
        BY <1>1, <2>1, PutEntryType DEF TypeOK
    <2>5. dirs[m].entries[b] \in SUBSET Signers /\ dirs[m].count[b] \in Nat
        BY <1>1 DEF Database
    <2>6. Cardinality(dirs[m].entries[b] \cup {s}) = Cardinality(dirs[m].entries[b]) + 1
        BY <2>2, <2>5, ConstantsAssumption, FS_Subset, FS_AddElement
    <2>7. \A c \in Blocks, i \in OpenDBs : dirs'[i].count[c] = Cardinality(dirs'[i].entries[c])
        <3> TAKE c \in Blocks, i \in OpenDBs
        <3>1. dirs[i].count[c] = Cardinality(dirs[i].entries[c])
            BY DEF SetInv
        <3>2. CASE i # m
            BY <2>3, <3>1, <3>2
        <3>3. CASE i = m /\ c # b
            BY <2>4, <3>1, <3>3
        <3>4. CASE i = m /\ c = b
            BY <2>4, <2>6, <3>1, <3>4
        <3> QED
            BY <3>2, <3>3, <3>4
    <2>8. \A j \in OpenDBs \ {m} : dirs[j].count[b] = 0
        BY <2>1 DEF SetInv
    <2>9. \A c \in Blocks : \A i, j \in OpenDBs :
            dirs'[i].count[c] # 0 /\ dirs'[j].count[c] # 0 => i = j
        BY <2>3, <2>4, <2>8 DEF SetInv
    <2> QED
        BY <2>2, <2>7, <2>9 DEF SetInv
<1> QED
    BY <1>3, <1>4, <1>5, <1>6 DEF View

-----------------------------------------------------------------------------
(* The theorems.                                                           *)

IInv == TypeOK /\ DirInv /\ LatestInv /\ SetInv

LEMMA InitHolds == Init => IInv
<1> SUFFICES ASSUME Init PROVE IInv
    OBVIOUS
<1>1. TypeOK
    <2>1. thread \in [Writers -> Threads] /\ dirs \in [Indices -> Database]
        BY EmptyDBType DEF Init, Threads
    <2> QED
        <3>1. /\ found = {} /\ highest = 0 /\ closed = FALSE /\ faults = 0
              /\ latest \in [Keys -> Values \cup {None}]
            BY DEF Init
        <3>2. ~Running /\ closed \in BOOLEAN
            BY <3>1 DEF Running
        <3> QED
            BY <2>1, <3>1, <3>2, BoundsAssumption DEF TypeOK
<1>2. IsTop(Shards)
    BY BoundsAssumption DEF Init, IsTop
<1>3. DirInv
    BY <1>2, BoundsAssumption DEF Init, DirInv
<1>4. \A i \in OpenDBs : dirs[i] = EmptyDB
    BY <1>1, <1>3, OpenIs DEF Init
<1>5. LatestInv
    BY <1>4, EmptyDBType DEF LatestInv
<1>6. SetInv
    BY <1>4, EmptyDBType, FS_EmptySet DEF SetInv
<1> QED
    BY <1>1, <1>3, <1>5, <1>6 DEF IInv

\* Every step keeps the inductive invariant, and is of one of the four kinds.
LEMMA StepHolds == IInv /\ [Next]_vars => IInv' /\ View
<1> SUFFICES ASSUME IInv, [Next]_vars PROVE IInv' /\ View
    OBVIOUS
<1>1. Kept
    BY StepKinds DEF IInv
<1> QED
    BY <1>1, LatestStep, SetStep DEF IInv, Kept

\* The inductive invariant holds in every reachable state.
THEOREM Invariance == Spec => []IInv
BY InitHolds, StepHolds, PTL DEF Spec

\* The databases that are open are on the disk, whatever threads rotate and
\* whenever the process dies.
THEOREM TypeCorrect == Spec => []TypeOK
<1>1. IInv => TypeOK
    BY DEF IInv
<1> QED
    BY <1>1, Invariance, PTL

\* What ReadString and ReadCount return, from the newest holder.
LEMMA ReadIs ==
    ASSUME IInv, NEW k \in Keys
    PROVE  /\ ReadString(k) \in {latest[k], None}
           /\ ReadString(k) # None => KeyExists(k)
<1> DEFINE holders == {i \in OpenDBs : dirs[i].value[k] # None}
<1>1. CASE holders = {}
    BY <1>1 DEF ReadString, KeyExists
<1>2. CASE holders # {}
    <2>1. DiskHighest \in Int /\ holders \in SUBSET Int /\ \A i \in holders : i <= DiskHighest
        BY OpenIs, BoundsAssumption DEF IInv
    <2>2. PICK h \in holders : \A i \in holders : i <= h
        BY <1>2, <2>1, BoundedHasHighest
    <2>3. HighestOf(holders) = h
        BY <2>1, <2>2, HighestOfIs
    <2>4. ReadString(k) = dirs[h].value[k]
        BY <1>2, <2>3 DEF ReadString
    <2>5. \A j \in OpenDBs : j > h => dirs[j].value[k] = None
        BY <2>1, <2>2
    <2>6. dirs[h].value[k] = latest[k]
        BY <2>2, <2>5 DEF IInv, LatestInv
    <2> QED
        BY <2>2, <2>4, <2>6 DEF KeyExists
<1> QED
    BY <1>1, <1>2

\* A key reads as its latest value or as none.
THEOREM ReadsLatestHolds == Spec => []ReadsLatest
<1>1. IInv => ReadsLatest
    BY ReadIs DEF ReadsLatest
<1> QED
    BY <1>1, Invariance, PTL

\* The counter of a set is the number of its entries.
THEOREM CountMatchesHolds == Spec => []CountMatches
<1>1. ASSUME IInv, NEW b \in Blocks
      PROVE  ReadCount(b) = Cardinality(ReadSet(b))
    <2> DEFINE holders == {i \in OpenDBs : dirs[i].count[b] # 0}
    <2>1. /\ \A i \in OpenDBs : /\ dirs[i].count[b] = Cardinality(dirs[i].entries[b])
                                /\ dirs[i].entries[b] \in SUBSET Signers
                                /\ IsFiniteSet(dirs[i].entries[b])
          /\ OpenDBs \in SUBSET Int
        BY <1>1, OpenIs, ConstantsAssumption, FS_Subset, BoundsAssumption
           DEF IInv, SetInv, Database
    <2>2. \A i \in OpenDBs : dirs[i].count[b] = 0 => dirs[i].entries[b] = {}
        BY <2>1, FS_EmptySet
    <2>3. CASE holders = {}
        <3>1. ReadSet(b) = {}
            BY <2>2, <2>3 DEF ReadSet, EntryExists
        <3> QED
            BY <2>3, <3>1, FS_EmptySet DEF ReadCount
    <2>4. CASE holders # {}
        <3>1. PICK h \in holders : \A i \in holders : i = h
            BY <1>1, <2>4 DEF IInv, SetInv
        <3>2. HighestOf(holders) = h
            BY <2>1, <3>1, HighestOfIs
        <3>3. ReadCount(b) = dirs[h].count[b]
            BY <2>4, <3>2 DEF ReadCount
        <3>4. ReadSet(b) = dirs[h].entries[b]
            BY <2>1, <2>2, <3>1 DEF ReadSet, EntryExists
        <3> QED
            BY <2>1, <3>1, <3>3, <3>4
    <2> QED
        BY <2>3, <2>4
<1>2. IInv => CountMatches
    BY <1>1 DEF CountMatches
<1> QED
    BY <1>2, Invariance, PTL

\* A value that is written once does not change while it can be read.
THEOREM WrittenOnceHolds == Spec => WrittenOnce
<1>1. IInv => ReadsLatest
    BY ReadIs DEF ReadsLatest
<1>2. IInv' => ReadsLatest'
    BY <1>1, PTL
<1>3. ASSUME IInv, IInv', View, NEW k \in Keys \ Overwritten,
             ReadString(k) # None, ReadString(k)' # None
      PROVE  ReadString(k)' = ReadString(k)
    <2>1. ReadString(k) = latest[k] /\ KeyExists(k)
        BY <1>3, ReadIs
    <2>2. ReadString(k)' = latest'[k]
        BY <1>2, <1>3 DEF ReadsLatest
    <2>3. latest'[k] = latest[k]
        BY <1>3, <2>1 DEF View, SameView, RotateView, WriteView, AddView, IInv, TypeOK
    <2> QED
        BY <2>1, <2>2, <2>3
<1>4. IInv /\ [Next]_vars => [\A k \in Keys \ Overwritten :
        ReadString(k) # None /\ ReadString(k)' # None => ReadString(k)' = ReadString(k)]_vars
    BY <1>3, StepHolds
<1> QED
    BY <1>4, Invariance, PTL DEF Spec, WrittenOnce

-----------------------------------------------------------------------------
(* The refinement.                                                         *)

\* The generations that the databases stand for.
Gens == [j \in 1 .. Shards |-> dirs[DiskHighest - Shards + j]]

LEMMA GensIs ==
    ASSUME IInv
    PROVE  /\ \A j \in 1 .. Shards : /\ DiskHighest - Shards + j \in OpenDBs
                                     /\ Gens[j] = dirs[DiskHighest - Shards + j]
           /\ \A i \in OpenDBs : /\ i - DiskHighest + Shards \in 1 .. Shards
                                 /\ Gens[i - DiskHighest + Shards] = dirs[i]
           /\ Gens[Shards] = dirs[DiskHighest]
<1>1. /\ DiskHighest \in Shards .. LastIndex
      /\ OpenDBs = DiskHighest - Shards + 1 .. DiskHighest
    BY OpenIs DEF IInv
<1>2. \A j \in 1 .. Shards : Gens[j] = dirs[DiskHighest - Shards + j]
    BY DEF Gens
<1>3. \A j \in 1 .. Shards : DiskHighest - Shards + j \in OpenDBs
    BY <1>1, BoundsAssumption
<1>4. \A i \in OpenDBs : /\ i - DiskHighest + Shards \in 1 .. Shards
                         /\ DiskHighest - Shards + (i - DiskHighest + Shards) = i
    BY <1>1, BoundsAssumption
<1>5. Shards \in 1 .. Shards /\ DiskHighest - Shards + Shards = DiskHighest
    BY <1>1, BoundsAssumption
<1> QED
    BY <1>2, <1>3, <1>4, <1>5

\* CacheLevelDB implements RotatingStore: a step that changes what can be read
\* is a write, an added entry or a rotation of the store.
THEOREM Refinement == Spec => ImplementsStore
<1>1. Init => Store!Init
    <2> SUFFICES ASSUME Init PROVE Store!Init
        OBVIOUS
    <2>1. IInv
        BY InitHolds
    <2>2. \A i \in OpenDBs : dirs[i] = EmptyDB
        BY <2>1, OpenIs DEF IInv, Init
    <2>3. \A j \in 1 .. Shards : dirs[DiskHighest - Shards + j] = EmptyDB
        BY <2>1, <2>2, GensIs
    <2> QED
        BY <2>3 DEF Store!Init, Store!Empty, EmptyDB
<1>2. ASSUME IInv, View
      PROVE  [Store!Next]_Gens
    <2>1. /\ DiskHighest \in Shards .. LastIndex
          /\ OpenDBs = DiskHighest - Shards + 1 .. DiskHighest
          /\ OpenDBs \subseteq Indices
          /\ DiskHighest \in OpenDBs
        BY <1>2, OpenIs DEF IInv
    <2>2. /\ \A j \in 1 .. Shards : /\ DiskHighest - Shards + j \in OpenDBs
                                    /\ Gens[j] = dirs[DiskHighest - Shards + j]
          /\ Gens[Shards] = dirs[DiskHighest]
        BY <1>2, GensIs
    <2>3. Gens' = [j \in 1 .. Shards |-> dirs'[DiskHighest' - Shards + j]]
        BY DEF Gens
    <2>4. CASE SameView
        <3>1. \A j \in 1 .. Shards : dirs'[DiskHighest' - Shards + j] = dirs[DiskHighest - Shards + j]
            BY <2>2, <2>4 DEF SameView
        <3>2. Gens' = Gens
            BY <2>3, <3>1 DEF Gens
        <3> QED
            BY <3>2
    <2>5. CASE RotateView
        <3>1. Gens[Shards].size > MaxDBSize
            BY <2>2, <2>5 DEF RotateView
        <3>2. \A j \in 1 .. Shards : dirs'[DiskHighest' - Shards + j] =
                IF j = Shards THEN EmptyDB ELSE Gens[j + 1]
            <4> TAKE j \in 1 .. Shards
            <4>1. CASE j = Shards
                BY <2>1, <2>5, <4>1, BoundsAssumption DEF RotateView
            <4>2. CASE j # Shards
                <5>1. j + 1 \in 1 .. Shards
                    BY <4>2, BoundsAssumption
                <5>2. DiskHighest' - Shards + j = DiskHighest - Shards + (j + 1)
                    BY <2>1, <2>5, BoundsAssumption DEF RotateView
                <5> QED
                    BY <2>2, <2>5, <4>2, <5>1, <5>2 DEF RotateView
            <4> QED
                BY <4>1, <4>2
        <3>3. Gens' = [j \in 1 .. Shards |-> IF j = Shards THEN EmptyDB ELSE Gens[j + 1]]
            BY <2>3, <3>2
        <3>4. Store!Empty = EmptyDB
            BY DEF Store!Empty, EmptyDB
        <3>5. Store!Rotate
            BY <3>1, <3>3, <3>4 DEF Store!Rotate, Gens
        <3> QED
            BY <3>5 DEF Store!Next
    <2>6. ASSUME NEW k \in Keys, NEW v \in Values, WriteView(k, v)
          PROVE  Store!Next
        <3>1. /\ dirs' = [dirs EXCEPT ![DiskHighest] = Put(dirs[DiskHighest], k, v)]
              /\ DiskHighest' = DiskHighest
            BY <2>6 DEF WriteView
        <3>2. \A j \in 1 .. Shards : dirs'[DiskHighest' - Shards + j] =
                IF j = Shards THEN Put(Gens[Shards], k, v) ELSE Gens[j]
            <4> TAKE j \in 1 .. Shards
            <4>1. /\ DiskHighest - Shards + j \in Indices
                  /\ DiskHighest - Shards + j = DiskHighest <=> j = Shards
                BY <2>1, <2>2, BoundsAssumption
            <4> QED
                BY <1>2, <2>2, <3>1, <4>1 DEF IInv, TypeOK
        <3>3. Gens' = [Gens EXCEPT ![Shards] = Put(Gens[Shards], k, v)]
            BY <2>3, <3>2 DEF Gens
        <3>4. k \in Overwritten \/ \A j \in 1 .. Shards : Gens[j].value[k] = None
            BY <2>2, <2>6 DEF WriteView, KeyExists
        <3>5. Store!Write(k, v)
            BY <3>3, <3>4 DEF Store!Write, Store!PutValue, Put, Gens
        <3> QED
            BY <3>5 DEF Store!Next
    <2>7. ASSUME NEW b \in Blocks, NEW s \in Signers, AddView(b, s)
          PROVE  Store!Next
        <3>1. PICK m \in OpenDBs :
                /\ \/ dirs[m].count[b] # 0
                   \/ m = DiskHighest /\ \A j \in OpenDBs : dirs[j].count[b] = 0
                /\ dirs' = [dirs EXCEPT ![m] = PutEntry(dirs[m], b, s)]
            BY <2>7 DEF AddView
        <3> DEFINE g == m - DiskHighest + Shards
        <3>2. g \in 1 .. Shards /\ Gens[g] = dirs[m]
            BY <1>2, GensIs
        <3>3. DiskHighest' = DiskHighest
            BY <2>7 DEF AddView
        <3>4. \A j \in 1 .. Shards : dirs'[DiskHighest' - Shards + j] =
                IF j = g THEN PutEntry(Gens[g], b, s) ELSE Gens[j]
            <4> TAKE j \in 1 .. Shards
            <4>1. /\ DiskHighest - Shards + j \in Indices
                  /\ DiskHighest - Shards + j = m <=> j = g
                BY <2>1, <2>2, BoundsAssumption
            <4> HIDE DEF g
            <4> QED
                BY <1>2, <2>2, <3>1, <3>2, <3>3, <4>1 DEF IInv, TypeOK
        <3>5. \/ Gens[g].count[b] # 0
              \/ g = Shards /\ \A i \in 1 .. Shards : Gens[i].count[b] = 0
            <4>1. CASE dirs[m].count[b] # 0
                BY <3>2, <4>1
            <4>2. CASE m = DiskHighest /\ \A j \in OpenDBs : dirs[j].count[b] = 0
                <5>1. g = Shards
                    BY <2>1, <4>2, BoundsAssumption
                <5>2. \A i \in 1 .. Shards : Gens[i].count[b] = 0
                    BY <2>2, <4>2
                <5> QED
                    BY <5>1, <5>2
            <4> QED
                BY <3>1, <4>1, <4>2
        <3>6. \A j \in 1 .. Shards : s \notin Gens[j].entries[b]
            BY <2>2, <2>7 DEF AddView, EntryExists
        <3> HIDE DEF g
        <3>7. Gens' = [Gens EXCEPT ![g] = PutEntry(Gens[g], b, s)]
            BY <2>3, <3>2, <3>4 DEF Gens
        <3>8. Store!Add(b, s)
            BY <3>2, <3>5, <3>6, <3>7 DEF Store!Add, Store!AddEntry, PutEntry, Gens
        <3> QED
            BY <3>8 DEF Store!Next
    <2> QED
        BY <1>2, <2>4, <2>5, <2>6, <2>7 DEF View
<1>3. IInv /\ [Next]_vars => [Store!Next]_Gens
    BY <1>2, StepHolds
<1>4. Spec => Store!Init /\ [][Store!Next]_Gens
    BY <1>1, <1>3, Invariance, PTL DEF Spec
<1> QED
    BY <1>4, PTL DEF ImplementsStore, Store!Spec, Gens
=============================================================================
