-------------------------- MODULE DeleteDataProofs --------------------------
(***************************************************************************)
(* For any threads, chunks, manifests and vector size: delete data does not *)
(* change under a reader that has left the lock, only rows with a live      *)
(* delete are dropped, after whatever failures, and without failures the    *)
(* result is exact.                                                         *)
(***************************************************************************)
EXTENDS DeleteData, ManifestReaderProofs

\* A live entry of the delete manifests, and the keys of what all of them
\* delete.
LiveEntry(e) ==
    /\ e \in Nat \X Nat
    /\ e[1] \in 1 .. Len(delete_manifests)
    /\ e[2] \in 1 .. Len(delete_manifests[e[1]])
    /\ delete_manifests[e[1]][e[2]].status # "DELETED"

IsLive(key, row) == \E d \in LiveDeletes : Key(d[1]) = key /\ d[2] = row

-----------------------------------------------------------------------------
(* The inductive invariant *)

\* The threads inside the lock are the one that holds it.
Locks ==
    /\ pc \in [Threads -> PC]
    /\ delete_lock \in Threads \cup {NoThread}
    /\ \A t \in Threads : pc[t] \in Holding <=> delete_lock = t

\* The reader has the manifest open that the iterator points to.
Reading == \E t \in Threads : pc[t] = "read"
ManifestRows(m) ==
    [k \in 1 .. Len(delete_manifests[m]) |-> delete_manifests[m][k].status]
ReaderInv ==
    /\ ReaderOK(delete_reader)
    /\ delete_reader.skip_deleted = TRUE
    /\ ~Reading => delete_reader.at = "out"
    /\ Reading \/ ~Finished(delete_reader) =>
           /\ ~AtEnd
           /\ delete_reader.file = ManifestRows(current_delete_manifest)

\* What ProcessDeletes collects and what it adds are live deletes.
ListInv ==
    /\ delete_manifests \in DeleteManifests
    /\ current_delete_manifest \in 1 .. Len(delete_manifests) + 1
    /\ delete_files \in Seq(Nat \X Nat)
    /\ \A k \in 1 .. Len(delete_files) : LiveEntry(delete_files[k])
    /\ scanning \in Nat \ {0}
    /\ position \in Nat
    /\ \A d \in delete_data : d[2] \in Nat /\ IsLive(d[1], d[2])

\* Past the manifests there is nothing more to process; while a thread reads
\* delete data without the lock, no thread is about to change it.
PastManifests ==
    /\ \A t \in Threads : pc[t] \in {"scan", "find", "apply"} => AtEnd
    /\ (\E t \in Threads : pc[t] = "apply") =>
           \A t \in Threads : pc[t] \notin {"manifests", "read", "scan"}

\* A thread at work has a chunk; the rows that Apply is past are kept or
\* deleted.
ThreadInv ==
    /\ chunk \in [Threads -> Chunks \cup {NoChunk}]
    /\ tuple \in [Threads -> Nat \ {0}]
    /\ kept \in [Threads -> SUBSET Nat]
    /\ \A t \in Threads : pc[t] # "idle" => chunk[t] \in Chunks
    /\ \A t \in Threads : pc[t] = "apply" =>
           \A j \in 1 .. Len(chunk[t].rows) :
               j < tuple[t] => \/ chunk[t].rows[j] \in kept[t]
                               \/ IsLive(Key(chunk[t].file), chunk[t].rows[j])

\* Every chunk of an execution that has not failed is waiting, at work, or
\* passed on without the rows that are deleted.
PassedOn(c) ==
    \A j \in 1 .. Len(c.rows) : \/ <<c.file, c.rows[j]>> \in emitted
                                \/ IsLive(Key(c.file), c.rows[j])
QueryInv ==
    /\ todo \in SUBSET Chunks
    /\ emitted \subseteq DataFiles \X Nat
    /\ query \in {"running", "failed", "finished"}
    /\ failures \in 0 .. MaxFailures
    /\ query # "failed" =>
           \A c \in Chunks : \/ c \in todo
                             \/ \E t \in Threads : pc[t] # "idle" /\ chunk[t] = c
                             \/ PassedOn(c)
    /\ query = "finished" => todo = {} /\ AllIdle

Inv == Locks /\ ReaderInv /\ ListInv /\ PastManifests /\ ThreadInv /\ QueryInv

-----------------------------------------------------------------------------
(* The initial states *)

\* Before the query there is no delete data and every thread is idle.
LEMMA InitInv == Init => Inv
<1> SUFFICES ASSUME Init PROVE Inv
  OBVIOUS
<1>1. Locks
  BY ThreadsAssumption DEF Init, Locks, PC, Holding
<1>2. ReaderInv
  <2>1. delete_reader = NewReader(TRUE) /\ ~Reading
    BY DEF Init, Reading
  <2>2. ReaderOK(delete_reader) /\ Finished(delete_reader)
    BY <2>1, NewReaderOK
  <2>3. delete_reader.skip_deleted = TRUE /\ delete_reader.at = "out"
    BY <2>1 DEF NewReader
  <2> QED
    BY <2>1, <2>2, <2>3 DEF ReaderInv
<1>3. ListInv
  <2>1. Len(delete_manifests) \in Nat
    BY ManifestsAssumption DEF Init
  <2> QED
    BY <2>1 DEF Init, ListInv
<1>4. PastManifests
  BY DEF Init, PastManifests
<1>5. ThreadInv
  BY DEF Init, ThreadInv
<1>6. QueryInv
  BY FailuresAssumption DEF Init, QueryInv
<1> QED
  BY <1>1, <1>2, <1>3, <1>4, <1>5, <1>6 DEF Inv

-----------------------------------------------------------------------------
(* The lock *)

\* A thread stays inside the lock or outside.
LEMMA GotoLocks ==
    ASSUME Locks, NEW t \in Threads, NEW label \in PC, Goto(t, label),
           UNCHANGED delete_lock, label \in Holding <=> pc[t] \in Holding
    PROVE  Locks'
BY DEF Locks, Goto

\* The holder leaves the lock.
LEMMA UnlockLocks ==
    ASSUME Locks, NEW t \in Threads, NEW label \in PC \ Holding, Goto(t, label),
           pc[t] \in Holding, delete_lock' = NoThread
    PROVE  Locks'
BY ThreadsAssumption DEF Locks, Goto

\* Only one thread is inside.
LEMMA Alone ==
    ASSUME Locks, NEW t \in Threads, pc[t] \in Holding
    PROVE  \A u \in Threads \ {t} : pc[u] \notin Holding
BY DEF Locks

\* The steps of a thread, by where it stands.
Moves(t) ==
    \/ FinalizeChunk(t) \/ Lock(t) \/ CheckManifests(t) \/ Apply(t) \/ Slice(t)
    \/ GetDeletesForFile(t)

\* A thread that throws is back with DuckDB, and the list keeps its state.
LEMMA ThrowFacts ==
    ASSUME NEW t \in Threads, OpenFails(t) \/ ScanFails(t)
    PROVE  /\ Throw(t)
           /\ pc[t] \in {"manifests", "scan"}
           /\ Goto(t, "idle") /\ delete_lock' = NoThread
           /\ UNCHANGED listVars
           /\ delete_files' = <<>> /\ scanning' = 1 /\ position' = 0
BY DEF OpenFails, ScanFails, Throw

\* Every step takes and gives back delete_lock as its label says.
LEMMA LockSteps ==
    ASSUME Locks, NEW t \in Threads, Thread(t)
    PROVE  Locks'
<1>1. CASE FinalizeChunk(t)
  BY <1>1, GotoLocks DEF FinalizeChunk, PC, Holding
<1>2. CASE Lock(t)
  BY <1>2, ThreadsAssumption DEF Lock, Locks, Goto, PC, Holding
<1>3. CASE CheckManifests(t)
  BY <1>3, GotoLocks DEF CheckManifests, PC, Holding
<1>4. CASE OpenManifest(t) \/ ContinueManifest(t)
  BY <1>4, GotoLocks DEF OpenManifest, ContinueManifest, PC, Holding
<1>5. CASE OpenFails(t) \/ ScanFails(t)
  BY <1>5, ThrowFacts, UnlockLocks DEF PC, Holding
<1>6. CASE ReadManifest(t) \/ ScanDeleteFile(t)
  BY <1>6 DEF ReadManifest, ScanDeleteFile, Locks
<1>7. CASE ManifestRead(t) \/ ManifestsRead(t) \/ DeletesProcessed(t)
  BY <1>7, GotoLocks
     DEF ManifestRead, ManifestsRead, DeletesProcessed, PC, Holding
<1>8. CASE GetDeletesForFile(t)
  BY <1>8, UnlockLocks DEF GetDeletesForFile, PC, Holding
<1>9. CASE Apply(t)
  BY <1>9 DEF Apply, Locks
<1>10. CASE Slice(t)
  BY <1>10, GotoLocks DEF Slice, PC, Holding
<1> QED
  BY <1>1, <1>2, <1>3, <1>4, <1>5, <1>6, <1>7, <1>8, <1>9, <1>10
     DEF Thread, ProcessDeletes

-----------------------------------------------------------------------------
(* The reader and the iterator *)

\* A thread that is not in a manifest, before or after, leaves Reading alone.
LEMMA NotReading ==
    ASSUME Locks, NEW t \in Threads, NEW label, Goto(t, label),
           label # "read", pc[t] # "read"
    PROVE  Reading' <=> Reading
BY DEF Locks, Goto, Reading

\* The rows of a delete manifest are the statuses of its entries.
LEMMA ManifestFacts ==
    ASSUME delete_manifests \in DeleteManifests,
           NEW m \in 1 .. Len(delete_manifests)
    PROVE  /\ ManifestRows(m) \in Seq(RowStatus)
           /\ Len(ManifestRows(m)) = Len(delete_manifests[m])
           /\ \A k \in 1 .. Len(delete_manifests[m]) :
                  /\ ManifestRows(m)[k] = delete_manifests[m][k].status
                  /\ delete_manifests[m][k] \in DeleteEntry
<1>1. delete_manifests[m] \in Seq(DeleteEntry)
  BY ManifestsAssumption
<1>2. \A k \in 1 .. Len(delete_manifests[m]) :
        /\ delete_manifests[m][k] \in DeleteEntry
        /\ delete_manifests[m][k].status \in RowStatus
  <2>1. ASSUME NEW k \in 1 .. Len(delete_manifests[m])
        PROVE  delete_manifests[m][k] \in DeleteEntry
    BY <1>1
  <2>2. \A e \in DeleteEntry : e.status \in RowStatus
    BY DEF DeleteEntry, RowStatus
  <2> QED
    BY <2>1, <2>2
<1>3. Len(delete_manifests[m]) \in Nat
  BY <1>1
<1> QED
  BY <1>2, <1>3 DEF ManifestRows

\* Where ProcessDeletes stands in a manifest or before one.
LEMMA InManifests ==
    ASSUME Inv, NEW t \in Threads, pc[t] \in {"manifests", "read"}
    PROVE  /\ Reading <=> pc[t] = "read"
           /\ current_delete_manifest \in Nat
           /\ ~AtEnd => current_delete_manifest \in 1 .. Len(delete_manifests)
           /\ Len(delete_manifests) \in Nat
<1>1. \A u \in Threads \ {t} : pc[u] # "read"
  BY Alone DEF Inv, Holding
<1>2. Len(delete_manifests) \in Nat
  BY ManifestsAssumption DEF Inv, ListInv
<1> QED
  BY <1>1, <1>2 DEF Inv, ListInv, Reading, AtEnd

\* The reader of delete manifests stays consistent, whoever holds the lock.
LEMMA ReaderSteps ==
    ASSUME Inv, NEW t \in Threads, Thread(t)
    PROVE  ReaderInv'
<1>1. Locks /\ ReaderInv /\ ListInv
  BY DEF Inv
<1>2. ASSUME NEW label, Goto(t, label), label # "read", pc[t] # "read",
             UNCHANGED <<delete_manifests, current_delete_manifest,
                         delete_reader>>
      PROVE  ReaderInv'
  BY <1>1, <1>2, NotReading DEF ReaderInv, AtEnd, ManifestRows
<1>3. CASE Moves(t) /\ ~Apply(t)
  BY <1>2, <1>3
     DEF Moves, FinalizeChunk, Lock, CheckManifests, Slice, GetDeletesForFile,
         listVars
<1>4. CASE Apply(t) \/ ScanDeleteFile(t)
  BY <1>1, <1>4
     DEF Apply, ScanDeleteFile, listVars, ReaderInv, Reading, AtEnd, ManifestRows
<1>5. CASE OpenFails(t) \/ ScanFails(t)
  BY <1>2, <1>5, ThrowFacts DEF listVars
<1>6. CASE ManifestsRead(t) \/ DeletesProcessed(t)
  BY <1>2, <1>6 DEF ManifestsRead, DeletesProcessed, listVars
<1>7. CASE OpenManifest(t)
  <2> DEFINE rows == ManifestRows(current_delete_manifest)
             opened == Initialize(delete_reader, rows)
  <2>1. /\ ~AtEnd /\ Finished(delete_reader) /\ Goto(t, "read")
        /\ delete_reader' = ReadEntries(opened, STANDARD_VECTOR_SIZE)
        /\ pc[t] = "manifests"
        /\ UNCHANGED <<delete_manifests, current_delete_manifest>>
    BY <1>7 DEF OpenManifest, ManifestRows
  <2>2. rows \in Seq(RowStatus)
    BY <1>1, <2>1, InManifests, ManifestFacts DEF ListInv
  <2> HIDE DEF rows
  <2>3. /\ ReaderOK(opened) /\ ~Finished(opened) /\ opened.at = "out"
        /\ opened.file = rows /\ opened.skip_deleted = TRUE
    BY <1>1, <2>1, <2>2, InitializeOK DEF ReaderInv
  <2> HIDE DEF opened
  <2>4. /\ ReaderOK(delete_reader') /\ delete_reader'.file = rows
        /\ delete_reader'.skip_deleted = TRUE
    BY <2>1, <2>3, ReadEntriesOK, VectorSizeAssumption
  <2>5. Reading'
    BY <1>1, <2>1 DEF Goto, Reading, Locks
  <2> QED
    BY <2>1, <2>4, <2>5 DEF ReaderInv, AtEnd, rows, ManifestRows
<1>8. CASE ContinueManifest(t)
  <2>1. /\ ~AtEnd /\ ~Finished(delete_reader) /\ Goto(t, "read")
        /\ delete_reader' = ReadEntries(delete_reader, STANDARD_VECTOR_SIZE)
        /\ pc[t] = "manifests"
        /\ UNCHANGED <<delete_manifests, current_delete_manifest>>
    BY <1>8 DEF ContinueManifest
  <2>2. ReaderOK(delete_reader) /\ delete_reader.at = "out"
    BY <1>1, <2>1, InManifests DEF ReaderInv
  <2>3. /\ ReaderOK(delete_reader') /\ delete_reader'.file = delete_reader.file
        /\ delete_reader'.skip_deleted = delete_reader.skip_deleted
    BY <2>1, <2>2, ReadEntriesOK, VectorSizeAssumption
  <2>4. Reading'
    BY <1>1, <2>1 DEF Goto, Reading, Locks
  <2> QED
    BY <1>1, <2>1, <2>3, <2>4 DEF ReaderInv, AtEnd, ManifestRows
<1>9. CASE ReadManifest(t)
  <2>1. /\ \/ ReadLoop(delete_reader, delete_reader')
           \/ EndOfCallback(delete_reader, delete_reader')
           \/ ProduceEntry(delete_reader, delete_reader')
        /\ pc[t] = "read"
        /\ UNCHANGED <<delete_manifests, current_delete_manifest, pc>>
    BY <1>9 DEF ReadManifest
  <2>2. /\ ReaderOK(delete_reader') /\ delete_reader'.file = delete_reader.file
        /\ delete_reader'.skip_deleted = delete_reader.skip_deleted
    BY <1>1, <2>1, ReadLoopOK, EndOfCallbackOK, ProduceEntryOK DEF ReaderInv
  <2>3. Reading /\ Reading'
    BY <2>1 DEF Reading
  <2> QED
    BY <1>1, <2>1, <2>2, <2>3 DEF ReaderInv, AtEnd, ManifestRows
<1>10. CASE ManifestRead(t)
  <2>1. /\ pc[t] = "read" /\ delete_reader.at = "out" /\ Goto(t, "manifests")
        /\ UNCHANGED <<delete_manifests, delete_reader>>
        /\ ~Finished(delete_reader) =>
              current_delete_manifest' = current_delete_manifest
    BY <1>10 DEF ManifestRead
  <2>2. ~Reading'
    BY <1>1, <2>1, Alone DEF Goto, Reading, Locks, Holding
  <2> QED
    BY <1>1, <2>1, <2>2 DEF ReaderInv, AtEnd, ManifestRows
<1> QED
  BY <1>3, <1>4, <1>5, <1>6, <1>7, <1>8, <1>9, <1>10
     DEF Thread, ProcessDeletes, Moves

-----------------------------------------------------------------------------
(* The deletes *)

\* What a live entry deletes is live, and its rows are numbers.
LEMMA EntryDeletes ==
    ASSUME delete_manifests \in DeleteManifests, NEW e, LiveEntry(e),
           NEW j \in 1 .. Len(Deletes(e))
    PROVE  /\ Deletes(e)[j] \in DeleteRow
           /\ IsLive(Key(Deletes(e)[j][1]), Deletes(e)[j][2])
<1> DEFINE entry == delete_manifests[e[1]][e[2]]
<1>1. /\ e[1] \in 1 .. Len(delete_manifests)
      /\ e[2] \in 1 .. Len(delete_manifests[e[1]])
      /\ entry.status # "DELETED"
  BY DEF LiveEntry
<1>2. entry \in DeleteEntry
  BY <1>1, ManifestFacts
<1>3. Deletes(e) \in Seq(DeleteRow) /\ Deletes(e) = entry.deletes
  BY <1>2 DEF DeleteEntry, Deletes
<1>4. Deletes(e)[j] \in DeleteRow
  BY <1>3
<1>5. Deletes(e)[j] \in RowsOf(entry.deletes)
  BY <1>3 DEF RowsOf
<1>6. Deletes(e)[j] \in LiveDeletes
  BY <1>1, <1>5, SMTT(40) DEF LiveDeletes
<1> QED
  BY <1>4, <1>6 DEF IsLive

\* The manifests of a snapshot do not change.
LEMMA ManifestsStay ==
    ASSUME NEW t \in Threads, Thread(t)
    PROVE  UNCHANGED delete_manifests
BY DEF Thread, ProcessDeletes, FinalizeChunk, Lock, CheckManifests, OpenManifest,
       OpenFails, ContinueManifest, ReadManifest, ManifestRead, ManifestsRead,
       ScanDeleteFile, ScanFails, DeletesProcessed, GetDeletesForFile, Apply,
       Slice, Throw, listVars

\* What is live depends on the manifests alone.
LEMMA LiveStays ==
    ASSUME UNCHANGED delete_manifests
    PROVE  /\ \A key, row : IsLive(key, row)' <=> IsLive(key, row)
           /\ \A e : LiveEntry(e)' <=> LiveEntry(e)
BY DEF IsLive, LiveDeletes, LiveEntry

\* delete_files holds live entries, and delete_data only rows that they delete.
LEMMA ListSteps ==
    ASSUME Inv, NEW t \in Threads, Thread(t)
    PROVE  ListInv'
<1>1. Locks /\ ReaderInv /\ ListInv /\ UNCHANGED delete_manifests
  BY ManifestsStay DEF Inv
<1>2. ASSUME UNCHANGED <<current_delete_manifest, delete_data>>,
             \/ UNCHANGED <<delete_files, scanning, position>>
             \/ delete_files' = <<>> /\ scanning' = 1 /\ position' = 0
      PROVE  ListInv'
  <2>1. /\ delete_files' \in Seq(Nat \X Nat)
        /\ \A k \in 1 .. Len(delete_files') : LiveEntry(delete_files'[k])
        /\ scanning' \in Nat \ {0}
        /\ position' \in Nat
    <3>1. CASE UNCHANGED <<delete_files, scanning, position>>
      BY <1>1, <3>1 DEF ListInv
    <3>2. CASE delete_files' = <<>> /\ scanning' = 1 /\ position' = 0
      BY <3>2
    <3> QED
      BY <1>2, <3>1, <3>2
  <2> QED
    BY <1>1, <1>2, <2>1, LiveStays DEF ListInv
<1>3. CASE Moves(t)
  <2>1. UNCHANGED listVars
        /\ \/ UNCHANGED processVars
           \/ delete_files' = <<>> /\ scanning' = 1 /\ position' = 0
    BY <1>3 DEF Moves, FinalizeChunk, Lock, CheckManifests, Slice, Apply,
                GetDeletesForFile
  <2> QED
    BY <1>2, <2>1 DEF listVars, processVars
<1>8. CASE \/ ManifestsRead(t) \/ DeletesProcessed(t)
           \/ OpenManifest(t) \/ ContinueManifest(t)
  BY <1>2, <1>8
     DEF ManifestsRead, DeletesProcessed, OpenManifest, ContinueManifest,
         listVars, processVars
<1>4. CASE OpenFails(t) \/ ScanFails(t)
  BY <1>2, <1>4, ThrowFacts DEF listVars
<1>5. CASE ReadManifest(t)
  <2> DEFINE e == <<current_delete_manifest, Row(delete_reader)>>
  <2>1. /\ pc[t] = "read"
        /\ UNCHANGED <<current_delete_manifest, delete_data, scanning, position>>
        /\ \/ UNCHANGED delete_files
           \/ /\ ProduceEntry(delete_reader, delete_reader')
              /\ Kept(delete_reader)
              /\ delete_files' = Append(delete_files, e)
    BY <1>5 DEF ReadManifest
  <2>2. CASE UNCHANGED delete_files
    BY <1>2, <2>1, <2>2
  <2>3. CASE /\ ProduceEntry(delete_reader, delete_reader')
             /\ Kept(delete_reader)
             /\ delete_files' = Append(delete_files, e)
    <3>1. /\ delete_reader.file = ManifestRows(current_delete_manifest)
          /\ current_delete_manifest \in 1 .. Len(delete_manifests)
          /\ current_delete_manifest \in Nat
      BY <1>1, <2>1, InManifests DEF ReaderInv, Reading
    <3>2. Row(delete_reader) \in 1 .. Len(delete_reader.file)
      BY <1>1, <2>3, ProduceEntryOK DEF ReaderInv
    <3>3. delete_reader.file[Row(delete_reader)] # "DELETED"
      BY <1>1, <2>3 DEF Kept, ReaderInv
    <3>4. LiveEntry(e)
      BY <1>1, <3>1, <3>2, <3>3, ManifestFacts DEF LiveEntry, ListInv
    <3> HIDE DEF e
    <3>5. /\ delete_files' \in Seq(Nat \X Nat)
          /\ \A k \in 1 .. Len(delete_files') : LiveEntry(delete_files'[k])
      <4>1. e \in Nat \X Nat
        BY <3>4 DEF LiveEntry
      <4>2. /\ delete_files' \in Seq(Nat \X Nat)
            /\ \A k \in 1 .. Len(delete_files') :
                  delete_files'[k] = e \/ (k \in 1 .. Len(delete_files)
                                          /\ delete_files'[k] = delete_files[k])
        BY <1>1, <2>3, <4>1, SMTT(40) DEF ListInv
      <4> QED
        BY <1>1, <3>4, <4>2 DEF ListInv
    <3> QED
      BY <1>1, <2>1, <3>5, LiveStays DEF ListInv
  <2> QED
    BY <2>1, <2>2, <2>3
<1>6. CASE ManifestRead(t)
  <2>1. /\ pc[t] = "read"
        /\ UNCHANGED <<delete_data, delete_files, scanning, position>>
        /\ current_delete_manifest' \in {current_delete_manifest,
                                         current_delete_manifest + 1}
    BY <1>6 DEF ManifestRead, processVars
  <2>2. current_delete_manifest \in 1 .. Len(delete_manifests)
        /\ Len(delete_manifests) \in Nat
    BY <1>1, <2>1, InManifests DEF ReaderInv, Reading
  <2>3. current_delete_manifest' \in 1 .. Len(delete_manifests) + 1
    BY <2>1, <2>2
  <2> QED
    BY <1>1, <2>1, <2>3, LiveStays DEF ListInv
<1>7. CASE ScanDeleteFile(t)
  <2> DEFINE e == delete_files[scanning]
  <2>1. /\ scanning \in 1 .. Len(delete_files)
        /\ UNCHANGED <<current_delete_manifest, delete_files>>
    BY <1>1, <1>7 DEF ScanDeleteFile, ListInv
  <2>2. LiveEntry(e)
    BY <1>1, <2>1 DEF ListInv
  <2>3. CASE position < Len(Scanned)
    <3>1. /\ Len(Scanned) \in Nat /\ position \in Nat
      <4>1. delete_manifests[e[1]][e[2]] \in DeleteEntry
        BY <1>1, <2>2, ManifestFacts DEF LiveEntry, ListInv
      <4>2. delete_manifests[e[1]][e[2]].deletes \in Seq(DeleteRow)
        BY <4>1 DEF DeleteEntry
      <4>3. Scanned \in Seq(DeleteRow)
        BY <4>2 DEF Scanned, Deletes
      <4>4. Len(Scanned) \in Nat
        BY <4>3
      <4>5. position \in Nat
        BY <1>1 DEF ListInv
      <4> QED
        BY <4>4, <4>5
    <3>2. PICK last \in Nat :
            /\ last <= Len(Scanned)
            /\ delete_data' = delete_data \cup
                   {<<Key(Scanned[j][1]), Scanned[j][2]>> :
                        j \in position + 1 .. last}
            /\ position' = last
            /\ scanning' = scanning
      BY <1>7, <2>3, <3>1, VectorSizeAssumption DEF ScanDeleteFile, Smaller
    <3>3. ASSUME NEW j \in position + 1 .. last
          PROVE  /\ Scanned[j][2] \in Nat
                 /\ IsLive(Key(Scanned[j][1]), Scanned[j][2])
      <4>1. j \in 1 .. Len(Deletes(e))
        BY <3>1, <3>2 DEF Scanned
      <4> QED
        BY <1>1, <2>2, <4>1, EntryDeletes DEF Scanned, DeleteRow, ListInv
    <3>4. \A d \in delete_data' : d[2] \in Nat /\ IsLive(d[1], d[2])
      BY <1>1, <3>2, <3>3 DEF ListInv
    <3> QED
      BY <1>1, <2>1, <3>2, <3>4, LiveStays DEF ListInv
  <2>4. CASE ~(position < Len(Scanned))
    <3>1. delete_data' = delete_data /\ position' = 0 /\ scanning' = scanning + 1
      BY <1>7, <2>4 DEF ScanDeleteFile
    <3> QED
      BY <1>1, <2>1, <3>1, LiveStays DEF ListInv
  <2> QED
    BY <2>3, <2>4
<1> QED
  BY <1>3, <1>4, <1>5, <1>6, <1>7, <1>8 DEF Thread, ProcessDeletes, Moves

-----------------------------------------------------------------------------
(* Nothing is processed past the manifests *)

\* ProcessDeletes leaves its loop with the iterator at end(), and no thread
\* re-enters it while another reads delete_data.
LEMMA PastSteps ==
    ASSUME Inv, NEW t \in Threads, Thread(t)
    PROVE  PastManifests'
<1>1. Locks /\ PastManifests
  BY DEF Inv
\* A step that leaves the iterator where it is and thread t at label.
<1>2. ASSUME NEW label, Goto(t, label),
             UNCHANGED <<delete_manifests, current_delete_manifest>>,
             label \in {"scan", "find", "apply"} => AtEnd,
             label \in {"manifests", "read", "scan"} =>
                 \/ pc[t] \in {"manifests", "read", "scan"}
                 \/ pc[t] = "locked" /\ ~AtEnd,
             label = "apply" => pc[t] = "find"
      PROVE  PastManifests'
  <2>1. AtEnd' <=> AtEnd
    BY <1>2 DEF AtEnd
  <2>2. \A u \in Threads : pc'[u] = IF u = t THEN label ELSE pc[u]
    BY <1>1, <1>2 DEF Goto, Locks
  <2>3. \A u \in Threads : pc'[u] \in {"scan", "find", "apply"} => AtEnd'
    BY <1>1, <1>2, <2>1, <2>2 DEF PastManifests
  <2>4. ASSUME NEW u \in Threads, pc'[u] = "apply", NEW v \in Threads
        PROVE  pc'[v] \notin {"manifests", "read", "scan"}
    <3>1. CASE u = t
      <4>1. pc[t] = "find"
        BY <1>2, <2>2, <2>4, <3>1
      <4>2. v # t => pc[v] \notin Holding
        BY <1>1, <4>1, Alone DEF Holding
      <4> QED
        BY <2>2, <2>4, <3>1, <4>2 DEF Holding
    <3>2. CASE u # t
      <4>1. /\ pc[u] = "apply" /\ AtEnd
            /\ \A w \in Threads : pc[w] \notin {"manifests", "read", "scan"}
        BY <1>1, <2>2, <2>4, <3>2 DEF PastManifests
      <4> QED
        BY <1>2, <2>2, <4>1
    <3> QED
      BY <3>1, <3>2
  <2> QED
    BY <2>3, <2>4 DEF PastManifests
<1>3. CASE FinalizeChunk(t)
  BY <1>2, <1>3 DEF FinalizeChunk, listVars
<1>4. CASE Lock(t)
  BY <1>2, <1>4 DEF Lock, listVars
<1>5. CASE CheckManifests(t)
  BY <1>2, <1>5 DEF CheckManifests, listVars
<1>6. CASE OpenManifest(t) \/ ContinueManifest(t)
  BY <1>2, <1>6 DEF OpenManifest, ContinueManifest
<1>7. CASE OpenFails(t) \/ ScanFails(t)
  BY <1>2, <1>7, ThrowFacts DEF listVars
<1>8. CASE ReadManifest(t) \/ ScanDeleteFile(t) \/ Apply(t)
  BY <1>1, <1>8
     DEF ReadManifest, ScanDeleteFile, Apply, listVars, PastManifests, AtEnd
<1>9. CASE ManifestRead(t)
  <2>1. /\ pc[t] = "read" /\ Goto(t, "manifests") /\ UNCHANGED delete_manifests
    BY <1>9 DEF ManifestRead
  <2>2. \A u \in Threads \ {t} : pc[u] \notin Holding /\ pc[u] # "apply"
    BY <1>1, <2>1, Alone DEF Holding, PastManifests
  <2>3. \A u \in Threads : pc'[u] \notin {"scan", "find", "apply"}
    BY <1>1, <2>1, <2>2 DEF Goto, Locks, Holding
  <2> QED
    BY <2>3 DEF PastManifests
<1>10. CASE ManifestsRead(t)
  BY <1>2, <1>10 DEF ManifestsRead, listVars
<1>11. CASE DeletesProcessed(t)
  BY <1>1, <1>2, <1>11 DEF DeletesProcessed, listVars, PastManifests
<1>12. CASE GetDeletesForFile(t)
  BY <1>1, <1>2, <1>12 DEF GetDeletesForFile, listVars, PastManifests
<1>13. CASE Slice(t)
  BY <1>2, <1>13 DEF Slice, listVars
<1> QED
  BY <1>3, <1>4, <1>5, <1>6, <1>7, <1>8, <1>9, <1>10, <1>11, <1>12, <1>13
     DEF Thread, ProcessDeletes

-----------------------------------------------------------------------------
(* The chunk of a thread *)

\* The chunks have rows that are numbers.
LEMMA ChunkFacts ==
    ASSUME NEW c \in Chunks
    PROVE  /\ c.file \in DataFiles /\ c.rows \in Seq(Nat)
           /\ Len(c.rows) \in Nat
           /\ \A j \in 1 .. Len(c.rows) : c.rows[j] \in Nat
BY ChunksAssumption

\* The rows that Apply is past are kept or deleted.
LEMMA ThreadSteps ==
    ASSUME Inv, NEW t \in Threads, Thread(t)
    PROVE  ThreadInv'
<1>1. Locks /\ ListInv /\ ThreadInv /\ QueryInv
      /\ \A key, row : IsLive(key, row)' <=> IsLive(key, row)
  BY ManifestsStay, LiveStays DEF Inv
\* A step of a thread that keeps its chunk and does not enter Apply.
<1>2. ASSUME NEW label, Goto(t, label), UNCHANGED threadVars,
             label # "apply", pc[t] # "idle"
      PROVE  ThreadInv'
  BY <1>1, <1>2 DEF ThreadInv, threadVars, Goto, Locks
<1>3. CASE FinalizeChunk(t)
  <2>1. PICK c \in Chunks : chunk' = [chunk EXCEPT ![t] = c]
    BY <1>1, <1>3 DEF FinalizeChunk, QueryInv
  <2>2. Goto(t, "wait") /\ UNCHANGED <<tuple, kept>>
    BY <1>3 DEF FinalizeChunk
  <2> QED
    BY <1>1, <2>1, <2>2 DEF ThreadInv, Goto, Locks
<1>4. CASE Lock(t) \/ CheckManifests(t)
  BY <1>2, <1>4 DEF Lock, CheckManifests
<1>5. CASE \/ OpenManifest(t) \/ ContinueManifest(t) \/ ManifestRead(t)
           \/ ManifestsRead(t) \/ DeletesProcessed(t)
  BY <1>2, <1>5
     DEF OpenManifest, ContinueManifest, ManifestRead, ManifestsRead,
         DeletesProcessed
<1>6. CASE ReadManifest(t) \/ ScanDeleteFile(t)
  BY <1>1, <1>6 DEF ReadManifest, ScanDeleteFile, ThreadInv, threadVars
\* A step of a thread that is idle again.
<1>7. ASSUME Goto(t, "idle"), chunk' = [chunk EXCEPT ![t] = NoChunk],
             UNCHANGED <<tuple, kept>>
      PROVE  ThreadInv'
  BY <1>1, <1>7 DEF ThreadInv, Goto, Locks
<1>8. CASE OpenFails(t) \/ ScanFails(t)
  BY <1>7, <1>8 DEF OpenFails, ScanFails, Throw
<1>9. CASE Slice(t)
  BY <1>7, <1>9 DEF Slice
<1>10. CASE GetDeletesForFile(t)
  <2>1. CASE HasDeletes(chunk[t].file)
    <3>1. /\ Goto(t, "apply") /\ pc[t] = "find"
          /\ tuple' = [tuple EXCEPT ![t] = 1]
          /\ kept' = [kept EXCEPT ![t] = {}]
          /\ chunk' = chunk
      BY <1>10, <2>1 DEF GetDeletesForFile
    <3>2. /\ tuple' \in [Threads -> Nat \ {0}] /\ tuple'[t] = 1
          /\ kept' \in [Threads -> SUBSET Nat]
          /\ \A u \in Threads \ {t} : /\ tuple'[u] = tuple[u]
                                      /\ kept'[u] = kept[u]
                                      /\ pc'[u] = pc[u]
      BY <1>1, <3>1 DEF ThreadInv, Goto, Locks
    <3>3. \A u \in Threads : pc'[u] # "idle" => chunk[u] \in Chunks
      BY <1>1, <3>1, <3>2 DEF ThreadInv
    <3>4. \A j \in 1 .. Len(chunk[t].rows) : ~(j < 1)
      BY <1>1, <3>1, ChunkFacts DEF ThreadInv
    <3> QED
      BY <1>1, <3>1, <3>2, <3>3, <3>4 DEF ThreadInv
  <2>2. CASE ~HasDeletes(chunk[t].file)
    BY <1>7, <1>10, <2>2 DEF GetDeletesForFile
  <2> QED
    BY <2>1, <2>2
<1>11. CASE Apply(t)
  <2> DEFINE rows == chunk[t].rows
             row == rows[tuple[t]]
  <2>1. /\ pc[t] = "apply" /\ tuple[t] <= Len(rows)
        /\ UNCHANGED <<pc, chunk, delete_data>>
        /\ tuple' = [tuple EXCEPT ![t] = tuple[t] + 1]
        /\ kept' = [kept EXCEPT ![t] =
                       IF <<Key(chunk[t].file), row>> \in delete_data
                       THEN kept[t] ELSE kept[t] \cup {row}]
    BY <1>11 DEF Apply, listVars
  <2>2. tuple[t] \in Nat \ {0} /\ Len(rows) \in Nat /\ row \in Nat
    BY <1>1, <2>1, ChunkFacts DEF ThreadInv
  <2>3. /\ tuple' \in [Threads -> Nat \ {0}] /\ tuple'[t] = tuple[t] + 1
        /\ kept' \in [Threads -> SUBSET Nat]
        /\ kept[t] \subseteq kept'[t]
        /\ row \in kept'[t] \/ <<Key(chunk[t].file), row>> \in delete_data
        /\ \A u \in Threads \ {t} : tuple'[u] = tuple[u] /\ kept'[u] = kept[u]
    BY <1>1, <2>1, <2>2 DEF ThreadInv
  <2>4. row \in kept'[t] \/ IsLive(Key(chunk[t].file), row)
    BY <1>1, <2>3 DEF ListInv
  <2>5. ASSUME NEW j \in 1 .. Len(rows), j < tuple'[t]
        PROVE  rows[j] \in kept'[t] \/ IsLive(Key(chunk[t].file), rows[j])
    <3>1. CASE j = tuple[t]
      BY <2>4, <3>1
    <3>2. CASE j < tuple[t]
      BY <1>1, <2>1, <2>3, <3>2 DEF ThreadInv
    <3> QED
      BY <2>2, <2>3, <2>5, <3>1, <3>2
  <2> QED
    BY <1>1, <2>1, <2>3, <2>5 DEF ThreadInv
<1> QED
  BY <1>3, <1>4, <1>5, <1>6, <1>8, <1>9, <1>10, <1>11 DEF Thread, ProcessDeletes

-----------------------------------------------------------------------------
(* The execution *)

\* A chunk that is waiting, at work, or passed on.
Accounted(c) ==
    \/ c \in todo
    \/ \E t \in Threads : pc[t] # "idle" /\ chunk[t] = c
    \/ PassedOn(c)

\* Rows that were passed on stay passed on.
LEMMA PassedOnStays ==
    ASSUME UNCHANGED delete_manifests, emitted \subseteq emitted',
           NEW c, PassedOn(c)
    PROVE  PassedOn(c)'
BY LiveStays DEF PassedOn

\* A thread that passes its chunk on is idle, and the chunk accounted for.
LEMMA PassOn ==
    ASSUME Inv, NEW t \in Threads, Goto(t, "idle"), pc[t] # "idle",
           UNCHANGED <<delete_manifests, todo, query, failures>>,
           \A u \in Threads \ {t} : chunk'[u] = chunk[u],
           emitted' \subseteq DataFiles \X Nat, emitted \subseteq emitted',
           NEW own \in Chunks, chunk[t] = own, PassedOn(own)'
    PROVE  QueryInv'
<1>1. Locks /\ ThreadInv /\ QueryInv
  BY DEF Inv
<1>2. query # "finished"
  BY <1>1 DEF QueryInv, AllIdle
<1>3. \A u \in Threads \ {t} : pc'[u] = pc[u]
  BY <1>1 DEF Goto, Locks
<1>4. ASSUME NEW c \in Chunks, query # "failed"
      PROVE  Accounted(c)'
  <2>1. Accounted(c)
    BY <1>1, <1>4 DEF QueryInv, Accounted
  <2>2. CASE c \in todo
    BY <2>2 DEF Accounted
  <2>3. CASE \E u \in Threads : pc[u] # "idle" /\ chunk[u] = c
    <3>1. PICK u \in Threads : pc[u] # "idle" /\ chunk[u] = c
      BY <2>3
    <3>2. CASE u = t
      BY <3>1, <3>2 DEF Accounted
    <3>3. CASE u # t
      BY <1>3, <3>1, <3>3 DEF Accounted
    <3> QED
      BY <3>2, <3>3
  <2>4. CASE PassedOn(c)
    BY <2>4, PassedOnStays DEF Accounted
  <2> QED
    BY <2>1, <2>2, <2>3, <2>4 DEF Accounted
<1> QED
  BY <1>1, <1>2, <1>4 DEF QueryInv, Accounted

\* A thread that keeps its chunk.
LEMMA KeepsChunk ==
    ASSUME Inv, NEW t \in Threads, NEW label, Goto(t, label), label # "idle",
           pc[t] # "idle",
           UNCHANGED <<delete_manifests, chunk, todo, emitted, query, failures>>
    PROVE  QueryInv'
<1>1. Locks /\ QueryInv
  BY DEF Inv
<1>2. \A u \in Threads : pc'[u] # "idle" <=> pc[u] # "idle"
  BY <1>1 DEF Goto, Locks
<1>3. ASSUME NEW c \in Chunks, Accounted(c)
      PROVE  Accounted(c)'
  BY <1>2, <1>3, PassedOnStays DEF Accounted
<1>4. AllIdle' <=> AllIdle
  BY <1>2 DEF AllIdle
<1> QED
  BY <1>1, <1>3, <1>4 DEF QueryInv, Accounted

\* Every chunk of an execution that has not failed is waiting, at work, or
\* passed on.
LEMMA QuerySteps ==
    ASSUME Inv, NEW t \in Threads, Thread(t)
    PROVE  QueryInv'
<1>1. Locks /\ ListInv /\ ThreadInv /\ QueryInv /\ UNCHANGED delete_manifests
  BY ManifestsStay DEF Inv
<1>2. CASE FinalizeChunk(t)
  <2>1. PICK d \in todo : /\ chunk' = [chunk EXCEPT ![t] = d]
                          /\ todo' = todo \ {d}
    BY <1>2 DEF FinalizeChunk
  <2>2. /\ Goto(t, "wait") /\ pc[t] = "idle" /\ query = "running"
        /\ UNCHANGED <<emitted, query, failures>>
    BY <1>2 DEF FinalizeChunk
  <2>3. \A u \in Threads : /\ pc'[u] = IF u = t THEN "wait" ELSE pc[u]
                           /\ chunk'[u] = IF u = t THEN d ELSE chunk[u]
    BY <1>1, <2>1, <2>2 DEF Goto, Locks, ThreadInv
  <2>4. ASSUME NEW c \in Chunks
        PROVE  Accounted(c)'
    <3>1. Accounted(c)
      BY <1>1, <2>2 DEF QueryInv, Accounted
    <3>2. CASE c \in todo
      BY <2>1, <2>3, <3>2 DEF Accounted
    <3>3. CASE \E u \in Threads : pc[u] # "idle" /\ chunk[u] = c
      BY <2>2, <2>3, <3>3 DEF Accounted
    <3>4. CASE PassedOn(c)
      BY <1>1, <2>2, <3>4, PassedOnStays DEF Accounted
    <3> QED
      BY <3>1, <3>2, <3>3, <3>4 DEF Accounted
  <2> QED
    BY <1>1, <2>1, <2>2, <2>4 DEF QueryInv, Accounted
<1>3. CASE Lock(t) \/ CheckManifests(t)
  BY <1>1, <1>3, KeepsChunk DEF Lock, CheckManifests, threadVars, queryVars
<1>4. CASE \/ OpenManifest(t) \/ ContinueManifest(t) \/ ManifestRead(t)
           \/ ManifestsRead(t) \/ DeletesProcessed(t)
  BY <1>1, <1>4, KeepsChunk
     DEF OpenManifest, ContinueManifest, ManifestRead, ManifestsRead,
         DeletesProcessed, threadVars, queryVars
<1>5. CASE ReadManifest(t) \/ ScanDeleteFile(t) \/ Apply(t)
  <2>1. UNCHANGED <<delete_manifests, chunk, todo, emitted, query, failures, pc>>
    BY <1>1, <1>5 DEF ReadManifest, ScanDeleteFile, Apply, threadVars, queryVars
  <2>2. \A c : PassedOn(c) => PassedOn(c)'
    BY <2>1, PassedOnStays
  <2> QED
    BY <1>1, <2>1, <2>2 DEF QueryInv, AllIdle
<1>6. CASE OpenFails(t) \/ ScanFails(t)
  <2>1. Throw(t)
    BY <1>6, ThrowFacts
  <2>2. failures' \in 0 .. MaxFailures
    BY <1>1, <2>1, FailuresAssumption DEF Throw, QueryInv
  <2> QED
    BY <1>1, <2>1, <2>2 DEF Throw, QueryInv
<1>7. CASE GetDeletesForFile(t)
  <2>1. CASE HasDeletes(chunk[t].file)
    BY <1>1, <1>7, <2>1, KeepsChunk DEF GetDeletesForFile
  <2>2. CASE ~HasDeletes(chunk[t].file)
    <3>1. /\ Goto(t, "idle") /\ pc[t] = "find"
          /\ emitted' = emitted \cup {chunk[t].file} \X RowsOf(chunk[t].rows)
          /\ chunk' = [chunk EXCEPT ![t] = NoChunk]
          /\ UNCHANGED <<todo, query, failures>>
      BY <1>7, <2>2 DEF GetDeletesForFile
    <3>2. PICK own \in Chunks : chunk[t] = own
      BY <1>1, <3>1 DEF ThreadInv
    <3>3. emitted' \subseteq DataFiles \X Nat
      BY <1>1, <3>1, <3>2, ChunkFacts DEF RowsOf, QueryInv
    <3>4. PassedOn(own)'
      BY <3>1, <3>2 DEF PassedOn, RowsOf
    <3>5. \A u \in Threads \ {t} : chunk'[u] = chunk[u]
      BY <1>1, <3>1 DEF ThreadInv
    <3> QED
      BY <1>1, <3>1, <3>2, <3>3, <3>4, <3>5, PassOn
  <2> QED
    BY <2>1, <2>2
<1>8. CASE Slice(t)
  <2>1. /\ Goto(t, "idle") /\ pc[t] = "apply"
        /\ tuple[t] > Len(chunk[t].rows)
        /\ emitted' = emitted \cup {chunk[t].file} \X kept[t]
        /\ chunk' = [chunk EXCEPT ![t] = NoChunk]
        /\ UNCHANGED <<todo, query, failures>>
    BY <1>8 DEF Slice
  <2>2. kept[t] \subseteq Nat /\ tuple[t] \in Nat
    BY <1>1, <2>1 DEF ThreadInv
  <2>3. PICK own \in Chunks : chunk[t] = own
    BY <1>1, <2>1 DEF ThreadInv
  <2>4. emitted' \subseteq DataFiles \X Nat
    BY <1>1, <2>1, <2>2, <2>3, ChunkFacts DEF QueryInv
  <2>5. ASSUME NEW j \in 1 .. Len(own.rows)
        PROVE  \/ <<own.file, own.rows[j]>> \in emitted'
               \/ IsLive(Key(own.file), own.rows[j])
    <3>1. j < tuple[t]
      BY <2>1, <2>2, <2>3, ChunkFacts
    <3>2. own.rows[j] \in kept[t] \/ IsLive(Key(own.file), own.rows[j])
      BY <1>1, <2>1, <2>3, <3>1 DEF ThreadInv
    <3> QED
      BY <2>1, <2>3, <3>2
  <2>6. PassedOn(own)'
    BY <1>1, <2>5, LiveStays DEF PassedOn
  <2>7. \A u \in Threads \ {t} : chunk'[u] = chunk[u]
    BY <1>1, <2>1 DEF ThreadInv
  <2> QED
    BY <1>1, <2>1, <2>4, <2>6, <2>7, <2>3, PassOn
<1> QED
  BY <1>2, <1>3, <1>4, <1>5, <1>6, <1>7, <1>8 DEF Thread, ProcessDeletes

\* The end of an execution and the start of another.
LEMMA ExecutionSteps ==
    ASSUME Inv, Finish \/ Execute
    PROVE  Inv'
<1>1. /\ Locks /\ ReaderInv /\ ListInv /\ PastManifests /\ ThreadInv /\ QueryInv
      /\ UNCHANGED <<listVars, processVars, threadVars, failures, delete_lock, pc>>
  BY DEF Inv, Finish, Execute
<1>2. UNCHANGED <<delete_manifests, current_delete_manifest, delete_reader,
                  delete_data, delete_files, scanning, position, chunk, tuple,
                  kept>>
  BY <1>1 DEF listVars, processVars, threadVars
<1>3. Locks'
  BY <1>1 DEF Locks
<1>4. ReaderInv'
  BY <1>1, <1>2 DEF ReaderInv, Reading, AtEnd, ManifestRows
<1>5. ListInv'
  BY <1>1, <1>2, LiveStays DEF ListInv
<1>6. PastManifests'
  BY <1>1, <1>2 DEF PastManifests, AtEnd
<1>7. ThreadInv'
  BY <1>1, <1>2, LiveStays DEF ThreadInv
<1>8. QueryInv'
  <2>1. CASE Finish
    <3>1. /\ query = "running" /\ query' = "finished" /\ todo = {} /\ AllIdle
          /\ UNCHANGED <<todo, emitted>>
      BY <2>1 DEF Finish
    <3>2. \A c : PassedOn(c) => PassedOn(c)'
      BY <1>2, <3>1, PassedOnStays
    <3> QED
      BY <1>1, <1>2, <3>1, <3>2 DEF QueryInv, AllIdle
  <2>2. CASE Execute
    BY <1>1, <2>2 DEF Execute, QueryInv
  <2> QED
    BY <2>1, <2>2
<1> QED
  BY <1>3, <1>4, <1>5, <1>6, <1>7, <1>8 DEF Inv

-----------------------------------------------------------------------------
(* The theorems *)

\* No step of any thread leaves the invariant.
LEMMA NextInv == Inv /\ [Next]_vars => Inv'
<1> SUFFICES ASSUME Inv, [Next]_vars PROVE Inv'
  OBVIOUS
<1>1. ASSUME NEW t \in Threads, Thread(t) PROVE Inv'
  <2>1. Locks
    BY DEF Inv
  <2> QED
    BY <1>1, <2>1, LockSteps, ReaderSteps, ListSteps, PastSteps, ThreadSteps,
       QuerySteps
       DEF Inv
<1>2. CASE Finish \/ Execute
  BY <1>2, ExecutionSteps
<1>3. CASE UNCHANGED vars
  <2>1. UNCHANGED <<delete_manifests, current_delete_manifest, delete_reader,
                    delete_data, delete_files, scanning, position, chunk, tuple,
                    kept, todo, emitted, query, failures, delete_lock, pc>>
    BY <1>3 DEF vars, listVars, processVars, threadVars, queryVars
  <2>2. Locks' /\ ReaderInv' /\ PastManifests'
    BY <2>1 DEF Inv, Locks, ReaderInv, Reading, PastManifests, AtEnd, ManifestRows
  <2>3. ListInv' /\ ThreadInv'
    BY <2>1, LiveStays DEF Inv, ListInv, ThreadInv
  <2>4. \A c : PassedOn(c) => PassedOn(c)'
    BY <2>1, PassedOnStays
  <2>5. QueryInv'
    BY <2>1, <2>4 DEF Inv, QueryInv, AllIdle
  <2> QED
    BY <2>2, <2>3, <2>5 DEF Inv
<1> QED
  BY <1>1, <1>2, <1>3 DEF Next

\* The invariant holds in every reachable state.
THEOREM InvHolds == Spec => []Inv
BY InitInv, NextInv, PTL DEF Spec

\* The state of the deletes and of the threads is well typed.
THEOREM TypeCorrect == Spec => []TypeOK
<1>1. Inv => TypeOK
  <2> SUFFICES ASSUME Inv PROVE TypeOK
    OBVIOUS
  <2>1. Locks /\ ReaderInv /\ ListInv /\ ThreadInv /\ QueryInv
    BY DEF Inv
  <2>2. tuple \in [Threads -> Nat]
    BY <2>1 DEF ThreadInv
  <2>3. delete_reader \in Reader
    BY <2>1 DEF ReaderInv, ReaderOK
  <2> QED
    BY <2>1, <2>2, <2>3 DEF TypeOK, Locks, ListInv, ThreadInv, QueryInv
<1> QED
  BY <1>1, InvHolds, PTL

\* While a thread reads delete data in Apply, without delete_lock, no step
\* changes delete data: ProcessDeletes of another thread does not run.
THEOREM DeletesAreStable == Spec => StableDeletes
<1>1. Inv /\ [Next]_vars =>
          [(\E t \in Threads : pc[t] = "apply") => delete_data' = delete_data]_vars
  <2> SUFFICES ASSUME Inv, Next, NEW u \in Threads, pc[u] = "apply"
               PROVE  delete_data' = delete_data
    OBVIOUS
  <2>1. \A t \in Threads : ~ScanDeleteFile(t)
    BY DEF Inv, PastManifests, ScanDeleteFile
  <2>2. ASSUME NEW t \in Threads, Thread(t) PROVE delete_data' = delete_data
    BY <2>1, <2>2
       DEF Thread, ProcessDeletes, FinalizeChunk, Lock, CheckManifests,
           OpenManifest, OpenFails, ContinueManifest, ReadManifest, ManifestRead,
           ManifestsRead, ScanFails, DeletesProcessed, GetDeletesForFile, Apply,
           Slice, Throw, listVars
  <2>3. CASE Finish \/ Execute
    BY <2>3 DEF Finish, Execute, listVars
  <2> QED
    BY <2>2, <2>3 DEF Next
<1> QED
  BY <1>1, InvHolds, PTL DEF Spec, StableDeletes

\* An execution that finishes has dropped only rows with a live delete, whatever
\* failed before and however the threads shared the chunks.
THEOREM OnlyDeletedDropped == Spec => []OnlyDeletesDropped
<1>1. Inv => OnlyDeletesDropped
  <2> SUFFICES ASSUME Inv, query = "finished", NEW r \in AllRows
               PROVE  \/ r \in emitted
                      \/ \E d \in LiveDeletes : Key(d[1]) = Key(r[1])
                                               /\ d[2] = r[2]
    BY DEF OnlyDeletesDropped
  <2>1. PICK c \in Chunks : r \in {c.file} \X RowsOf(c.rows)
    BY DEF AllRows
  <2>2. PICK j \in 1 .. Len(c.rows) : r = <<c.file, c.rows[j]>>
    BY <2>1 DEF RowsOf
  <2>3. PassedOn(c)
    BY DEF Inv, QueryInv, AllIdle
  <2> QED
    BY <2>2, <2>3 DEF PassedOn, IsLive
<1> QED
  BY <1>1, InvHolds, PTL

-----------------------------------------------------------------------------
(* The result of an execution without failures *)

\* No two data files have paths that differ in case only.
KeysDiffer == \A f, g \in DataFiles : Key(f) = Key(g) => f = g

\* The DELETED entries of a delete manifest are in its last chunk, as they are
\* in a manifest that has none or that is not longer than a chunk.
DeletedEntriesLast ==
    \A M \in DeleteManifests : \A m \in 1 .. Len(M) : \A k \in 1 .. Len(M[m]) :
        M[m][k].status = "DELETED" => InLastChunk(M[m], k)

(***************************************************************************)
(* Then the manifests are read without a gap, and a thread that leaves      *)
(* ProcessDeletes has added all deletes of the entries that it collected.   *)
(***************************************************************************)
Opened == Reading \/ ~Finished(delete_reader)
ReaderWhole == Opened => WholeChunks(delete_reader)

Added(d) == <<Key(d[1]), d[2]>> \in delete_data
Known(e) == \A j \in 1 .. Len(Deletes(e)) : Added(Deletes(e)[j])

\* The delete files up to the position of ScanDeleteFile are known.
ScanInv ==
    /\ \A k \in 1 .. Len(delete_files) :
           k < scanning => Known(delete_files[k])
    /\ scanning \in 1 .. Len(delete_files) =>
           \A j \in 1 .. Len(Scanned) : j <= position => Added(Scanned[j])
    /\ \A t \in Threads : pc[t] \in {"manifests", "read"} =>
           scanning = 1 /\ position = 0

\* The entries that the iterator and the reader are past.
Past(e) ==
    \/ e[1] < current_delete_manifest
    \/ e[1] = current_delete_manifest /\ Opened /\ e[2] <= Consumed(delete_reader)

Entries(m) == 1 .. Len(delete_manifests[m])
Loads == \E t \in Threads : pc[t] \in {"manifests", "read", "scan"}

\* While a thread is in ProcessDeletes it has collected the live entries that
\* are past.  Nothing is read before, and all is known afterwards.
LoadInv ==
    failures = 0 =>
        /\ Loads => \A m \in 1 .. Len(delete_manifests) : \A k \in Entries(m) :
              LiveEntry(<<m, k>>) /\ Past(<<m, k>>)
                  => \E i \in 1 .. Len(delete_files) : delete_files[i] = <<m, k>>
        /\ ~Loads /\ ~AtEnd =>
              current_delete_manifest = 1 /\ Finished(delete_reader)
        /\ ~Loads /\ AtEnd =>
              \A m \in 1 .. Len(delete_manifests) : \A k \in Entries(m) :
                  LiveEntry(<<m, k>>) => Known(<<m, k>>)

\* Rows that are passed on, or about to be, are rows of the chunks that no live
\* entry deletes.
EmitInv ==
    /\ emitted \subseteq AllRows
    /\ failures = 0 => emitted \cap LiveDeletes = {}
    /\ \A t \in Threads : pc[t] = "apply" =>
           /\ kept[t] \subseteq RowsOf(chunk[t].rows)
           /\ failures = 0 => ({chunk[t].file} \X kept[t]) \cap LiveDeletes = {}

ExactInv == ReaderWhole /\ ScanInv /\ LoadInv /\ EmitInv

-----------------------------------------------------------------------------

\* A deleted row is that of a live entry.
LEMMA DeleteHasEntry ==
    ASSUME delete_manifests \in DeleteManifests, NEW d \in LiveDeletes
    PROVE  \E m \in 1 .. Len(delete_manifests) : \E k \in Entries(m) :
               /\ LiveEntry(<<m, k>>)
               /\ \E j \in 1 .. Len(Deletes(<<m, k>>)) : Deletes(<<m, k>>)[j] = d
<1>1. PICK m \in 1 .. Len(delete_manifests) :
          \E k \in Entries(m) : /\ delete_manifests[m][k].status # "DELETED"
                               /\ d \in RowsOf(delete_manifests[m][k].deletes)
  BY DEF LiveDeletes, Entries
<1>2. PICK k \in Entries(m) : /\ delete_manifests[m][k].status # "DELETED"
                             /\ d \in RowsOf(delete_manifests[m][k].deletes)
  BY <1>1
<1>3. PICK j \in 1 .. Len(delete_manifests[m][k].deletes) :
          delete_manifests[m][k].deletes[j] = d
  BY <1>2 DEF RowsOf
<1>4. Deletes(<<m, k>>) = delete_manifests[m][k].deletes
  BY DEF Deletes
<1>5. m \in Nat /\ k \in Nat
  BY DEF Entries
<1>6. LiveEntry(<<m, k>>)
  BY <1>2, <1>5 DEF LiveEntry, Entries
<1> QED
  BY <1>3, <1>4, <1>6

\* The rows that live entries delete are rows of data files.
LEMMA LiveDeleteTypes ==
    ASSUME delete_manifests \in DeleteManifests
    PROVE  LiveDeletes \subseteq DataFiles \X Nat
<1> SUFFICES ASSUME NEW d \in LiveDeletes PROVE d \in DataFiles \X Nat
  OBVIOUS
<1>1. PICK m \in 1 .. Len(delete_manifests) : \E k \in Entries(m) :
          /\ LiveEntry(<<m, k>>)
          /\ \E j \in 1 .. Len(Deletes(<<m, k>>)) : Deletes(<<m, k>>)[j] = d
  BY DeleteHasEntry
<1> QED
  BY <1>1, EntryDeletes DEF DeleteRow

\* When no thread loads and all manifests are past, all deletes are known.
LEMMA AllAdded ==
    ASSUME delete_manifests \in DeleteManifests, LoadInv, failures = 0, ~Loads,
           AtEnd
    PROVE  \A d \in LiveDeletes : Added(d)
<1> SUFFICES ASSUME NEW d \in LiveDeletes PROVE Added(d)
  OBVIOUS
<1>1. PICK m \in 1 .. Len(delete_manifests) : \E k \in Entries(m) :
          /\ LiveEntry(<<m, k>>)
          /\ \E j \in 1 .. Len(Deletes(<<m, k>>)) : Deletes(<<m, k>>)[j] = d
  BY DeleteHasEntry
<1>2. PICK k \in Entries(m) :
          /\ LiveEntry(<<m, k>>)
          /\ \E j \in 1 .. Len(Deletes(<<m, k>>)) : Deletes(<<m, k>>)[j] = d
  BY <1>1
<1>3. Known(<<m, k>>)
  BY <1>2 DEF LoadInv
<1> QED
  BY <1>2, <1>3 DEF Known

\* A thread that looks up or applies deletes knows them all, unless there was
\* a failure.
LEMMA UserKnows ==
    ASSUME Inv, LoadInv, failures = 0,
           NEW t \in Threads, pc[t] \in {"find", "apply"}
    PROVE  \A d \in LiveDeletes : Added(d)
<1>1. AtEnd /\ delete_manifests \in DeleteManifests
  BY DEF Inv, PastManifests, ListInv
<1>2. ~Loads
  BY Alone DEF Inv, PastManifests, Loads, Holding
<1> QED
  BY <1>1, <1>2, AllAdded

-----------------------------------------------------------------------------

\* The manifest that is read skips its last chunk only.
LEMMA OpenedSkips ==
    ASSUME Inv, DeletedEntriesLast, Opened
    PROVE  SkipsLastChunk(delete_reader)
<1>1. /\ delete_reader.file = ManifestRows(current_delete_manifest)
      /\ current_delete_manifest \in 1 .. Len(delete_manifests)
      /\ delete_manifests \in DeleteManifests
  <2>1. Len(delete_manifests) \in Nat
    BY ManifestsAssumption DEF Inv, ListInv
  <2> QED
    BY <2>1 DEF Inv, ReaderInv, ListInv, Opened, AtEnd
<1> DEFINE file == ManifestRows(current_delete_manifest)
           entries == delete_manifests[current_delete_manifest]
<1>2. Len(file) = Len(entries)
  BY <1>1, ManifestFacts
<1>3. ASSUME NEW k \in 1 .. Len(file), file[k] = "DELETED"
      PROVE  InLastChunk(file, k)
  <2>1. entries[k].status = "DELETED" /\ k \in 1 .. Len(entries)
    BY <1>1, <1>2, <1>3, ManifestFacts
  <2>2. InLastChunk(entries, k)
    BY <1>1, <2>1 DEF DeletedEntriesLast
  <2> QED
    BY <1>2, <2>2 DEF InLastChunk
<1> QED
  BY <1>1, <1>3 DEF SkipsLastChunk

\* A step that leaves the reader, and the threads that read, leaves what is
\* open.
LEMMA OpenedStays ==
    ASSUME Locks, NEW t \in Threads, NEW label, Goto(t, label),
           label # "read", pc[t] # "read", UNCHANGED delete_reader
    PROVE  Opened' <=> Opened
BY NotReading DEF Opened, Finished

\* When deleted entries come last, no live entry of a manifest is skipped.
LEMMA WholeSteps ==
    ASSUME Inv, DeletedEntriesLast, ReaderWhole, NEW t \in Threads, Thread(t)
    PROVE  ReaderWhole'
<1>1. Locks /\ ReaderInv /\ ListInv
  BY DEF Inv
<1>2. ASSUME NEW label, Goto(t, label), label # "read", pc[t] # "read",
             UNCHANGED delete_reader
      PROVE  ReaderWhole'
  BY <1>1, <1>2, OpenedStays DEF ReaderWhole
<1>3. CASE Moves(t) /\ ~Apply(t)
  BY <1>2, <1>3
     DEF Moves, FinalizeChunk, Lock, CheckManifests, Slice, GetDeletesForFile,
         listVars
<1>4. CASE Apply(t) \/ ScanDeleteFile(t)
  BY <1>4
     DEF Apply, ScanDeleteFile, listVars, ReaderWhole, Opened, Reading, Finished
<1>5. CASE OpenFails(t) \/ ScanFails(t)
  BY <1>2, <1>5, ThrowFacts DEF listVars
<1>6. CASE ManifestsRead(t) \/ DeletesProcessed(t)
  BY <1>2, <1>6 DEF ManifestsRead, DeletesProcessed, listVars
<1>7. CASE OpenManifest(t)
  <2> DEFINE rows == ManifestRows(current_delete_manifest)
  <2>1. /\ ~AtEnd /\ Finished(delete_reader)
        /\ delete_reader' = ReadEntries(Initialize(delete_reader, rows),
                                        STANDARD_VECTOR_SIZE)
        /\ pc[t] = "manifests"
    BY <1>7 DEF OpenManifest, ManifestRows
  <2>2. rows \in Seq(RowStatus)
    BY <1>1, <2>1, InManifests, ManifestFacts DEF ListInv
  <2> HIDE DEF rows
  <2>3. WholeChunks(delete_reader')
    BY <1>1, <2>1, <2>2, OpenedWholeChunks DEF ReaderInv
  <2> QED
    BY <2>3 DEF ReaderWhole
<1>8. CASE ContinueManifest(t)
  <2>1. /\ ~Finished(delete_reader)
        /\ delete_reader' = ReadEntries(delete_reader, STANDARD_VECTOR_SIZE)
        /\ pc[t] = "manifests"
    BY <1>8 DEF ContinueManifest
  <2>2. ReaderOK(delete_reader) /\ delete_reader.at = "out"
    BY <1>1, <2>1, InManifests DEF ReaderInv
  <2>3. WholeChunks(delete_reader')
    BY <2>1, <2>2, ContinuedWholeChunks DEF ReaderWhole, Opened
  <2> QED
    BY <2>3 DEF ReaderWhole
<1>9. CASE ReadManifest(t)
  <2>1. /\ \/ ReadLoop(delete_reader, delete_reader')
           \/ EndOfCallback(delete_reader, delete_reader')
           \/ ProduceEntry(delete_reader, delete_reader')
        /\ pc[t] = "read"
    BY <1>9 DEF ReadManifest
  <2>2. Opened
    BY <2>1 DEF Opened, Reading
  <2>3. WholeChunks(delete_reader')
    BY <1>1, <2>1, <2>2, OpenedSkips, WholeChunksStep DEF ReaderInv, ReaderWhole
  <2> QED
    BY <2>3 DEF ReaderWhole
<1>10. CASE ManifestRead(t)
  <2>1. pc[t] = "read" /\ UNCHANGED delete_reader
    BY <1>10 DEF ManifestRead
  <2> QED
    BY <2>1 DEF ReaderWhole, Opened, Reading
<1> QED
  BY <1>3, <1>4, <1>5, <1>6, <1>7, <1>8, <1>9, <1>10
     DEF Thread, ProcessDeletes, Moves

-----------------------------------------------------------------------------

\* What is added stays.
LEMMA KnownStays ==
    ASSUME UNCHANGED delete_manifests, delete_data \subseteq delete_data'
    PROVE  /\ \A d : Added(d) => Added(d)'
           /\ \A e : Known(e) => Known(e)'
           /\ \A e : Deletes(e)' = Deletes(e)
BY DEF Added, Known, Deletes

\* Nothing is taken out of delete_data.
LEMMA DataGrows ==
    ASSUME NEW t \in Threads, Thread(t)
    PROVE  delete_data \subseteq delete_data'
BY DEF Thread, ProcessDeletes, FinalizeChunk, Lock, CheckManifests, OpenManifest,
       OpenFails, ContinueManifest, ReadManifest, ManifestRead, ManifestsRead,
       ScanDeleteFile, ScanFails, DeletesProcessed, GetDeletesForFile, Apply,
       Slice, Throw, listVars

\* The rows of a delete file that are scanned already are in delete_data.
LEMMA ScanSteps ==
    ASSUME Inv, ScanInv, NEW t \in Threads, Thread(t)
    PROVE  ScanInv'
<1>1. /\ Locks /\ ReaderInv /\ ListInv
      /\ UNCHANGED delete_manifests /\ delete_data \subseteq delete_data'
  BY ManifestsStay, DataGrows DEF Inv
\* A step outside the loop of ScanDeleteFile.
<1>2. ASSUME NEW label, Goto(t, label), UNCHANGED processVars,
             label \in {"manifests", "read"} => pc[t] \in {"manifests", "read"}
      PROVE  ScanInv'
  <2>1. \A u \in Threads : pc'[u] \in {"manifests", "read"} =>
            pc[u] \in {"manifests", "read"}
    BY <1>1, <1>2 DEF Goto, Locks
  <2> QED
    BY <1>1, <1>2, <2>1, KnownStays DEF ScanInv, processVars, Scanned
\* A step after which delete_files is empty.
<1>3. ASSUME delete_files' = <<>>, scanning' = 1, position' = 0
      PROVE  ScanInv'
  BY <1>3 DEF ScanInv
<1>4. CASE FinalizeChunk(t) \/ Lock(t) \/ GetDeletesForFile(t) \/ Slice(t)
  BY <1>2, <1>4 DEF FinalizeChunk, Lock, GetDeletesForFile, Slice
<1>5. CASE CheckManifests(t)
  BY <1>2, <1>3, <1>5 DEF CheckManifests
<1>6. CASE OpenFails(t) \/ ScanFails(t)
  BY <1>3, <1>6, ThrowFacts
<1>7. CASE \/ OpenManifest(t) \/ ContinueManifest(t) \/ ManifestRead(t)
           \/ ManifestsRead(t) \/ DeletesProcessed(t)
  BY <1>2, <1>7
     DEF OpenManifest, ContinueManifest, ManifestRead, ManifestsRead,
         DeletesProcessed
<1>8. CASE Apply(t)
  BY <1>1, <1>8, KnownStays DEF Apply, ScanInv, processVars, Scanned
<1>9. CASE ReadManifest(t)
  <2>1. scanning = 1 /\ position = 0 /\ UNCHANGED <<scanning, position, pc>>
    BY <1>9 DEF ReadManifest, ScanInv
  <2>2. \A k \in 1 .. Len(delete_files') : ~(k < 1)
    OBVIOUS
  <2>3. \A j \in 1 .. Len(Scanned') : ~(j <= 0)
    OBVIOUS
  <2> QED
    BY <2>1, <2>2, <2>3 DEF ScanInv
<1>10. CASE ScanDeleteFile(t)
  <2>1. /\ scanning \in 1 .. Len(delete_files)
        /\ UNCHANGED <<delete_files, pc>> /\ pc[t] = "scan"
        /\ position \in Nat /\ Len(delete_files) \in Nat
    BY <1>1, <1>10 DEF ScanDeleteFile, ListInv
  <2>2. \A u \in Threads : pc[u] \notin {"manifests", "read"}
    BY <1>1, <2>1, Alone DEF Holding
  <2>3. Len(Scanned) \in Nat
    <3>1. LiveEntry(delete_files[scanning])
      BY <1>1, <2>1 DEF ListInv
    <3> DEFINE e == delete_files[scanning]
    <3>2. delete_manifests[e[1]][e[2]] \in DeleteEntry
      BY <1>1, <3>1, ManifestFacts, SMTT(40) DEF LiveEntry, ListInv
    <3> QED
      BY <3>2 DEF Scanned, Deletes, DeleteEntry
  <2>4. CASE position < Len(Scanned)
    <3> DEFINE last == Smaller(position + STANDARD_VECTOR_SIZE, Len(Scanned))
    <3>1. /\ delete_data' = delete_data \cup
               {<<Key(Scanned[j][1]), Scanned[j][2]>> : j \in position + 1 .. last}
          /\ position' = last /\ scanning' = scanning
      BY <1>10, <2>4 DEF ScanDeleteFile
    <3>2. last \in Nat
      BY <2>1, <2>3, VectorSizeAssumption DEF Smaller
    <3> HIDE DEF last
    <3>3. Scanned' = Scanned
      BY <1>1, <2>1, <3>1 DEF Scanned, Deletes
    <3>4. ASSUME NEW j \in 1 .. Len(Scanned), j <= last
          PROVE  <<Key(Scanned[j][1]), Scanned[j][2]>> \in delete_data'
      <4>1. CASE j <= position
        BY <1>1, <2>1, <4>1 DEF ScanInv, Added
      <4>2. CASE j > position
        <5>1. j \in position + 1 .. last
          BY <2>1, <3>2, <3>4, <4>2
        <5> QED
          BY <3>1, <5>1
      <4> QED
        BY <2>1, <4>1, <4>2
    <3>5. \A k \in 1 .. Len(delete_files) :
              k < scanning => Known(delete_files[k])'
      BY <1>1, <2>1, KnownStays DEF ScanInv
    <3> QED
      BY <2>1, <2>2, <3>1, <3>3, <3>4, <3>5 DEF ScanInv, Added
  <2>5. CASE ~(position < Len(Scanned))
    <3>1. delete_data' = delete_data /\ position' = 0 /\ scanning' = scanning + 1
      BY <1>10, <2>5 DEF ScanDeleteFile
    <3>2. Known(delete_files[scanning])
      BY <2>1, <2>3, <2>5 DEF ScanInv, Known, Scanned
    <3>3. \A k \in 1 .. Len(delete_files) :
              k < scanning + 1 => Known(delete_files[k])
      BY <2>1, <3>2 DEF ScanInv
    <3>4. \A j \in 1 .. Len(Scanned') : ~(j <= 0)
      OBVIOUS
    <3> QED
      BY <1>1, <2>1, <2>2, <3>1, <3>3, <3>4, KnownStays DEF ScanInv
  <2> QED
    BY <2>4, <2>5
<1> QED
  BY <1>4, <1>5, <1>6, <1>7, <1>8, <1>9, <1>10 DEF Thread, ProcessDeletes

-----------------------------------------------------------------------------

Collected(e) == \E i \in 1 .. Len(delete_files) : delete_files[i] = e

\* What is collected stays when the list of delete files grows.
LEMMA CollectStep ==
    ASSUME LoadInv, failures = 0, Loads, UNCHANGED delete_manifests,
           \A e : Collected(e) => Collected(e)',
           \A m \in 1 .. Len(delete_manifests) : \A k \in Entries(m) :
               LiveEntry(<<m, k>>) /\ Past(<<m, k>>)'
                   => Past(<<m, k>>) \/ Collected(<<m, k>>)',
           Loads'
    PROVE  LoadInv'
<1>1. /\ \A e : LiveEntry(e)' <=> LiveEntry(e)
      /\ \A m : Entries(m)' = Entries(m)
  BY LiveStays DEF Entries
<1>2. ASSUME NEW m \in 1 .. Len(delete_manifests), NEW k \in Entries(m),
             LiveEntry(<<m, k>>), Past(<<m, k>>)'
      PROVE  Collected(<<m, k>>)'
  <2>1. CASE Past(<<m, k>>)
    <3>1. Collected(<<m, k>>)
      BY <1>2, <2>1 DEF LoadInv, Collected
    <3> QED
      BY <3>1
  <2>2. CASE Collected(<<m, k>>)'
    BY <2>2
  <2> QED
    BY <1>2, <2>1, <2>2
<1> QED
  BY <1>1, <1>2 DEF LoadInv, Collected

\* Without a failure, every delete that is past the iterator is in delete_data.
LEMMA LoadSteps ==
    ASSUME Inv, DeletedEntriesLast, ReaderWhole, ScanInv, LoadInv,
           NEW t \in Threads, Thread(t), failures' = 0
    PROVE  LoadInv'
<1>1. /\ Locks /\ ReaderInv /\ ListInv /\ PastManifests
      /\ UNCHANGED delete_manifests /\ delete_data \subseteq delete_data'
      /\ delete_manifests \in DeleteManifests
      /\ Len(delete_manifests) \in Nat /\ current_delete_manifest \in Nat
  BY ManifestsStay, DataGrows, ManifestsAssumption DEF Inv, ListInv
<1>2. /\ \A e : LiveEntry(e)' <=> LiveEntry(e)
      /\ \A m : Entries(m)' = Entries(m)
      /\ \A e : Known(e) => Known(e)'
  BY <1>1, LiveStays, KnownStays DEF Entries
<1>3. failures = 0 /\ failures \in Nat
  <2>1. failures \in Nat
    BY FailuresAssumption DEF Inv, QueryInv
  <2>2. failures' \in {failures, failures + 1}
    BY DEF Thread, ProcessDeletes, FinalizeChunk, Lock, CheckManifests,
           OpenManifest, OpenFails, ContinueManifest, ReadManifest,
           ManifestRead, ManifestsRead, ScanDeleteFile, ScanFails,
           DeletesProcessed, GetDeletesForFile, Apply, Slice, Throw, queryVars
  <2> QED
    BY <2>1, <2>2
\* A step that starts and ends no loading.
<1>4. ASSUME NEW label, Goto(t, label), UNCHANGED <<listVars, delete_files>>,
             label # "read", pc[t] # "read",
             label \in {"manifests", "read", "scan"} <=>
                 pc[t] \in {"manifests", "read", "scan"}
      PROVE  LoadInv'
  <2>1. Loads' <=> Loads
    BY <1>1, <1>4 DEF Goto, Locks, Loads
  <2>2. Opened' <=> Opened
    BY <1>1, <1>4, OpenedStays DEF listVars
  <2>3. \A e : Past(e)' <=> Past(e)
    BY <1>4, <2>2 DEF Past, listVars
  <2> QED
    BY <1>2, <1>3, <1>4, <2>1, <2>3 DEF LoadInv, AtEnd, listVars
<1>5. CASE FinalizeChunk(t) \/ Lock(t) \/ GetDeletesForFile(t) \/ Slice(t)
  BY <1>4, <1>5 DEF FinalizeChunk, Lock, GetDeletesForFile, Slice, processVars
<1>6. CASE CheckManifests(t)
  <2>1. CASE AtEnd
    BY <1>4, <1>6, <2>1 DEF CheckManifests, processVars
  <2>2. CASE ~AtEnd
    <3>1. pc[t] = "locked" /\ Goto(t, "manifests") /\ UNCHANGED listVars
      BY <1>6, <2>2 DEF CheckManifests
    <3>2. ~Loads /\ ~Reading
      BY <1>1, <3>1, Alone DEF Loads, Reading, Holding
    <3>3. current_delete_manifest = 1 /\ Finished(delete_reader)
      BY <1>3, <2>2, <3>2 DEF LoadInv
    <3>4. ~Opened'
      BY <1>1, <3>1, <3>2, <3>3, OpenedStays DEF Opened, listVars
    <3>5. \A m \in 1 .. Len(delete_manifests) : \A k : ~Past(<<m, k>>)'
      BY <3>1, <3>3, <3>4 DEF Past, listVars
    <3>6. Loads'
      BY <1>1, <3>1 DEF Goto, Locks, Loads
    <3> QED
      BY <1>1, <3>5, <3>6 DEF LoadInv
  <2> QED
    BY <2>1, <2>2
<1>7. CASE OpenFails(t) \/ ScanFails(t)
  <2>1. failures' = failures + 1
    BY <1>7, ThrowFacts DEF Throw
  <2> QED
    BY <1>3, <2>1
<1>8. CASE OpenManifest(t)
  <2> DEFINE rows == ManifestRows(current_delete_manifest)
  <2>1. /\ ~AtEnd /\ Finished(delete_reader) /\ Goto(t, "read")
        /\ delete_reader' = ReadEntries(Initialize(delete_reader, rows),
                                        STANDARD_VECTOR_SIZE)
        /\ pc[t] = "manifests"
        /\ UNCHANGED <<current_delete_manifest, delete_files>>
    BY <1>8 DEF OpenManifest, ManifestRows, processVars
  <2>2. rows \in Seq(RowStatus)
    BY <1>1, <2>1, InManifests, ManifestFacts DEF ListInv
  <2> HIDE DEF rows
  <2>3. Consumed(delete_reader') = 0
    BY <1>1, <2>1, <2>2, InitializeOK, ReadEntriesOK, VectorSizeAssumption
       DEF ReaderInv
  <2>4. Loads /\ Loads'
    BY <1>1, <2>1 DEF Goto, Locks, Loads
  <2>5. ASSUME NEW m \in 1 .. Len(delete_manifests), NEW k \in Entries(m),
               Past(<<m, k>>)'
        PROVE  Past(<<m, k>>)
    <3>1. k \in Nat /\ ~(k <= 0)
      BY DEF Entries
    <3> QED
      BY <2>1, <2>3, <2>5, <3>1 DEF Past
  <2> QED
    BY <1>1, <1>3, <2>1, <2>4, <2>5, CollectStep DEF Collected
<1>9. CASE ContinueManifest(t)
  <2>1. /\ ~Finished(delete_reader) /\ Goto(t, "read")
        /\ delete_reader' = ReadEntries(delete_reader, STANDARD_VECTOR_SIZE)
        /\ pc[t] = "manifests"
        /\ UNCHANGED <<current_delete_manifest, delete_files>>
    BY <1>9 DEF ContinueManifest, processVars
  <2>2. ReaderOK(delete_reader) /\ delete_reader.at = "out"
    BY <1>1, <2>1, InManifests DEF ReaderInv
  <2>3. Consumed(delete_reader') = Consumed(delete_reader)
    BY <2>1, <2>2, ReadEntriesOK, VectorSizeAssumption
  <2>4. Loads /\ Loads' /\ Opened
    BY <1>1, <2>1 DEF Goto, Locks, Loads, Opened
  <2>5. \A e : Past(e)' => Past(e)
    BY <2>1, <2>3, <2>4 DEF Past
  <2> QED
    BY <1>1, <1>3, <2>1, <2>4, <2>5, CollectStep DEF Collected
<1>10. CASE ReadManifest(t)
  <2> DEFINE row == Row(delete_reader)
  <2>1. /\ pc[t] = "read"
        /\ UNCHANGED <<current_delete_manifest, pc>>
        /\ \/ /\ \/ ReadLoop(delete_reader, delete_reader')
                 \/ EndOfCallback(delete_reader, delete_reader')
              /\ UNCHANGED delete_files
           \/ /\ ProduceEntry(delete_reader, delete_reader')
              /\ delete_files' =
                    IF Kept(delete_reader)
                    THEN Append(delete_files, <<current_delete_manifest, row>>)
                    ELSE delete_files
    BY <1>10 DEF ReadManifest
  <2>2. /\ Loads /\ Loads' /\ Opened /\ Reading
        /\ ReaderOK(delete_reader) /\ WholeChunks(delete_reader)
        /\ SkipsLastChunk(delete_reader)
    BY <1>1, <2>1, OpenedSkips DEF Loads, Opened, Reading, ReaderWhole, ReaderInv
  <2>3. CASE /\ \/ ReadLoop(delete_reader, delete_reader')
                \/ EndOfCallback(delete_reader, delete_reader')
             /\ UNCHANGED delete_files
    <3>1. Consumed(delete_reader') = Consumed(delete_reader)
      BY <2>2, <2>3, WholeChunksStep
    <3>2. \A e : Past(e)' => Past(e)
      BY <2>1, <2>2, <3>1 DEF Past
    <3> QED
      BY <1>1, <1>3, <2>2, <2>3, <3>2, CollectStep DEF Collected
  <2>4. CASE /\ ProduceEntry(delete_reader, delete_reader')
             /\ delete_files' =
                   IF Kept(delete_reader)
                   THEN Append(delete_files, <<current_delete_manifest, row>>)
                   ELSE delete_files
    <3>1. /\ row = Consumed(delete_reader) + 1
          /\ Consumed(delete_reader') = row
          /\ Consumed(delete_reader) \in Nat /\ row \in Nat
      BY <2>2, <2>4, ProduceEntryOK, ConsumedNat
    <3>2. /\ delete_reader.file = ManifestRows(current_delete_manifest)
          /\ current_delete_manifest \in 1 .. Len(delete_manifests)
      BY <1>1, <2>1, <2>2, InManifests DEF ReaderInv
    <3> HIDE DEF row
    <3>3. \A e : Collected(e) => Collected(e)'
      <4>1. /\ Len(delete_files') \in Nat /\ Len(delete_files) \in Nat
            /\ Len(delete_files) <= Len(delete_files')
            /\ \A i \in 1 .. Len(delete_files) : delete_files'[i] = delete_files[i]
        BY <1>1, <2>4, <3>1 DEF ListInv
      <4> QED
        BY <4>1 DEF Collected
    <3>4. ASSUME NEW m \in 1 .. Len(delete_manifests), NEW k \in Entries(m),
                 LiveEntry(<<m, k>>), Past(<<m, k>>)', ~Past(<<m, k>>)
          PROVE  Collected(<<m, k>>)'
      <4>1. k \in Nat
        BY DEF Entries
      <4>2. m = current_delete_manifest /\ k <= row /\ ~(k <= Consumed(delete_reader))
        BY <2>1, <2>2, <3>1, <3>4 DEF Past
      <4>3. k = row
        BY <3>1, <4>1, <4>2
      <4>4. Kept(delete_reader)
        <5>1. delete_reader.file[row] # "DELETED"
          BY <1>1, <3>2, <3>4, <4>2, <4>3, ManifestFacts DEF LiveEntry
        <5> QED
          BY <5>1 DEF Kept, row
      <4>5. delete_files' = Append(delete_files, <<m, k>>)
        BY <2>4, <4>2, <4>3, <4>4
      <4>6. /\ Len(delete_files) + 1 \in 1 .. Len(delete_files')
            /\ delete_files'[Len(delete_files) + 1] = <<m, k>>
        BY <1>1, <4>5 DEF ListInv
      <4> QED
        BY <4>6 DEF Collected
    <3> QED
      BY <1>1, <1>3, <2>2, <3>3, <3>4, CollectStep
  <2> QED
    BY <2>1, <2>3, <2>4
<1>11. CASE ManifestRead(t)
  <2>1. /\ pc[t] = "read" /\ delete_reader.at = "out" /\ Goto(t, "manifests")
        /\ UNCHANGED <<delete_reader, delete_files>>
        /\ current_delete_manifest' = IF Finished(delete_reader)
                                      THEN current_delete_manifest + 1
                                      ELSE current_delete_manifest
    BY <1>11 DEF ManifestRead, processVars
  <2>2. Loads /\ Loads' /\ Opened
    BY <1>1, <2>1 DEF Goto, Locks, Loads, Opened, Reading
  <2>3. ~Reading'
    BY <1>1, <2>1, Alone DEF Goto, Reading, Locks, Holding
  <2>4. ASSUME NEW m \in 1 .. Len(delete_manifests), NEW k \in Entries(m),
               Past(<<m, k>>)'
        PROVE  Past(<<m, k>>)
    <3>1. CASE ~Finished(delete_reader)
      BY <2>1, <2>2, <2>4, <3>1 DEF Past
    <3>2. CASE Finished(delete_reader)
      <4>1. m < current_delete_manifest + 1
        BY <2>1, <2>3, <2>4, <3>2 DEF Past, Opened, Finished
      <4>2. CASE m < current_delete_manifest
        BY <4>2 DEF Past
      <4>3. CASE m = current_delete_manifest
        <5>1. /\ Consumed(delete_reader) = Len(delete_reader.file)
              /\ delete_reader.file = ManifestRows(m)
          <6>1. /\ WholeChunks(delete_reader) /\ ReaderOK(delete_reader)
                /\ delete_reader.file = ManifestRows(m)
            BY <1>1, <2>2, <4>3 DEF ReaderWhole, ReaderInv, Opened
          <6>2. /\ delete_reader.fetched = Len(delete_reader.file)
                /\ delete_reader.offset >= delete_reader.size
            BY <2>1, <3>2, <6>1 DEF WholeChunks, Finished
          <6>3. /\ delete_reader.fetched \in Nat /\ delete_reader.size \in Nat
                /\ delete_reader.offset \in Nat
            BY <6>1, ReaderFields DEF ReaderOK
          <6> QED
            BY <2>1, <6>1, <6>2, <6>3 DEF Consumed, Smaller
        <5>2. Len(ManifestRows(m)) = Len(delete_manifests[m])
          BY <1>1, ManifestFacts
        <5>3. k <= Consumed(delete_reader)
          BY <5>1, <5>2 DEF Entries
        <5> QED
          BY <2>2, <4>3, <5>3 DEF Past
      <4> QED
        BY <1>1, <4>1, <4>2, <4>3
    <3> QED
      BY <3>1, <3>2
  <2> QED
    BY <1>1, <1>3, <2>1, <2>2, <2>4, CollectStep DEF Collected
<1>12. CASE ManifestsRead(t)
  BY <1>4, <1>12 DEF ManifestsRead, processVars
<1>13. CASE ScanDeleteFile(t)
  <2>1. UNCHANGED <<current_delete_manifest, delete_reader, delete_files, pc>>
        /\ pc[t] = "scan"
    BY <1>13 DEF ScanDeleteFile
  <2>2. Loads /\ Loads' /\ \A e : Past(e)' <=> Past(e)
    BY <2>1 DEF Loads, Past, Opened, Reading, Finished
  <2> QED
    BY <1>1, <1>3, <2>1, <2>2, CollectStep DEF Collected
<1>14. CASE DeletesProcessed(t)
  <2>1. /\ pc[t] = "scan" /\ scanning > Len(delete_files) /\ Goto(t, "find")
        /\ UNCHANGED <<listVars, processVars>>
    BY <1>14 DEF DeletesProcessed
  <2>2. AtEnd /\ Loads
    BY <1>1, <2>1 DEF PastManifests, Loads
  <2>3. ~Loads'
    BY <1>1, <2>1, Alone DEF Goto, Locks, Loads, Holding
  <2>4. AtEnd'
    BY <2>1, <2>2 DEF AtEnd, listVars
  <2>5. ASSUME NEW m \in 1 .. Len(delete_manifests), NEW k \in Entries(m),
               LiveEntry(<<m, k>>)
        PROVE  Known(<<m, k>>)
    <3>1. Past(<<m, k>>)
      BY <1>1, <2>2 DEF AtEnd, Past
    <3>2. PICK i \in 1 .. Len(delete_files) : delete_files[i] = <<m, k>>
      BY <1>3, <2>2, <2>5, <3>1 DEF LoadInv
    <3>3. i < scanning
      BY <1>1, <2>1 DEF ListInv
    <3> QED
      BY <3>2, <3>3 DEF ScanInv
  <2> QED
    BY <1>1, <1>2, <2>3, <2>4, <2>5 DEF LoadInv
<1>15. CASE Apply(t)
  BY <1>2, <1>15
     DEF Apply, listVars, processVars, queryVars, LoadInv, Loads, AtEnd, Past,
         Opened, Reading, Finished
<1> QED
  BY <1>5, <1>6, <1>7, <1>8, <1>9, <1>10, <1>11, <1>12, <1>13, <1>14, <1>15
     DEF Thread, ProcessDeletes

-----------------------------------------------------------------------------

\* A chunk's rows are rows of the data files.
LEMMA ChunkRows ==
    ASSUME NEW c \in Chunks
    PROVE  {c.file} \X RowsOf(c.rows) \subseteq AllRows
BY DEF AllRows

\* A thread emits the rows of its chunk that no live delete names.
LEMMA EmitSteps ==
    ASSUME Inv, LoadInv, EmitInv, NEW t \in Threads, Thread(t)
    PROVE  EmitInv'
<1>1. /\ Locks /\ ThreadInv /\ PastManifests /\ ListInv
      /\ UNCHANGED delete_manifests
      /\ LiveDeletes' = LiveDeletes /\ failures \in Nat
  BY ManifestsStay, FailuresAssumption DEF Inv, LiveDeletes, QueryInv
\* A step of a thread that neither enters Apply nor passes rows on.
<1>2. ASSUME NEW label, Goto(t, label), label # "apply",
             \A u \in Threads \ {t} : chunk'[u] = chunk[u],
             UNCHANGED <<kept, emitted>>,
             failures' = failures \/ failures' = failures + 1
      PROVE  EmitInv'
  <2>1. \A u \in Threads : pc'[u] = "apply" => u # t /\ pc[u] = "apply"
    BY <1>1, <1>2 DEF Goto, Locks
  <2>2. failures' = 0 => failures = 0
    BY <1>1, <1>2
  <2> QED
    BY <1>1, <1>2, <2>1, <2>2 DEF EmitInv
<1>3. CASE FinalizeChunk(t)
  <2>1. PICK c : chunk' = [chunk EXCEPT ![t] = c]
    BY <1>3 DEF FinalizeChunk
  <2>2. \A u \in Threads \ {t} : chunk'[u] = chunk[u]
    BY <1>1, <2>1 DEF ThreadInv
  <2> QED
    BY <1>2, <1>3, <2>2 DEF FinalizeChunk
<1>4. CASE \/ Lock(t) \/ CheckManifests(t) \/ OpenManifest(t)
           \/ ContinueManifest(t) \/ ManifestRead(t) \/ ManifestsRead(t)
           \/ DeletesProcessed(t)
  BY <1>2, <1>4
     DEF Lock, CheckManifests, OpenManifest, ContinueManifest, ManifestRead,
         ManifestsRead, DeletesProcessed, threadVars, queryVars
<1>5. CASE OpenFails(t) \/ ScanFails(t)
  <2>1. Throw(t)
    BY <1>5, ThrowFacts
  <2>2. \A u \in Threads \ {t} : chunk'[u] = chunk[u]
    BY <1>1, <2>1 DEF ThreadInv, Throw
  <2> QED
    BY <1>2, <2>1, <2>2 DEF Throw
<1>6. CASE ReadManifest(t) \/ ScanDeleteFile(t)
  BY <1>1, <1>6 DEF ReadManifest, ScanDeleteFile, threadVars, queryVars, EmitInv
<1>7. CASE GetDeletesForFile(t)
  <2>1. /\ pc[t] = "find" /\ chunk[t] \in Chunks /\ failures' = failures
    BY <1>1, <1>7 DEF GetDeletesForFile, ThreadInv
  <2>2. CASE HasDeletes(chunk[t].file)
    <3>1. /\ Goto(t, "apply") /\ kept' = [kept EXCEPT ![t] = {}]
          /\ UNCHANGED <<chunk, emitted>>
      BY <1>7, <2>2 DEF GetDeletesForFile
    <3>2. /\ kept'[t] = {}
          /\ \A u \in Threads \ {t} : kept'[u] = kept[u] /\ pc'[u] = pc[u]
      BY <1>1, <3>1 DEF ThreadInv, Goto, Locks
    <3> QED
      BY <1>1, <2>1, <3>1, <3>2 DEF EmitInv
  <2>3. CASE ~HasDeletes(chunk[t].file)
    <3>1. /\ Goto(t, "idle") /\ kept' = kept
          /\ emitted' = emitted \cup {chunk[t].file} \X RowsOf(chunk[t].rows)
          /\ chunk' = [chunk EXCEPT ![t] = NoChunk]
      BY <1>7, <2>3 DEF GetDeletesForFile
    <3>2. emitted' \subseteq AllRows
      BY <2>1, <3>1, ChunkRows DEF EmitInv
    <3>3. ASSUME failures = 0, NEW d \in LiveDeletes, d[1] = chunk[t].file
          PROVE  FALSE
      <4>1. Added(d)
        BY <2>1, <3>3, UserKnows
      <4> QED
        BY <2>3, <3>3, <4>1 DEF Added, HasDeletes
    <3>4. failures = 0 => emitted' \cap LiveDeletes = {}
      BY <3>1, <3>3 DEF EmitInv
    <3>5. \A u \in Threads : pc'[u] = "apply" =>
              pc[u] = "apply" /\ chunk'[u] = chunk[u]
      BY <1>1, <3>1 DEF Goto, Locks, ThreadInv
    <3> QED
      BY <1>1, <2>1, <3>1, <3>2, <3>4, <3>5 DEF EmitInv
  <2> QED
    BY <2>2, <2>3
<1>8. CASE Apply(t)
  <2> DEFINE row == chunk[t].rows[tuple[t]]
             file == chunk[t].file
  <2>1. /\ pc[t] = "apply" /\ tuple[t] <= Len(chunk[t].rows)
        /\ UNCHANGED <<pc, chunk, emitted, failures>>
        /\ kept' = [kept EXCEPT ![t] = IF <<Key(file), row>> \in delete_data
                                       THEN kept[t] ELSE kept[t] \cup {row}]
    BY <1>8 DEF Apply, queryVars
  <2>2. row \in RowsOf(chunk[t].rows)
    BY <1>1, <2>1, ChunkFacts DEF ThreadInv, RowsOf
  <2>3. ASSUME failures = 0, <<file, row>> \in LiveDeletes
        PROVE  <<Key(file), row>> \in delete_data
    BY <2>1, <2>3, UserKnows DEF Added
  <2>4. \A u \in Threads \ {t} : kept'[u] = kept[u]
    BY <1>1, <2>1 DEF ThreadInv
  <2>5. /\ kept'[t] \subseteq kept[t] \cup {row}
        /\ failures = 0 /\ <<file, row>> \in LiveDeletes => kept'[t] = kept[t]
    BY <1>1, <2>1, <2>3 DEF ThreadInv
  <2> HIDE DEF row
  <2>6. failures = 0 => ({file} \X kept'[t]) \cap LiveDeletes = {}
    BY <2>1, <2>5 DEF EmitInv
  <2>7. kept'[t] \subseteq RowsOf(chunk[t].rows)
    BY <2>1, <2>2, <2>5 DEF EmitInv
  <2> QED
    BY <1>1, <2>1, <2>4, <2>6, <2>7 DEF EmitInv
<1>9. CASE Slice(t)
  <2>1. /\ Goto(t, "idle") /\ pc[t] = "apply" /\ UNCHANGED <<kept, failures>>
        /\ emitted' = emitted \cup {chunk[t].file} \X kept[t]
        /\ chunk' = [chunk EXCEPT ![t] = NoChunk]
        /\ chunk[t] \in Chunks
    BY <1>1, <1>9 DEF Slice, ThreadInv
  <2>2. kept[t] \subseteq RowsOf(chunk[t].rows)
    BY <2>1 DEF EmitInv
  <2>3. emitted' \subseteq AllRows
    BY <2>1, <2>2, ChunkRows DEF EmitInv
  <2>4. failures = 0 => emitted' \cap LiveDeletes = {}
    BY <2>1 DEF EmitInv
  <2>5. \A u \in Threads : pc'[u] = "apply" =>
            pc[u] = "apply" /\ chunk'[u] = chunk[u]
    BY <1>1, <2>1 DEF Goto, Locks, ThreadInv
  <2> QED
    BY <1>1, <2>1, <2>3, <2>4, <2>5 DEF EmitInv
<1> QED
  BY <1>3, <1>4, <1>5, <1>6, <1>7, <1>8, <1>9 DEF Thread, ProcessDeletes

-----------------------------------------------------------------------------

\* Nothing is read, scanned or emitted at first.
LEMMA InitExact == Init => ExactInv
<1> SUFFICES ASSUME Init PROVE ExactInv
  OBVIOUS
<1>1. Finished(delete_reader) /\ ~Reading /\ ~Loads
  BY DEF Init, NewReader, Finished, Reading, Loads
<1>2. ReaderWhole
  BY <1>1 DEF ReaderWhole, Opened
<1>3. ScanInv
  BY DEF Init, ScanInv
<1>4. LoadInv
  <2>1. AtEnd => \A m \in 1 .. Len(delete_manifests) : FALSE
    <3>1. Len(delete_manifests) \in Nat
      BY ManifestsAssumption DEF Init
    <3> QED
      BY <3>1 DEF Init, AtEnd
  <2> QED
    BY <1>1, <2>1 DEF Init, LoadInv
<1>5. EmitInv
  BY DEF Init, EmitInv
<1> QED
  BY <1>2, <1>3, <1>4, <1>5 DEF ExactInv

\* No step leaves the invariant that makes the emitted rows exact.
LEMMA NextExact ==
    ASSUME DeletedEntriesLast
    PROVE  Inv /\ ExactInv /\ [Next]_vars => ExactInv'
<1> SUFFICES ASSUME Inv, ExactInv, [Next]_vars PROVE ExactInv'
  OBVIOUS
<1>1. ReaderWhole /\ ScanInv /\ LoadInv /\ EmitInv
  BY DEF ExactInv
<1>2. ASSUME NEW t \in Threads, Thread(t) PROVE ExactInv'
  <2>1. ReaderWhole' /\ ScanInv' /\ EmitInv'
    BY <1>1, <1>2, WholeSteps, ScanSteps, EmitSteps
  <2>2. failures' = 0 => LoadInv'
    BY <1>1, <1>2, LoadSteps
  <2>3. failures' # 0 => LoadInv'
    BY DEF LoadInv
  <2> QED
    BY <2>1, <2>2, <2>3 DEF ExactInv
\* The executions, and steps of others, touch only what was passed on.
<1>3. ASSUME UNCHANGED <<listVars, processVars, threadVars, failures, pc>>,
             emitted' = emitted \/ emitted' = {}
      PROVE  ExactInv'
  <2>1. UNCHANGED <<delete_manifests, current_delete_manifest, delete_reader,
                    delete_data, delete_files, scanning, position, chunk, tuple,
                    kept, failures, pc>>
    BY <1>3 DEF listVars, processVars, threadVars
  <2>2. ReaderWhole'
    BY <1>1, <2>1 DEF ReaderWhole, Opened, Reading, Finished
  <2>3. ScanInv'
    BY <1>1, <2>1, KnownStays DEF ScanInv, Scanned
  <2>4. LoadInv'
    BY <1>1, <2>1, KnownStays, LiveStays
       DEF LoadInv, Loads, AtEnd, Past, Opened, Reading, Finished, Entries
  <2>5. EmitInv'
    BY <1>1, <1>3, <2>1 DEF EmitInv, LiveDeletes
  <2> QED
    BY <2>2, <2>3, <2>4, <2>5 DEF ExactInv
<1>4. CASE Finish \/ Execute
  BY <1>3, <1>4 DEF Finish, Execute
<1>5. CASE UNCHANGED vars
  BY <1>3, <1>5 DEF vars, queryVars
<1> QED
  BY <1>2, <1>4, <1>5 DEF Next

\* The invariant of a snapshot whose manifests have DELETED entries in their last
\* chunk only.
LEMMA ExactInvHolds ==
    ASSUME DeletedEntriesLast
    PROVE  Spec => [](Inv /\ ExactInv)
<1>1. Inv /\ ExactInv /\ [Next]_vars => Inv' /\ ExactInv'
  BY NextInv, NextExact
<1> QED
  BY <1>1, InitInv, InitExact, PTL DEF Spec

\* As long as nothing has failed, a chunk is filtered only when all deletes of
\* the snapshot are known, for all threads, chunks and vector sizes: what
\* iceberg_multi_file_reader.cpp:492-493 says holds up to the first exception.
THEOREM KnownUntilFailure ==
    ASSUME DeletedEntriesLast
    PROVE  Spec => [](failures = 0 => DeletesKnown)
<1>1. Inv /\ ExactInv => (failures = 0 => DeletesKnown)
  BY UserKnows DEF ExactInv, DeletesKnown, Added
<1> QED
  BY <1>1, ExactInvHolds, PTL

\* An execution that finishes without a failure returns exactly the rows that no
\* live entry deletes, however the threads share the chunks and the loading of
\* the deletes, if no two paths differ in case only and the DELETED entries of a
\* delete manifest are in its last chunk.
THEOREM ExactResult ==
    ASSUME KeysDiffer, DeletedEntriesLast
    PROVE  Spec => []ResultIsExact
<1>1. Inv /\ ExactInv => ResultIsExact
  <2> SUFFICES ASSUME Inv, ExactInv, query = "finished", failures = 0
               PROVE  emitted = AllRows \ LiveDeletes
    BY DEF ResultIsExact
  <2>1. emitted \subseteq AllRows \ LiveDeletes
    BY DEF ExactInv, EmitInv
  <2>2. ASSUME NEW r \in AllRows \ LiveDeletes
        PROVE  r \in emitted
    <3>1. PICK c \in Chunks : r \in {c.file} \X RowsOf(c.rows)
      BY DEF AllRows
    <3>2. PICK j \in 1 .. Len(c.rows) : r = <<c.file, c.rows[j]>>
      BY <3>1 DEF RowsOf
    <3>3. PassedOn(c)
      BY DEF Inv, QueryInv, AllIdle
    <3>4. ASSUME IsLive(Key(c.file), c.rows[j])
          PROVE  FALSE
      <4>1. PICK d \in LiveDeletes : Key(d[1]) = Key(c.file) /\ d[2] = c.rows[j]
        BY <3>4 DEF IsLive
      <4>2. d \in DataFiles \X Nat
        BY LiveDeleteTypes DEF Inv, ListInv
      <4>3. d = <<d[1], d[2]>> /\ d[1] = c.file
        BY <4>1, <4>2, ChunkFacts DEF KeysDiffer
      <4> QED
        BY <2>2, <3>2, <4>1, <4>3
    <3> QED
      BY <3>2, <3>3, <3>4 DEF PassedOn
  <2> QED
    BY <2>1, <2>2
<1> QED
  BY <1>1, ExactInvHolds, PTL
=============================================================================
