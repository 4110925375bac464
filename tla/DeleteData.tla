------------------------------ MODULE DeleteData ------------------------------
(***************************************************************************)
(* How a scan applies positional deletes: FinalizeChunk on every thread,    *)
(* ProcessDeletes under delete_lock, ScanDeleteFile, GetDeletesForFile and  *)
(* IcebergDeleteData::Apply outside the lock                                *)
(* (src/src/iceberg_functions/iceberg_multi_file_reader.cpp).  The file     *)
(* list, with all of the state below but that of the threads, lives as long *)
(* as the plan: an execution may be followed by another one.                *)
(***************************************************************************)
EXTENDS ManifestReader

CONSTANTS
    Threads,
    DataFiles, Key(_),   \* paths, and what case_insensitive_map_t makes of one
    Chunks,              \* the chunks of the data files: [file, rows]
    DeleteManifests,     \* the delete manifests that a snapshot may have
    MaxFailures          \* bound: files that cannot be opened or read

\* A row of a delete file: a data file's path and the position of a row in it.
DeleteRow == DataFiles \X Nat
DeleteEntry == [status : EntryStatus, deletes : Seq(DeleteRow)]

ASSUME ChunksAssumption == Chunks \subseteq [file : DataFiles, rows : Seq(Nat)]
ASSUME ManifestsAssumption == DeleteManifests \subseteq Seq(Seq(DeleteEntry))
ASSUME FailuresAssumption == MaxFailures \in Nat

VARIABLES
    delete_manifests,
    current_delete_manifest,  \* iterator: one past the last is end()
    delete_reader,            \* delete_manifest_entry_reader
    delete_data,              \* pairs <<key, row>>
    delete_lock,              \* the thread that holds it, or NoThread
    delete_files,             \* local of ProcessDeletes
    scanning, position,       \* of ScanDeleteFile: file, rows read
    pc, chunk, tuple, kept,   \* of each thread
    todo,                     \* chunks that no thread has taken
    emitted,                  \* <<file, row>> that FinalizeChunk let through
    query,                    \* the execution: running, failed or finished
    failures

listVars == <<delete_manifests, current_delete_manifest, delete_reader,
              delete_data>>
processVars == <<delete_files, scanning, position>>
threadVars == <<chunk, tuple, kept>>
queryVars == <<todo, emitted, query, failures>>
vars == <<listVars, processVars, threadVars, queryVars, delete_lock, pc>>

NoThread == "unlocked"
ASSUME ThreadsAssumption == NoThread \notin Threads

NoChunk == [file |-> "none", rows |-> <<>>]

PC == {"idle", "wait", "locked", "manifests", "read", "scan", "find", "apply"}
Holding == {"locked", "manifests", "read", "scan", "find"}

TypeOK ==
    /\ delete_manifests \in DeleteManifests
    /\ current_delete_manifest \in 1 .. Len(delete_manifests) + 1
    /\ delete_reader \in Reader
    /\ \A d \in delete_data : d[2] \in Nat
    /\ delete_lock \in Threads \cup {NoThread}
    /\ delete_files \in Seq(Nat \X Nat)
    /\ scanning \in Nat
    /\ position \in Nat
    /\ pc \in [Threads -> PC]
    /\ chunk \in [Threads -> Chunks \cup {NoChunk}]
    /\ tuple \in [Threads -> Nat]
    /\ kept \in [Threads -> SUBSET Nat]
    /\ todo \in SUBSET Chunks
    /\ emitted \subseteq DataFiles \X Nat
    /\ query \in {"running", "failed", "finished"}
    /\ failures \in 0 .. MaxFailures

Init ==
    /\ delete_manifests \in DeleteManifests
    /\ current_delete_manifest = 1
    /\ delete_reader = NewReader(TRUE)
    /\ delete_data = {}
    /\ delete_lock = NoThread
    /\ delete_files = <<>>
    /\ scanning = 1
    /\ position = 0
    /\ pc = [t \in Threads |-> "idle"]
    /\ chunk = [t \in Threads |-> NoChunk]
    /\ tuple = [t \in Threads |-> 1]
    /\ kept = [t \in Threads |-> {}]
    /\ todo = Chunks
    /\ emitted = {}
    /\ query = "running"
    /\ failures = 0

AtEnd == current_delete_manifest > Len(delete_manifests)

Goto(t, label) == pc' = [pc EXCEPT ![t] = label]

-----------------------------------------------------------------------------
(* FinalizeChunk, up to the lock *)

FinalizeChunk(t) ==
    /\ pc[t] = "idle"
    /\ query = "running"
    /\ \E c \in todo :
           /\ chunk' = [chunk EXCEPT ![t] = c]
           /\ todo' = todo \ {c}
    /\ Goto(t, "wait")
    /\ UNCHANGED <<listVars, processVars, tuple, kept, emitted, query,
                   failures, delete_lock>>

\* Mutant of Lock: delete_lock excludes nobody.
LockShared(t) ==
    /\ pc[t] = "wait"
    /\ delete_lock' = t
    /\ Goto(t, "locked")
    /\ UNCHANGED <<listVars, processVars, threadVars, queryVars>>

Lock(t) ==
    /\ pc[t] = "wait"
    /\ delete_lock = NoThread
    /\ delete_lock' = t
    /\ Goto(t, "locked")
    /\ UNCHANGED <<listVars, processVars, threadVars, queryVars>>

\* ProcessDeletes is called unless the iterator is at the end.
CheckManifests(t) ==
    /\ pc[t] = "locked"
    /\ IF AtEnd THEN Goto(t, "find") /\ UNCHANGED processVars
                ELSE /\ Goto(t, "manifests")
                     /\ delete_files' = <<>>
                     /\ scanning' = 1
                     /\ position' = 0
    /\ UNCHANGED <<listVars, threadVars, queryVars, delete_lock>>

-----------------------------------------------------------------------------
(* ProcessDeletes *)

\* An exception unwinds to DuckDB: the guard unlocks, delete_files is gone,
\* the iterator and the reader stay where they are, the execution fails.
Throw(t) ==
    /\ failures < MaxFailures
    /\ failures' = failures + 1
    /\ query' = "failed"
    /\ delete_lock' = NoThread
    /\ delete_files' = <<>>
    /\ scanning' = 1
    /\ position' = 0
    /\ chunk' = [chunk EXCEPT ![t] = NoChunk]
    /\ Goto(t, "idle")
    /\ UNCHANGED <<listVars, tuple, kept, todo, emitted>>

OpenManifest(t) ==
    /\ pc[t] = "manifests"
    /\ ~AtEnd
    /\ Finished(delete_reader)
    /\ LET entries == delete_manifests[current_delete_manifest]
           rows == [k \in 1 .. Len(entries) |-> entries[k].status]
       IN  delete_reader' = ReadEntries(Initialize(delete_reader, rows),
                                        STANDARD_VECTOR_SIZE)
    /\ Goto(t, "read")
    /\ UNCHANGED <<delete_manifests, current_delete_manifest, delete_data,
                   processVars, threadVars, queryVars, delete_lock>>

OpenFails(t) ==
    /\ pc[t] = "manifests"
    /\ ~AtEnd
    /\ Finished(delete_reader)
    /\ Throw(t)

ContinueManifest(t) ==
    /\ pc[t] = "manifests"
    /\ ~AtEnd
    /\ ~Finished(delete_reader)
    /\ delete_reader' = ReadEntries(delete_reader, STANDARD_VECTOR_SIZE)
    /\ Goto(t, "read")
    /\ UNCHANGED <<delete_manifests, current_delete_manifest, delete_data,
                   processVars, threadVars, queryVars, delete_lock>>

ReadManifest(t) ==
    /\ pc[t] = "read"
    /\ \/ /\ \/ ReadLoop(delete_reader, delete_reader')
             \/ EndOfCallback(delete_reader, delete_reader')
          /\ UNCHANGED delete_files
       \/ /\ ProduceEntry(delete_reader, delete_reader')
          /\ delete_files' =
               IF Kept(delete_reader)
               THEN Append(delete_files, <<current_delete_manifest,
                                           Row(delete_reader)>>)
               ELSE delete_files
    /\ UNCHANGED <<delete_manifests, current_delete_manifest, delete_data,
                   scanning, position, threadVars, queryVars, delete_lock, pc>>

ManifestRead(t) ==
    /\ pc[t] = "read"
    /\ delete_reader.at = "out"
    /\ current_delete_manifest' = IF Finished(delete_reader)
                                  THEN current_delete_manifest + 1
                                  ELSE current_delete_manifest
    /\ Goto(t, "manifests")
    /\ UNCHANGED <<delete_manifests, delete_reader, delete_data, processVars,
                   threadVars, queryVars, delete_lock>>

\* Mutant of ManifestsRead: deletes are scanned manifest by manifest.
ManifestsReadEarly(t) ==
    /\ pc[t] = "manifests"
    /\ AtEnd \/ (delete_files # <<>> /\ Finished(delete_reader))
    /\ Goto(t, "scan")
    /\ UNCHANGED <<listVars, processVars, threadVars, queryVars, delete_lock>>

ManifestsRead(t) ==
    /\ pc[t] = "manifests"
    /\ AtEnd
    /\ Goto(t, "scan")
    /\ UNCHANGED <<listVars, processVars, threadVars, queryVars, delete_lock>>

\* The deletes of the delete file that ScanDeleteFile is at.
Deletes(e) == delete_manifests[e[1]][e[2]].deletes
Scanned == Deletes(delete_files[scanning])

\* Mutant of ScanDeleteFile: the path is looked up once for each chunk.
ScanOnePath(t) ==
    /\ pc[t] = "scan"
    /\ scanning <= Len(delete_files)
    /\ IF position < Len(Scanned)
       THEN LET last == Smaller(position + STANDARD_VECTOR_SIZE, Len(Scanned))
            IN  /\ delete_data' = delete_data \cup
                      {<<Key(Scanned[position + 1][1]), Scanned[j][2]>> :
                           j \in position + 1 .. last}
                /\ position' = last
                /\ UNCHANGED scanning
       ELSE /\ scanning' = scanning + 1
            /\ position' = 0
            /\ UNCHANGED delete_data
    /\ UNCHANGED <<delete_manifests, current_delete_manifest, delete_reader,
                   delete_files, threadVars, queryVars, delete_lock, pc>>

\* Mutant of ScanDeleteFile: the last chunk is not reset, so that the loop of
\* the file does not end.
ScanForever(t) ==
    /\ pc[t] = "scan"
    /\ scanning <= Len(delete_files)
    /\ position' = IF position < Len(Scanned) THEN Len(Scanned) ELSE 0
    /\ delete_data' = delete_data \cup
          {<<Key(Scanned[j][1]), Scanned[j][2]>> : j \in 1 .. Len(Scanned)}
    /\ UNCHANGED <<delete_manifests, current_delete_manifest, delete_reader,
                   delete_files, scanning, threadVars, queryVars, delete_lock,
                   pc>>

\* One chunk of the delete file: a row of it is added under its own path.
ScanDeleteFile(t) ==
    /\ pc[t] = "scan"
    /\ scanning <= Len(delete_files)
    /\ IF position < Len(Scanned)
       THEN LET last == Smaller(position + STANDARD_VECTOR_SIZE, Len(Scanned))
            IN  /\ delete_data' = delete_data \cup
                      {<<Key(Scanned[j][1]), Scanned[j][2]>> :
                           j \in position + 1 .. last}
                /\ position' = last
                /\ UNCHANGED scanning
       ELSE /\ scanning' = scanning + 1
            /\ position' = 0
            /\ UNCHANGED delete_data
    /\ UNCHANGED <<delete_manifests, current_delete_manifest, delete_reader,
                   delete_files, threadVars, queryVars, delete_lock, pc>>

ScanFails(t) ==
    /\ pc[t] = "scan"
    /\ scanning <= Len(delete_files)
    /\ Throw(t)

DeletesProcessed(t) ==
    /\ pc[t] = "scan"
    /\ scanning > Len(delete_files)
    /\ Goto(t, "find")
    /\ UNCHANGED <<listVars, processVars, threadVars, queryVars, delete_lock>>

-----------------------------------------------------------------------------
(* FinalizeChunk, from the lookup on *)

HasDeletes(file) == \E d \in delete_data : d[1] = Key(file)

RowsOf(rows) == {rows[j] : j \in 1 .. Len(rows)}

\* GetDeletesForFile, and the guard unlocks.  Without delete data the chunk is
\* passed on as it is; otherwise it is Applied to, outside the lock.
GetDeletesForFile(t) ==
    /\ pc[t] = "find"
    /\ delete_lock' = NoThread
    /\ IF HasDeletes(chunk[t].file)
       THEN /\ Goto(t, "apply")
            /\ tuple' = [tuple EXCEPT ![t] = 1]
            /\ kept' = [kept EXCEPT ![t] = {}]
            /\ UNCHANGED <<chunk, emitted>>
       ELSE /\ Goto(t, "idle")
            /\ emitted' = emitted \cup
                   {chunk[t].file} \X RowsOf(chunk[t].rows)
            /\ chunk' = [chunk EXCEPT ![t] = NoChunk]
            /\ UNCHANGED <<tuple, kept>>
    /\ UNCHANGED <<listVars, processVars, todo, query, failures>>

\* One turn of the loop of Apply: a lookup in temp_invalid_rows.
Apply(t) ==
    /\ pc[t] = "apply"
    /\ tuple[t] <= Len(chunk[t].rows)
    /\ LET row == chunk[t].rows[tuple[t]]
       IN  kept' = [kept EXCEPT ![t] =
                        IF <<Key(chunk[t].file), row>> \in delete_data
                        THEN @ ELSE @ \cup {row}]
    /\ tuple' = [tuple EXCEPT ![t] = @ + 1]
    /\ UNCHANGED <<listVars, processVars, chunk, queryVars, delete_lock, pc>>

\* The chunk is sliced and passed on.
Slice(t) ==
    /\ pc[t] = "apply"
    /\ tuple[t] > Len(chunk[t].rows)
    /\ emitted' = emitted \cup {chunk[t].file} \X kept[t]
    /\ chunk' = [chunk EXCEPT ![t] = NoChunk]
    /\ Goto(t, "idle")
    /\ UNCHANGED <<listVars, processVars, tuple, kept, todo, query, failures,
                   delete_lock>>

-----------------------------------------------------------------------------
(* The execution that DuckDB runs over the plan *)

AllIdle == \A t \in Threads : pc[t] = "idle"

Finish ==
    /\ query = "running"
    /\ todo = {}
    /\ AllIdle
    /\ query' = "finished"
    /\ UNCHANGED <<listVars, processVars, threadVars, todo, emitted, failures,
                   delete_lock, pc>>

\* A prepared plan may be executed again, on the same file list; the result of
\* an execution that failed is discarded.
Execute ==
    /\ query # "running"
    /\ AllIdle
    /\ query' = "running"
    /\ todo' = Chunks
    /\ emitted' = {}
    /\ UNCHANGED <<listVars, processVars, threadVars, failures, delete_lock,
                   pc>>

ProcessDeletes(t) ==
    \/ OpenManifest(t) \/ OpenFails(t) \/ ContinueManifest(t)
    \/ ReadManifest(t) \/ ManifestRead(t) \/ ManifestsRead(t)
    \/ ScanDeleteFile(t) \/ ScanFails(t) \/ DeletesProcessed(t)

Thread(t) ==
    \/ FinalizeChunk(t) \/ Lock(t) \/ CheckManifests(t) \/ ProcessDeletes(t)
    \/ GetDeletesForFile(t) \/ Apply(t) \/ Slice(t)

Next == (\E t \in Threads : Thread(t)) \/ Finish \/ Execute

Spec == Init /\ [][Next]_vars

\* Every thread of DuckDB's scheduler is run; nothing makes an execution start
\* again.  The mutex needs no fairness of its own: the chunks are
\* finitely many, so the other threads stop taking it.
FairSpec ==
    /\ Spec
    /\ \A t \in Threads : WF_vars(Thread(t))
    /\ WF_vars(Finish)

-----------------------------------------------------------------------------
(* Properties *)

\* The rows of a data file that the live entries of the delete manifests
\* delete.
LiveDeletes ==
    UNION {UNION {RowsOf(delete_manifests[m][e].deletes) :
                      e \in {x \in 1 .. Len(delete_manifests[m]) :
                                 delete_manifests[m][x].status # "DELETED"}} :
               m \in 1 .. Len(delete_manifests)}

AllRows == UNION {{c.file} \X RowsOf(c.rows) : c \in Chunks}

\* The delete data that a thread reads in Apply without the lock is never
\* changed while it reads: a pointer into delete_data is handed out only when
\* the last delete manifest is behind the iterator, whether ProcessDeletes
\* succeeded or threw on another thread (FinalizeChunk releases delete_lock
\* before Apply).
StableDeletes ==
    [][(\E t \in Threads : pc[t] = "apply") => delete_data' = delete_data]_vars

\* "we now have to process *all* delete manifests before we can be certain
\* that we have all the delete data for the current file"
\* (iceberg_multi_file_reader.cpp:492-493): whenever a chunk is filtered for
\* an execution that has not failed, all deletes of the snapshot are known.
DeletesKnown ==
    query = "running" =>
      \A t \in Threads :
        pc[t] \in {"find", "apply"} =>
            \A d \in LiveDeletes : <<Key(d[1]), d[2]>> \in delete_data

\* Of an execution that finishes, after whatever failures, only rows are dropped
\* that a live entry of the delete manifests deletes: skip_deleted, the paths
\* of a delete file that names several data files, and chunks that are filtered
\* while another thread waits never cost a row.
OnlyDeletesDropped ==
    query = "finished" =>
        \A r \in AllRows :
            \/ r \in emitted
            \/ \E d \in LiveDeletes : Key(d[1]) = Key(r[1]) /\ d[2] = r[2]

\* An execution that finishes, with no exception in it or in an earlier one,
\* returns exactly the rows that no delete file deletes, however the threads
\* share the chunks and the loading of the deletes.
ResultIsExact ==
    query = "finished" /\ failures = 0 => emitted = AllRows \ LiveDeletes

\* Every execution ends: threads that wait for delete_lock behind a thread
\* that loads all deletes, or that throws, are served.
ExecutionEnds == (query = "running") ~> (query # "running")

=============================================================================
