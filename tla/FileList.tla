------------------------------ MODULE FileList ------------------------------
(***************************************************************************)
(* IcebergMultiFileList as a lazily expanded list of data files:            *)
(* InitializeFiles, GetFile, GetExpandResult and GetTotalFileCount          *)
(* (src/src/iceberg_functions/iceberg_multi_file_reader.cpp).  The caller   *)
(* is DuckDB's multi file scan, which calls them one at a time.             *)
(***************************************************************************)
EXTENDS ManifestReader

CONSTANTS
    Tables,     \* the tables that a scan may be bound to
    Lookahead   \* a caller asks at most this far past the expanded files

\* A manifest of the manifest list, and the statuses of its entries.
ManifestContent == {"DATA", "DELETE"}
Manifest == [content : ManifestContent, entries : Seq(EntryStatus)]

\* snapshot is FALSE for a table without one ("an empty table").
Table == {t \in [snapshot : BOOLEAN, format_version : {1, 2},
                 manifest_list : Seq(Manifest)] :
              t.snapshot \/ t.manifest_list = <<>>}

ASSUME TablesAssumption == Tables \subseteq Table
ASSUME LookaheadAssumption == Lookahead \in Nat \ {0}

VARIABLES
    table,                  \* what the metadata and the Avro files hold
    manifest_reader,
    all_manifests,          \* local of InitializeFiles: positions in the
                            \* manifest list
    data_manifests,
    delete_manifests,
    current_data_manifest,  \* iterator: one past the last is end()
    data_reader,            \* data_manifest_entry_reader
    data_files,             \* entries <<manifest, row>>
    pc,
    call,                   \* the operation under way
    ret                     \* the answer to the last one

vars == <<table, manifest_reader, all_manifests, data_manifests,
          delete_manifests, current_data_manifest, data_reader, data_files,
          pc, call, ret>>

Entry == Nat \X Nat
NoFile == <<0, 0>>          \* the empty string that GetFile returns

Operation == {"GetFile", "GetExpandResult", "GetTotalFileCount"}
Call == [op : Operation, file_id : Nat]
NoCall == [op |-> "GetFile", file_id |-> 0]

\* number is a FileExpandResult (NO_FILES = 0, SINGLE_FILE = 1,
\* MULTIPLE_FILES = 2) or a file count.
Outcome == {"none", "ok", "exception"}
Answer == [outcome : Outcome, path : Entry, number : Nat]
NoAnswer == [outcome |-> "none", path |-> NoFile, number |-> 0]
Exception == [outcome |-> "exception", path |-> NoFile, number |-> 0]

TypeOK ==
    /\ table \in Tables
    /\ manifest_reader \in Reader
    /\ all_manifests \in Seq(Nat)
    /\ data_manifests \in Seq(Nat)
    /\ delete_manifests \in Seq(Nat)
    /\ current_data_manifest \in 1 .. Len(data_manifests) + 1
    /\ data_reader \in Reader
    /\ data_files \in Seq(Entry)
    /\ pc \in {"unbound", "list", "split", "idle", "loop", "read"}
    /\ call \in Call
    /\ ret \in Answer

Init ==
    /\ table \in Tables
    /\ manifest_reader = NewReader(FALSE)
    /\ all_manifests = <<>>
    /\ data_manifests = <<>>
    /\ delete_manifests = <<>>
    /\ current_data_manifest = 1
    /\ data_reader = NewReader(TRUE)
    /\ data_files = <<>>
    /\ pc = "unbound"
    /\ call = NoCall
    /\ ret = NoAnswer

-----------------------------------------------------------------------------
(* InitializeFiles, called by Bind *)

\* The rows of the manifest list file.
ManifestRows == [k \in 1 .. Len(table.manifest_list) |-> "MANIFEST"]

\* The content of a manifest as the reader of the format version sees it.
Content(k) ==
    IF table.format_version = 1 THEN "DATA" ELSE table.manifest_list[k].content

InitializeFiles ==
    /\ pc = "unbound"
    /\ IF table.snapshot
       THEN /\ manifest_reader' =
                 ReadEntries(Initialize(manifest_reader, ManifestRows),
                             STANDARD_VECTOR_SIZE)
            /\ pc' = "list"
       ELSE /\ pc' = "idle"
            /\ UNCHANGED manifest_reader
    /\ UNCHANGED <<table, all_manifests, data_manifests, delete_manifests,
                   current_data_manifest, data_reader, data_files, call, ret>>

ReadManifestList ==
    /\ pc = "list"
    /\ \/ /\ \/ ReadLoop(manifest_reader, manifest_reader')
             \/ EndOfCallback(manifest_reader, manifest_reader')
          /\ UNCHANGED <<all_manifests, pc>>
       \/ /\ ProduceEntry(manifest_reader, manifest_reader')
          /\ all_manifests' = Append(all_manifests, Row(manifest_reader))
          /\ UNCHANGED pc
       \/ /\ manifest_reader.at = "out"
          /\ IF Finished(manifest_reader)
             THEN pc' = "split" /\ UNCHANGED manifest_reader
             ELSE /\ manifest_reader' =
                       ReadEntries(manifest_reader, STANDARD_VECTOR_SIZE)
                  /\ UNCHANGED pc
          /\ UNCHANGED all_manifests
    /\ UNCHANGED <<table, data_manifests, delete_manifests,
                   current_data_manifest, data_reader, data_files, call, ret>>

\* One turn of the loop that moves the manifests of the local all_manifests
\* to the list of their content.
SplitManifest ==
    /\ pc = "split"
    /\ all_manifests # <<>>
    /\ LET k == Head(all_manifests)
       IN  IF Content(k) = "DATA"
           THEN /\ data_manifests' = Append(data_manifests, k)
                /\ UNCHANGED delete_manifests
           ELSE /\ delete_manifests' = Append(delete_manifests, k)
                /\ UNCHANGED data_manifests
    /\ all_manifests' = Tail(all_manifests)
    /\ UNCHANGED <<table, manifest_reader, current_data_manifest, data_reader,
                   data_files, pc, call, ret>>

\* The iterators are set to the beginnings.
InitializeIterators ==
    /\ pc = "split"
    /\ all_manifests = <<>>
    /\ current_data_manifest' = 1
    /\ pc' = "idle"
    /\ UNCHANGED <<table, manifest_reader, all_manifests, data_manifests,
                   delete_manifests, data_reader, data_files, call, ret>>

-----------------------------------------------------------------------------
(* The calls.  Each is a loop around GetFile. *)

Begin(op, file_id) ==
    /\ pc = "idle"
    /\ file_id < Len(data_files) + Lookahead
    /\ call' = [op |-> op, file_id |-> file_id]
    /\ ret' = NoAnswer
    /\ pc' = "loop"
    /\ UNCHANGED <<table, manifest_reader, all_manifests, data_manifests,
                   delete_manifests, current_data_manifest, data_reader,
                   data_files>>

CallGetFile ==
    \E file_id \in 0 .. Len(data_files) + Lookahead - 1 :
        Begin("GetFile", file_id)

CallGetExpandResult == Begin("GetExpandResult", 1)

CallGetTotalFileCount == Begin("GetTotalFileCount", Len(data_files))

AtEnd == current_data_manifest > Len(data_manifests)

Expanded(file_id) == file_id < Len(data_files)

\* Mutant of Remaining: off by one.
RemainingLessOne == call.file_id - Len(data_files)

\* What is left to read for the call: (file_id + 1) - data_files.size()
Remaining == call.file_id + 1 - Len(data_files)

\* GetFile found no manifest that it has not read, or the file is expanded.
GetFileReturns ==
    /\ pc = "loop"
    /\ \/ Expanded(call.file_id)
       \/ Finished(data_reader) /\ AtEnd
    /\ IF call.op = "GetTotalFileCount" /\ Expanded(call.file_id)
       THEN /\ call' = [call EXCEPT !.file_id = @ + 1]
            /\ UNCHANGED <<pc, ret>>
       ELSE /\ ret' = [outcome |-> "ok",
                       path |-> IF call.op = "GetFile" /\ Expanded(call.file_id)
                                THEN data_files[call.file_id + 1] ELSE NoFile,
                       number |->
                           CASE call.op = "GetFile" -> 0
                             [] call.op = "GetExpandResult" ->
                                    Smaller(Len(data_files), 2)
                             [] OTHER -> Len(data_files)]
            /\ pc' = "idle"
            /\ UNCHANGED call
    /\ UNCHANGED <<table, manifest_reader, all_manifests, data_manifests,
                   delete_manifests, current_data_manifest, data_reader,
                   data_files>>

\* The manifest that the iterator points to is opened.
OpenManifest ==
    /\ pc = "loop"
    /\ ~Expanded(call.file_id)
    /\ Finished(data_reader)
    /\ ~AtEnd
    /\ data_reader' =
         ReadEntries(Initialize(data_reader,
             table.manifest_list[data_manifests[current_data_manifest]].entries),
             Remaining)
    /\ pc' = "read"
    /\ UNCHANGED <<table, manifest_reader, all_manifests, data_manifests,
                   delete_manifests, current_data_manifest, data_files, call,
                   ret>>

\* Mutant of OpenFails: the iterator is advanced before the manifest is opened.
OpenFailsAdvanced ==
    /\ pc = "loop"
    /\ ~Expanded(call.file_id)
    /\ Finished(data_reader)
    /\ ~AtEnd
    /\ ret' = Exception
    /\ pc' = "idle"
    /\ current_data_manifest' = current_data_manifest + 1
    /\ UNCHANGED <<table, manifest_reader, all_manifests, data_manifests,
                   delete_manifests, data_reader, data_files, call>>

\* Mutant of OpenFails: and before the end of the manifests is checked.
OpenFailsPastEnd ==
    /\ pc = "loop"
    /\ ~Expanded(call.file_id)
    /\ Finished(data_reader)
    /\ ret' = Exception
    /\ pc' = "idle"
    /\ current_data_manifest' = current_data_manifest + 1
    /\ UNCHANGED <<table, manifest_reader, all_manifests, data_manifests,
                   delete_manifests, data_reader, data_files, call>>

\* The AvroScan cannot be made: the exception leaves the reader as it was.
OpenFails ==
    /\ pc = "loop"
    /\ ~Expanded(call.file_id)
    /\ Finished(data_reader)
    /\ ~AtEnd
    /\ ret' = Exception
    /\ pc' = "idle"
    /\ UNCHANGED <<table, manifest_reader, all_manifests, data_manifests,
                   delete_manifests, current_data_manifest, data_reader,
                   data_files, call>>

ContinueManifest ==
    /\ pc = "loop"
    /\ ~Expanded(call.file_id)
    /\ ~Finished(data_reader)
    /\ data_reader' = ReadEntries(data_reader, Remaining)
    /\ pc' = "read"
    /\ UNCHANGED <<table, manifest_reader, all_manifests, data_manifests,
                   delete_manifests, current_data_manifest, data_files, call,
                   ret>>

\* A step of ReadEntries on the manifest; a kept row becomes a data file.
ReadManifest ==
    /\ pc = "read"
    /\ \/ /\ \/ ReadLoop(data_reader, data_reader')
             \/ EndOfCallback(data_reader, data_reader')
          /\ UNCHANGED data_files
       \/ /\ ProduceEntry(data_reader, data_reader')
          /\ data_files' =
               IF Kept(data_reader)
               THEN Append(data_files, <<data_manifests[current_data_manifest],
                                         Row(data_reader)>>)
               ELSE data_files
    /\ UNCHANGED <<table, manifest_reader, all_manifests, data_manifests,
                   delete_manifests, current_data_manifest, pc, call, ret>>

\* Mutant of ManifestRead: a finished manifest is not left behind.
ManifestReadAgain ==
    /\ pc = "read"
    /\ data_reader.at = "out"
    /\ pc' = "loop"
    /\ UNCHANGED <<table, manifest_reader, all_manifests, data_manifests,
                   delete_manifests, current_data_manifest, data_reader,
                   data_files, call, ret>>

\* ReadEntries has returned to GetFile.
ManifestRead ==
    /\ pc = "read"
    /\ data_reader.at = "out"
    /\ current_data_manifest' = IF Finished(data_reader)
                                THEN current_data_manifest + 1
                                ELSE current_data_manifest
    /\ pc' = "loop"
    /\ UNCHANGED <<table, manifest_reader, all_manifests, data_manifests,
                   delete_manifests, data_reader, data_files, call, ret>>

-----------------------------------------------------------------------------
Bind == \/ InitializeFiles \/ ReadManifestList
        \/ SplitManifest \/ InitializeIterators

NewCall == CallGetFile \/ CallGetExpandResult \/ CallGetTotalFileCount

GetFile == \/ GetFileReturns \/ OpenManifest \/ OpenFails
           \/ ContinueManifest \/ ReadManifest \/ ManifestRead

Next == Bind \/ NewCall \/ GetFile

Spec == Init /\ [][Next]_vars

\* The thread that binds or calls runs until it returns; nothing makes DuckDB
\* call again.
FairSpec == Spec /\ WF_vars(Bind) /\ WF_vars(GetFile)

-----------------------------------------------------------------------------
(* Properties *)

\* The order of the manifest list, and of the rows within a manifest.
Before(e, f) == e[1] < f[1] \/ (e[1] = f[1] /\ e[2] < f[2])

DataManifest(k) == k \in 1 .. Len(table.manifest_list) /\ Content(k) = "DATA"
IsLive(e) ==
    /\ DataManifest(e[1])
    /\ e[2] \in 1 .. Len(table.manifest_list[e[1]].entries)
    /\ table.manifest_list[e[1]].entries[e[2]] # "DELETED"
LiveEntries ==
    {e \in UNION {{k} \X (1 .. Len(table.manifest_list[k].entries)) :
                     k \in 1 .. Len(table.manifest_list)} : IsLive(e)}
Files == {data_files[j] : j \in 1 .. Len(data_files)}

\* However calls, short chunks, skipped rows and failed opens are mixed, the
\* expanded list holds live data files only, each at most once, in the order
\* of the manifests: GetFile(i) never hands the scan a file twice, nor one
\* that a DELETED entry removed (the D_ASSERTs at the end of GetFile).
ExpandedInOrder ==
    /\ \A j \in 1 .. Len(data_files) : IsLive(data_files[j])
    /\ \A j, l \in 1 .. Len(data_files) :
           j < l => Before(data_files[j], data_files[l])

\* InitializeFiles loses and repeats no manifest, however many chunks the
\* manifest list spans: each is once in its list, and a format version 1
\* table has only data manifests.
ManifestsAreSplit ==
    pc \in {"idle", "loop", "read"} =>
        /\ \A k, l \in 1 .. Len(data_manifests) :
               k < l => data_manifests[k] < data_manifests[l]
        /\ \A k, l \in 1 .. Len(delete_manifests) :
               k < l => delete_manifests[k] < delete_manifests[l]
        /\ {data_manifests[k] : k \in 1 .. Len(data_manifests)} =
               {k \in 1 .. Len(table.manifest_list) : DataManifest(k)}
        /\ {delete_manifests[k] : k \in 1 .. Len(delete_manifests)} =
               {k \in 1 .. Len(table.manifest_list) : ~DataManifest(k)}

\* The call that has just returned told the caller that there is no further
\* file: an empty path, or the total count.
SaysNoMore ==
    /\ pc = "idle"
    /\ ret.outcome = "ok"
    /\ \/ call.op = "GetFile" /\ ret.path = NoFile
       \/ call.op = "GetTotalFileCount"

\* When a caller is told that it has seen all files, every live data file of
\* the snapshot is expanded, also after calls that failed to open a manifest.
\* (Holds for callers that ask for one file at a time, Lookahead = 1.)
NoMoreMeansAll == SaysNoMore => Files = LiveEntries

\* GetExpandResult: "GetFile(1) will ensure files with index 0 and index 1 are
\* expanded if they are available"
\* (src/src/iceberg_functions/iceberg_multi_file_reader.cpp:51).
FirstTwoExpanded ==
    /\ pc = "idle"
    /\ ret.outcome = "ok"
    /\ call.op = "GetExpandResult"
    => \/ Len(data_files) >= 2
       \/ Files = LiveEntries

\* Every call returns, an answer or an exception: no mix of empty manifests,
\* manifests of deleted entries only and partly read chunks makes GetFile or
\* the loop of InitializeFiles spin.
CallsReturn == (pc # "idle") ~> (pc = "idle")

=============================================================================
