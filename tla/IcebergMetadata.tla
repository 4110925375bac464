-------------------------- MODULE IcebergMetadata --------------------------
(***************************************************************************)
(* iceberg_metadata: IcebergTable::Load reads the manifest list and every   *)
(* manifest with ScanAvroMetadata, DELETED entries included, and the table  *)
(* function pages through what was loaded with two indexes that it keeps    *)
(* from call to call (src/src/common/iceberg.cpp,                           *)
(* src/src/iceberg_functions/iceberg_metadata.cpp).                         *)
(***************************************************************************)
EXTENDS ManifestReader, SequencesExt

CONSTANT Tables     \* the tables: for each manifest, the statuses of its rows

ASSUME TablesAssumption == Tables \subseteq Seq(Seq(EntryStatus))

VARIABLES
    table,
    reader,         \* the manifest_reader of the ScanAvroMetadata under way
    manifests,      \* local of Load: positions in the manifest list
    manifest_paths, \* local of ReadManifestEntries: rows of one manifest
    entries,        \* iceberg_table->entries
    current_manifest_idx,
    current_manifest_entry_idx,
    output,         \* the chunk that the call under way fills
    received,       \* the rows of the chunks returned so far
    ended,          \* the last chunk was empty
    pc

loadVars == <<reader, manifests, manifest_paths, entries>>
functionVars == <<current_manifest_idx, current_manifest_entry_idx, output,
                  received, ended>>
vars == <<table, loadVars, functionVars, pc>>

\* An IcebergTableEntry, and a row of the function's output.
TableEntry == [manifest : Nat, manifest_entries : Seq(Nat)]
OutputRow == Nat \X Nat

TypeOK ==
    /\ table \in Tables
    /\ reader \in Reader
    /\ manifests \in Seq(Nat)
    /\ manifest_paths \in Seq(Nat)
    /\ entries \in Seq(TableEntry)
    /\ current_manifest_idx \in 0 .. Len(entries)
    /\ current_manifest_entry_idx \in Nat
    /\ output \in Seq(OutputRow)
    /\ received \in Seq(OutputRow)
    /\ ended \in BOOLEAN
    /\ pc \in {"bind", "list", "manifests", "read", "idle", "rows"}

Init ==
    /\ table \in Tables
    /\ reader = NewReader(FALSE)
    /\ manifests = <<>>
    /\ manifest_paths = <<>>
    /\ entries = <<>>
    /\ current_manifest_idx = 0
    /\ current_manifest_entry_idx = 0
    /\ output = <<>>
    /\ received = <<>>
    /\ ended = FALSE
    /\ pc = "bind"

-----------------------------------------------------------------------------
(* IcebergTable::Load, called by the bind function *)

\* ScanAvroMetadata makes a reader for each file, which skips nothing.
ScanAvroMetadata(file) ==
    reader' = ReadEntries(Initialize(NewReader(FALSE), file),
                          STANDARD_VECTOR_SIZE)

\* The loop of ScanAvroMetadata: a step of ReadEntries, which appends a row
\* to list, another ReadEntries, or the loop's end.
ScanStep(list) ==
    \/ /\ \/ ReadLoop(reader, reader')
          \/ EndOfCallback(reader, reader')
       /\ UNCHANGED list
    \/ /\ ProduceEntry(reader, reader')
       /\ list' = IF Kept(reader) THEN Append(list, Row(reader)) ELSE list
    \/ /\ reader.at = "out"
       /\ ~Finished(reader)
       /\ reader' = ReadEntries(reader, STANDARD_VECTOR_SIZE)
       /\ UNCHANGED list

ScanEnds == reader.at = "out" /\ Finished(reader)

OpenManifestList ==
    /\ pc = "bind"
    /\ ScanAvroMetadata([k \in 1 .. Len(table) |-> "MANIFEST"])
    /\ pc' = "list"
    /\ UNCHANGED <<table, manifests, manifest_paths, entries, functionVars>>

ReadManifestList ==
    /\ pc = "list"
    /\ ScanStep(manifests)
    /\ UNCHANGED <<table, manifest_paths, entries, functionVars, pc>>

ManifestListRead ==
    /\ pc = "list"
    /\ ScanEnds
    /\ pc' = "manifests"
    /\ UNCHANGED <<table, loadVars, functionVars>>

\* ReadManifestEntries goes on to the next manifest.
OpenManifest ==
    /\ pc = "manifests"
    /\ Len(entries) < Len(manifests)
    /\ ScanAvroMetadata(table[manifests[Len(entries) + 1]])
    /\ manifest_paths' = <<>>
    /\ pc' = "read"
    /\ UNCHANGED <<table, manifests, entries, functionVars>>

ReadManifest ==
    /\ pc = "read"
    /\ ScanStep(manifest_paths)
    /\ UNCHANGED <<table, manifests, entries, functionVars, pc>>

ManifestRead ==
    /\ pc = "read"
    /\ ScanEnds
    /\ entries' = Append(entries, [manifest |-> manifests[Len(entries) + 1],
                                   manifest_entries |-> manifest_paths])
    /\ pc' = "manifests"
    /\ UNCHANGED <<table, reader, manifests, manifest_paths, functionVars>>

Loaded ==
    /\ pc = "manifests"
    /\ Len(entries) = Len(manifests)
    /\ pc' = "idle"
    /\ UNCHANGED <<table, loadVars, functionVars>>

-----------------------------------------------------------------------------
(* IcebergMetaDataFunction *)

\* DuckDB calls the function until it returns an empty chunk.
Call ==
    /\ pc = "idle"
    /\ ~ended
    /\ output' = <<>>
    /\ pc' = "rows"
    /\ UNCHANGED <<table, loadVars, current_manifest_idx,
                   current_manifest_entry_idx, received, ended>>

MoreManifests == current_manifest_idx < Len(entries)
Current == entries[current_manifest_idx + 1]
MoreEntries ==
    /\ MoreManifests
    /\ current_manifest_entry_idx < Len(Current.manifest_entries)

OutputEntry ==
    /\ pc = "rows"
    /\ MoreEntries
    /\ Len(output) < STANDARD_VECTOR_SIZE
    /\ output' = Append(output,
           <<Current.manifest,
             Current.manifest_entries[current_manifest_entry_idx + 1]>>)
    /\ current_manifest_entry_idx' = current_manifest_entry_idx + 1
    /\ UNCHANGED <<table, loadVars, current_manifest_idx, received, ended, pc>>

\* Mutant of NextManifest: the index of the entries is kept.
NextManifestKeepsEntry ==
    /\ pc = "rows"
    /\ MoreManifests
    /\ ~MoreEntries
    /\ current_manifest_idx' = current_manifest_idx + 1
    /\ UNCHANGED <<table, loadVars, current_manifest_entry_idx, output,
                   received, ended, pc>>

\* Mutant of NextManifest: the end of the manifests is not checked.
NextManifestPastEnd ==
    /\ pc = "rows"
    /\ ~MoreEntries
    /\ current_manifest_entry_idx' = 0
    /\ current_manifest_idx' = current_manifest_idx + 1
    /\ UNCHANGED <<table, loadVars, output, received, ended, pc>>

NextManifest ==
    /\ pc = "rows"
    /\ MoreManifests
    /\ ~MoreEntries
    /\ current_manifest_entry_idx' = 0
    /\ current_manifest_idx' = current_manifest_idx + 1
    /\ UNCHANGED <<table, loadVars, output, received, ended, pc>>

\* The chunk is full and there is another entry for it, or there is no other.
Return ==
    /\ pc = "rows"
    /\ \/ ~MoreManifests
       \/ MoreEntries /\ Len(output) >= STANDARD_VECTOR_SIZE
    /\ received' = received \o output
    /\ ended' = (output = <<>>)
    /\ pc' = "idle"
    /\ UNCHANGED <<table, loadVars, current_manifest_idx,
                   current_manifest_entry_idx, output>>

Load == \/ OpenManifestList \/ ReadManifestList \/ ManifestListRead
        \/ OpenManifest \/ ReadManifest \/ ManifestRead \/ Loaded

Function == Call \/ OutputEntry \/ NextManifest \/ Return

Next == Load \/ Function

\* One thread binds and then drains the function.
Spec == Init /\ [][Next]_vars /\ WF_vars(Next)

-----------------------------------------------------------------------------
(* Properties *)

\* All entries of all manifests, in the order of the files.
AllRows == FlattenSeq([k \in 1 .. Len(table) |->
                           [j \in 1 .. Len(table[k]) |-> <<k, j>>]])

Stream == INSTANCE RowStream WITH rows <- AllRows

\* iceberg_metadata returns every entry of every manifest once and in order,
\* and ends, wherever chunk boundaries fall among manifests, empty manifests
\* and the reader's own chunks.
ImplementsRowStream == Stream!Spec

=============================================================================
