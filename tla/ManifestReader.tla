--------------------------- MODULE ManifestReader ---------------------------
(***************************************************************************)
(* ManifestReader over one AvroScan (src/src/manifest_reader.cpp).  A       *)
(* reader is a record, and the operators below are what one step of its     *)
(* methods does to it, so that every component that owns a reader (the      *)
(* manifest list, the data manifests, the delete manifests, the metadata    *)
(* function) drives the same code.                                          *)
(*                                                                          *)
(* A file is the sequence of the statuses of its rows.  The scan hands it   *)
(* out in chunks of STANDARD_VECTOR_SIZE rows, the last one shorter.        *)
(***************************************************************************)
EXTENDS Integers, Sequences

CONSTANT STANDARD_VECTOR_SIZE

ASSUME VectorSizeAssumption == STANDARD_VECTOR_SIZE \in Nat \ {0}

\* IcebergManifestEntryStatusType, and the rows of a manifest list, which
\* have no status.
EntryStatus == {"EXISTING", "ADDED", "DELETED"}
RowStatus == EntryStatus \cup {"MANIFEST"}

Smaller(a, b) == IF a <= b THEN a ELSE b

(***************************************************************************)
(* file, fetched:  the scan and the rows of it handed out in chunks so far  *)
(* size, offset:   of the current chunk; offset may run past size           *)
(* finished:       ManifestReader::finished, equal to AvroScan::finished    *)
(* at, count, scanned, to_scan, i, produced:  the call of ReadEntries under *)
(*                 way, with the locals of its loop and of ProduceEntries   *)
(***************************************************************************)
Reader == [file : Seq(RowStatus), skip_deleted : BOOLEAN,
           fetched : Nat, size : Nat, offset : Nat, finished : BOOLEAN,
           at : {"out", "loop", "produce"}, count : Nat, scanned : Nat,
           to_scan : Nat, i : Nat, produced : Nat]

NewReader(skip_deleted) ==
    [file |-> <<>>, skip_deleted |-> skip_deleted,
     fetched |-> 0, size |-> 0, offset |-> 0, finished |-> TRUE,
     at |-> "out", count |-> 0, scanned |-> 0,
     to_scan |-> 0, i |-> 0, produced |-> 0]

Initialize(r, file) ==
    [r EXCEPT !.file = file, !.fetched = 0, !.size = 0, !.offset = 0,
              !.finished = FALSE]

Finished(r) == r.finished

\* ReadEntries(count, callback) is entered.
ReadEntries(r, count) ==
    IF r.finished THEN r
    ELSE [r EXCEPT !.at = "loop", !.count = count, !.scanned = 0]

\* Mutant of GetNext: the offset of the last chunk is kept.
GetNextKeepsOffset(r) ==
    LET rows == Smaller(STANDARD_VECTOR_SIZE, Len(r.file) - r.fetched)
    IN  IF rows = 0
        THEN [r EXCEPT !.size = 0, !.finished = TRUE, !.at = "out"]
        ELSE [r EXCEPT !.fetched = @ + rows, !.size = rows]

\* scan->GetNext(chunk): an empty chunk ends the scan and the call.
GetNext(r) ==
    LET rows == Smaller(STANDARD_VECTOR_SIZE, Len(r.file) - r.fetched)
    IN  IF rows = 0
        THEN [r EXCEPT !.size = 0, !.finished = TRUE, !.at = "out"]
        ELSE [r EXCEPT !.fetched = @ + rows, !.size = rows, !.offset = 0]

\* The head of the loop: return, fetch, or hand a slice to the callback.
ReadLoop(r, s) ==
    /\ r.at = "loop"
    /\ \/ /\ r.scanned >= r.count
          /\ s = [r EXCEPT !.at = "out"]
       \/ /\ r.scanned < r.count
          /\ r.offset >= r.size
          /\ s = GetNext(r)
       \/ /\ r.scanned < r.count
          /\ r.offset < r.size
          /\ s = [r EXCEPT !.at = "produce", !.i = 0, !.produced = 0,
                           !.to_scan = Smaller(r.size - r.offset,
                                               r.count - r.scanned)]

\* Mutant of Kept: skip_deleted is forgotten.
KeptAlways(r) == TRUE

\* The row of the file that the callback looks at, and whether it keeps it.
Row(r) == r.fetched - r.size + r.offset + r.i + 1
Kept(r) == ~(r.skip_deleted /\ r.file[Row(r)] = "DELETED")

\* One turn of the loop of ProduceEntries.
ProduceEntry(r, s) ==
    /\ r.at = "produce"
    /\ r.i < r.to_scan
    /\ s = [r EXCEPT !.i = @ + 1,
                     !.produced = IF Kept(r) THEN @ + 1 ELSE @]

\* The callback has returned: what it produced counts as scanned, and the
\* offset moves by the whole count that was asked for.
EndOfCallback(r, s) ==
    /\ r.at = "produce"
    /\ r.i >= r.to_scan
    /\ s = [r EXCEPT !.at = "loop", !.scanned = @ + r.produced,
                     !.offset = @ + r.count]

=============================================================================
