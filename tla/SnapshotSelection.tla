------------------------- MODULE SnapshotSelection -------------------------
(***************************************************************************)
(* Which snapshot of a metadata file a scan reads: the latest one, the one  *)
(* with a given id, or the latest one as of a timestamp, found by a loop    *)
(* over the snapshots array (src/src/common/iceberg.cpp).                   *)
(* Timestamps of snapshots are read as unsigned numbers, and the requested  *)
(* timestamp, a signed one, is converted when the two are compared.         *)
(***************************************************************************)
EXTENDS Integers, Sequences

CONSTANTS
    HalfRange,  \* 2^63: signed numbers are -HalfRange .. HalfRange - 1
    Ids,        \* snapshot ids
    Tables      \* the snapshots arrays

Unsigned == 0 .. 2 * HalfRange - 1
Signed == -HalfRange .. HalfRange - 1

\* The table format counts milliseconds from 1970 on.
Snapshot == [snapshot_id : Ids, timestamp_ms : 0 .. HalfRange - 1]

ASSUME RangeAssumption == HalfRange \in Nat \ {0}
ASSUME TablesAssumption == Tables \subseteq Seq(Snapshot)

\* IcebergOptions: snapshot_source with snapshot_id and snapshot_timestamp.
Request == [snapshot_source : {"LATEST", "FROM_ID", "FROM_TIMESTAMP"},
            snapshot_id : Ids,
            snapshot_timestamp : Signed]

VARIABLES
    snapshots,      \* the snapshots array of the metadata file
    request,
    idx,            \* how many snapshots the loop has looked at
    max_millis,     \* max_timestamp, max_millis
    found,          \* position of max_snapshot, or of the match, or 0
    pc

vars == <<snapshots, request, idx, max_millis, found, pc>>

TypeOK ==
    /\ snapshots \in Tables
    /\ request \in Request
    /\ idx \in 0 .. Len(snapshots)
    /\ max_millis \in Unsigned
    /\ found \in 0 .. idx
    /\ pc \in {"loop", "done", "error"}

Init ==
    /\ snapshots \in Tables
    /\ request \in Request
    /\ idx = 0
    /\ max_millis = 0
    /\ found = 0
    /\ pc = "loop"

\* A signed number compared with an unsigned one.
ToUnsigned(n) == IF n < 0 THEN n + 2 * HalfRange ELSE n

\* The snapshot that the loop looks at next.
Current == snapshots[idx + 1]

\* Mutant of Better: of two snapshots with the same timestamp the first stays.
BetterIfNewer(limit) ==
    /\ Current.timestamp_ms <= limit
    /\ Current.timestamp_ms > max_millis

\* Mutant of Better: the requested timestamp is not looked at.
BetterWithoutLimit(limit) == Current.timestamp_ms >= max_millis

\* A snapshot that replaces the one found so far.
Better(limit) ==
    /\ Current.timestamp_ms <= limit
    /\ Current.timestamp_ms >= max_millis

\* Mutant of Advance: the body of the loop takes a snapshot too.
AdvanceTwice ==
    /\ idx' = idx + 2
    /\ UNCHANGED <<snapshots, request>>

Advance ==
    /\ idx' = idx + 1
    /\ UNCHANGED <<snapshots, request>>

\* One round of a loop that keeps the latest of the snapshots up to limit.
KeepLatest(limit) ==
    /\ idx < Len(snapshots)
    /\ Advance
    /\ IF Better(limit)
       THEN /\ found' = idx + 1
            /\ max_millis' = Current.timestamp_ms
       ELSE UNCHANGED <<found, max_millis>>
    /\ UNCHANGED pc

FindLatestSnapshotInternal ==
    /\ pc = "loop"
    /\ request.snapshot_source = "LATEST"
    /\ KeepLatest(2 * HalfRange - 1)

FindSnapshotByIdTimestampInternal ==
    /\ pc = "loop"
    /\ request.snapshot_source = "FROM_TIMESTAMP"
    /\ KeepLatest(ToUnsigned(request.snapshot_timestamp))

FindSnapshotByIdInternal ==
    /\ pc = "loop"
    /\ request.snapshot_source = "FROM_ID"
    /\ idx < Len(snapshots)
    /\ Advance
    /\ IF Current.snapshot_id = request.snapshot_id
       THEN found' = idx + 1 /\ pc' = "done"
       ELSE UNCHANGED <<found, pc>>
    /\ UNCHANGED max_millis

\* Mutant of EndOfLoop: a request that finds nothing does not throw.
EndWithoutError ==
    /\ pc = "loop"
    /\ idx = Len(snapshots)
    /\ pc' = "done"
    /\ UNCHANGED <<snapshots, request, idx, max_millis, found>>

\* The loop ends: without a snapshot the two requests for a particular one
\* throw, and the latest one is an empty IcebergSnapshot.
EndOfLoop ==
    /\ pc = "loop"
    /\ idx = Len(snapshots)
    /\ pc' = IF found = 0 /\ request.snapshot_source # "LATEST"
             THEN "error" ELSE "done"
    /\ UNCHANGED <<snapshots, request, idx, max_millis, found>>

Next == \/ FindLatestSnapshotInternal
        \/ FindSnapshotByIdTimestampInternal
        \/ FindSnapshotByIdInternal
        \/ EndOfLoop

Spec == Init /\ [][Next]_vars

-----------------------------------------------------------------------------
(* Properties *)

\* Position k holds the latest of the snapshots up to limit, the last one of
\* several with the same timestamp.
IsLatestUpTo(limit, k) ==
    /\ snapshots[k].timestamp_ms <= limit
    /\ \A j \in 1 .. Len(snapshots) :
          snapshots[j].timestamp_ms <= limit
          => \/ snapshots[j].timestamp_ms < snapshots[k].timestamp_ms
             \/ /\ snapshots[j].timestamp_ms = snapshots[k].timestamp_ms
                /\ j <= k

\* A scan that names no snapshot reads the one with the greatest timestamp,
\* the last in the file of several with the same one, wherever it stands in
\* the array; it reads none only from a table without snapshots.
LatestIsLatest ==
    pc # "loop" /\ request.snapshot_source = "LATEST"
    => /\ pc = "done"
       /\ IF snapshots = <<>> THEN found = 0
          ELSE found # 0 /\ IsLatestUpTo(HalfRange - 1, found)

\* A scan as of a timestamp reads the latest snapshot that is not younger, and
\* fails if there is none, for timestamps from 1970 on.
AsOfIsLatestBefore ==
    /\ pc # "loop"
    /\ request.snapshot_source = "FROM_TIMESTAMP"
    /\ request.snapshot_timestamp >= 0
    => \/ /\ pc = "done"
          /\ found # 0
          /\ IsLatestUpTo(request.snapshot_timestamp, found)
       \/ /\ pc = "error"
          /\ \A j \in 1 .. Len(snapshots) :
                snapshots[j].timestamp_ms > request.snapshot_timestamp

\* A scan of a snapshot id reads the first snapshot with this id, and fails if
\* and only if there is none.
IdIsFound ==
    pc # "loop" /\ request.snapshot_source = "FROM_ID"
    => \/ /\ pc = "done"
          /\ found # 0
          /\ snapshots[found].snapshot_id = request.snapshot_id
          /\ \A j \in 1 .. found - 1 :
                snapshots[j].snapshot_id # request.snapshot_id
       \/ /\ pc = "error"
          /\ \A j \in 1 .. Len(snapshots) :
                snapshots[j].snapshot_id # request.snapshot_id

\* "Could not find latest snapshots for timestamp 2023-02-15 15:07:54.503"
\* (src/test/sql/local/iceberg_scans/iceberg_scan.test:63): a timestamp before
\* all snapshots is an error.  The test has one from 1970 on.
TooEarlyFails ==
    /\ pc = "done"
    /\ request.snapshot_source = "FROM_TIMESTAMP"
    => \E j \in 1 .. Len(snapshots) :
          snapshots[j].timestamp_ms <= request.snapshot_timestamp

=============================================================================
