------------------------ MODULE MCSnapshotSelection ------------------------
(* SnapshotSelection on small snapshots arrays. *)
EXTENDS SnapshotSelection, SequencesExt

CONSTANT MaxSnapshots

\* All arrays of at most MaxSnapshots snapshots, in any order, of which no two
\* have the same id.
SmallTables ==
    {s \in BoundedSeq(Snapshot, MaxSnapshots) :
        \A j, k \in 1 .. Len(s) : s[j].snapshot_id = s[k].snapshot_id => j = k}

=============================================================================
