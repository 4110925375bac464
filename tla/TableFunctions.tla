--------------------------- MODULE TableFunctions ---------------------------
(***************************************************************************)
(* A connection that lists a table: it drains iceberg_metadata and then     *)
(* iceberg_snapshots.  Each function keeps its own position from call to    *)
(* call (global state of IcebergMetadata, and of IcebergSnapshots).         *)
(***************************************************************************)
EXTENDS IcebergMetadata

CONSTANT Counts     \* the numbers of snapshots that a table may have

ASSUME CountsAssumption == Counts \subseteq Nat

VARIABLES
    snapshots,
    snapshot_it,
    snapshots_output,
    snapshots_received,
    snapshots_ended,
    snapshots_pc

snapshotsVars == <<snapshots, snapshot_it, snapshots_output,
                   snapshots_received, snapshots_ended, snapshots_pc>>

Snapshots == INSTANCE IcebergSnapshots
                 WITH output <- snapshots_output,
                      received <- snapshots_received,
                      ended <- snapshots_ended,
                      pc <- snapshots_pc

FunctionsInit == Init /\ Snapshots!Init

FunctionsNext == \/ Next /\ UNCHANGED snapshotsVars
                 \/ ended /\ Snapshots!Next /\ UNCHANGED vars

FunctionsSpec ==
    /\ FunctionsInit
    /\ [][FunctionsNext]_<<vars, snapshotsVars>>
    /\ WF_<<vars, snapshotsVars>>(FunctionsNext)

-----------------------------------------------------------------------------
(* Properties *)

\* iceberg_snapshots loses one snapshot after every full chunk and no other
\* (OnlyBoundariesSkipped of IcebergSnapshots).
OnlyBoundariesSkipped == Snapshots!OnlyBoundariesSkipped

=============================================================================
