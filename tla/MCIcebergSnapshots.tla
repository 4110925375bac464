------------------------- MODULE MCIcebergSnapshots -------------------------
(* IcebergSnapshots on tables of up to MaxSnapshots snapshots. *)
EXTENDS IcebergSnapshots

CONSTANT MaxSnapshots

UpToMax == 0 .. MaxSnapshots

=============================================================================
