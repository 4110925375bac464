-------------------------- MODULE MCTableFunctions --------------------------
(* TableFunctions on small tables. *)
EXTENDS TableFunctions

CONSTANTS MaxManifests, MaxEntries, MaxSnapshots

\* All tables of at most MaxManifests manifests with any statuses, and all of
\* one manifest more whose entries are ADDED.
SmallTables ==
    BoundedSeq(BoundedSeq({"ADDED", "DELETED"}, MaxEntries), MaxManifests)
    \cup [1 .. MaxManifests + 1 -> BoundedSeq({"ADDED"}, MaxEntries)]

UpToMax == 0 .. MaxSnapshots

=============================================================================
