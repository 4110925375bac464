----------------------------- MODULE MCFileList -----------------------------
(* FileList on all tables of at most MaxManifests small manifests. *)
EXTENDS FileListRefinement, FiniteSetsExt, SequencesExt

CONSTANTS MaxManifests, MaxEntries

Manifests == [content : ManifestContent,
              entries : BoundedSeq({"ADDED", "DELETED"}, MaxEntries)]

\* One manifest more than MaxManifests: a manifest list of two chunks.
TinyManifests ==
    [content : ManifestContent, entries : {<<>>, <<"ADDED">>}]

\* A version 1 manifest list has no delete manifests: one version 1 table is
\* enough to see that its reader ignores the content.
SmallTables ==
    [snapshot : {TRUE}, format_version : {2},
     manifest_list : BoundedSeq(Manifests, MaxManifests)
                     \cup [1 .. MaxManifests + 1 -> TinyManifests]]
    \cup [snapshot : {TRUE}, format_version : {1},
          manifest_list : {<<[content |-> "DATA", entries |-> <<"EXISTING">>],
                             [content |-> "DATA", entries |-> <<"ADDED">>]>>}]
    \cup [snapshot : {FALSE}, format_version : {2}, manifest_list : {<<>>}]

=============================================================================
