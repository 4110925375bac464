---------------------------- MODULE MCDeleteData ----------------------------
(* DeleteData on two data files, three chunks and small delete manifests. *)
EXTENDS DeleteData, SequencesExt

TwoPaths == {"a", "b"}

\* No two paths differ in case only.
OwnKey(file) == file

\* Two chunks of one file, and one of the other.
SomeChunks ==
    {[file |-> "a", rows |-> <<0, 1>>], [file |-> "a", rows |-> <<2>>],
     [file |-> "b", rows |-> <<0>>]}

Delete == {<<"a", 0>>, <<"a", 2>>, <<"b", 0>>}
EntriesOf(statuses, n) ==
    [status : statuses, deletes : BoundedSeq(Delete, n)]

\* Several manifests; one manifest of several entries; a delete file and a
\* manifest of more than one chunk.
SmallManifests ==
    BoundedSeq(BoundedSeq(EntriesOf({"ADDED", "DELETED"}, 1), 1), 2)
    \cup {<<m>> : m \in BoundedSeq(EntriesOf({"ADDED", "DELETED"}, 1), 2)}
    \cup {<<<<e>>>> : e \in EntriesOf({"ADDED"}, 3)}
    \cup {<<m>> : m \in [1 .. 3 -> [status : {"EXISTING"},
                                   deletes : {<<d>> : d \in Delete}]]}

FewManifests ==
    {<<<<e>>, <<f>>>> : e, f \in EntriesOf({"ADDED"}, 1)}

=============================================================================
