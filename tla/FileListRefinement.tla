------------------------- MODULE FileListRefinement -------------------------
(* FileList implements LazyFileList for callers that ask for one file past *)
(* the expanded ones at a time (Lookahead = 1).                            *)
EXTENDS FileList

Asked ==
    IF pc \in {"loop", "read"}
    THEN [op |-> call.op,
          file_id |-> IF call.op = "GetFile" THEN call.file_id ELSE 0]
    ELSE [op |-> "none", file_id |-> 0]

Lazy == INSTANCE LazyFileList WITH
    live <- LiveEntries,
    expanded <- data_files,
    asked <- Asked,
    answer <- ret

\* Chunks, the offset, the iterator and the readers are not observable: to its
\* callers the list is LazyFileList, through failed opens and interleaved
\* calls of GetFile, GetExpandResult and GetTotalFileCount.
ImplementsLazyFileList == Lazy!Spec

=============================================================================
