----------------------------- MODULE RowStream -----------------------------
(***************************************************************************)
(* What DuckDB expects of a table function: each call returns the next rows *)
(* in a chunk of at most STANDARD_VECTOR_SIZE, and the first empty chunk    *)
(* says that there are no more.                                             *)
(***************************************************************************)
EXTENDS Integers, Sequences

CONSTANT STANDARD_VECTOR_SIZE

VARIABLES
    rows,       \* the rows that the function lists
    received,   \* the rows of all chunks returned so far
    ended       \* an empty chunk was returned

vars == <<rows, received, ended>>

\* The chunk that the next call returns: a full one, or what is left.
Chunk == SubSeq(rows, Len(received) + 1,
                IF Len(rows) - Len(received) < STANDARD_VECTOR_SIZE
                THEN Len(rows) ELSE Len(received) + STANDARD_VECTOR_SIZE)

Init == received = <<>> /\ ended = FALSE

Call ==
    /\ ~ended
    /\ received' = received \o Chunk
    /\ ended' = (Chunk = <<>>)
    /\ UNCHANGED rows

Spec == Init /\ [][Call]_vars /\ WF_vars(Call)

=============================================================================
