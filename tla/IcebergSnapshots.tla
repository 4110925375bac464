-------------------------- MODULE IcebergSnapshots --------------------------
(***************************************************************************)
(* iceberg_snapshots: the table function walks the snapshots array of the   *)
(* metadata with an iterator that it keeps from call to call                *)
(* (src/src/iceberg_functions/iceberg_snapshots.cpp).                       *)
(***************************************************************************)
EXTENDS Integers, Sequences

CONSTANTS
    STANDARD_VECTOR_SIZE,
    Counts      \* the numbers of snapshots that a table may have

VARIABLES
    snapshots,      \* how many the array holds
    snapshot_it,    \* how many of them yyjson_arr_iter_next has returned
    output,         \* the chunk that the call under way fills, i its length
    received,       \* the snapshots of the chunks returned so far
    ended,          \* the last chunk was empty
    pc

vars == <<snapshots, snapshot_it, output, received, ended, pc>>

Init ==
    /\ snapshots \in Counts
    /\ snapshot_it = 0
    /\ output = <<>>
    /\ received = <<>>
    /\ ended = FALSE
    /\ pc = "idle"

\* DuckDB calls the function until it returns an empty chunk.
Call ==
    /\ pc = "idle"
    /\ ~ended
    /\ output' = <<>>
    /\ pc' = "loop"
    /\ UNCHANGED <<snapshots, snapshot_it, received, ended>>

Return ==
    /\ received' = received \o output
    /\ ended' = (output = <<>>)
    /\ pc' = "idle"
    /\ UNCHANGED <<snapshots, output>>

\* Mutant of Break: a chunk that lacks one row counts as full.
BreakEarly ==
    /\ pc = "loop"
    /\ snapshot_it < snapshots
    /\ Len(output) >= STANDARD_VECTOR_SIZE - 1
    /\ snapshot_it' = snapshot_it + 1
    /\ Return

\* The loop's condition takes the next snapshot; then the chunk turns out to
\* be full.
Break ==
    /\ pc = "loop"
    /\ snapshot_it < snapshots
    /\ Len(output) >= STANDARD_VECTOR_SIZE
    /\ snapshot_it' = snapshot_it + 1
    /\ Return

OutputSnapshot ==
    /\ pc = "loop"
    /\ snapshot_it < snapshots
    /\ Len(output) < STANDARD_VECTOR_SIZE
    /\ snapshot_it' = snapshot_it + 1
    /\ output' = Append(output, snapshot_it')
    /\ UNCHANGED <<snapshots, received, ended, pc>>

NoMoreSnapshots ==
    /\ pc = "loop"
    /\ snapshot_it = snapshots
    /\ UNCHANGED snapshot_it
    /\ Return

Next == Call \/ Break \/ OutputSnapshot \/ NoMoreSnapshots

Spec == Init /\ [][Next]_vars

-----------------------------------------------------------------------------
(* Properties *)

AllSnapshots == [k \in 1 .. snapshots |-> k]

\* "listing snapshots" (src/README.md:5): what the function returns by the time
\* it ends are the snapshots of the table, each once and in order.
ListsSnapshots == ended => received = AllSnapshots

\* One snapshot is lost after every STANDARD_VECTOR_SIZE of them and no other,
\* also in what was returned by any earlier call: the j-th one returned has as
\* many lost ones before it as full chunks, and when the function ends, what is
\* missing are the losses.
OnlyBoundariesSkipped ==
    /\ \A j \in DOMAIN received :
           received[j] = j + (j - 1) \div STANDARD_VECTOR_SIZE
    /\ ended => Len(received)
                    = snapshots - snapshots \div (STANDARD_VECTOR_SIZE + 1)

=============================================================================
