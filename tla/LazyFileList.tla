---------------------------- MODULE LazyFileList ----------------------------
(***************************************************************************)
(* What IcebergMultiFileList promises DuckDB's multi file scan through the  *)
(* MultiFileList interface: the live data files of the snapshot, in a fixed *)
(* order, found only as far as the calls need them.                         *)
(***************************************************************************)
EXTENDS Naturals, Sequences

VARIABLES
    live,       \* the live data files, <<manifest, row>>; never changes
    expanded,   \* the files found so far
    asked,      \* the call that waits for its answer, or NotAsked
    answer      \* the answer to the last call

vars == <<live, expanded, asked, answer>>

Before(e, f) == e[1] < f[1] \/ (e[1] = f[1] /\ e[2] < f[2])

NotAsked == [op |-> "none", file_id |-> 0]
NoFile == <<0, 0>>
NoAnswer == [outcome |-> "none", path |-> NoFile, number |-> 0]

Init ==
    /\ live \subseteq Nat \X Nat
    /\ expanded = <<>>
    /\ asked = NotAsked
    /\ answer = NoAnswer

Found == {expanded[j] : j \in 1 .. Len(expanded)}
AllFound == Found = live

Ask ==
    /\ asked = NotAsked
    /\ asked' \in [op : {"GetFile"}, file_id : Nat]
                 \cup [op : {"GetExpandResult", "GetTotalFileCount"},
                       file_id : {0}]
    /\ answer' = NoAnswer
    /\ UNCHANGED <<live, expanded>>

\* The first file that is not expanded yet is.
Expand ==
    /\ asked # NotAsked
    /\ \E e \in live \ Found :
           /\ \A f \in live \ Found : f = e \/ Before(e, f)
           /\ expanded' = Append(expanded, e)
    /\ UNCHANGED <<live, asked, answer>>

Reply(path, number) ==
    /\ answer' = [outcome |-> "ok", path |-> path, number |-> number]
    /\ asked' = NotAsked
    /\ UNCHANGED <<live, expanded>>

AnswerFile ==
    /\ asked.op = "GetFile"
    /\ \/ /\ asked.file_id < Len(expanded)
          /\ Reply(expanded[asked.file_id + 1], 0)
       \/ /\ asked.file_id >= Len(expanded)
          /\ AllFound
          /\ Reply(NoFile, 0)

AnswerExpandResult ==
    /\ asked.op = "GetExpandResult"
    /\ \/ Len(expanded) >= 2 /\ Reply(NoFile, 2)
       \/ Len(expanded) < 2 /\ AllFound /\ Reply(NoFile, Len(expanded))

AnswerTotalFileCount ==
    /\ asked.op = "GetTotalFileCount"
    /\ AllFound
    /\ Reply(NoFile, Len(expanded))

\* Any call may end in an exception; it loses nothing of what was found.
Fail ==
    /\ asked # NotAsked
    /\ answer' = [outcome |-> "exception", path |-> NoFile, number |-> 0]
    /\ asked' = NotAsked
    /\ UNCHANGED <<live, expanded>>

Next ==
    \/ Ask
    \/ Expand
    \/ AnswerFile \/ AnswerExpandResult \/ AnswerTotalFileCount
    \/ Fail

Spec == Init /\ [][Next]_vars

=============================================================================
