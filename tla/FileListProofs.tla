--------------------------- MODULE FileListProofs ---------------------------
(* FileList for every table, every chunk size and every caller: its types,  *)
(* the order of the expanded files, and the lists of the manifests.         *)
EXTENDS FileListRefinement, ManifestReaderProofs, SequenceTheorems

N == Len(table.manifest_list)
InList(seq) == {seq[k] : k \in 1 .. Len(seq)}
Increasing(seq) == \A k, l \in 1 .. Len(seq) : k < l => seq[k] < seq[l]

-----------------------------------------------------------------------------
(* The inductive invariant *)

Readers ==
    /\ ReaderOK(manifest_reader)
    /\ ReaderOK(data_reader)
    /\ manifest_reader.skip_deleted = FALSE
    /\ data_reader.skip_deleted = TRUE
    /\ pc = "unbound" => Finished(manifest_reader)
    /\ pc \in {"unbound", "list", "split"} =>
           /\ Finished(data_reader)
           /\ current_data_manifest = 1
           /\ data_files = <<>>
    /\ pc # "read" => data_reader.at = "out"

\* What is read of the manifest list is in all_manifests.
ListRead ==
    /\ pc \in {"unbound", "list"} => data_manifests = <<>> /\ delete_manifests = <<>>
    /\ pc = "unbound" => all_manifests = <<>>
    /\ pc = "list" =>
           /\ manifest_reader.file = ManifestRows
           /\ WholeChunks(manifest_reader)
           /\ InList(all_manifests) = 1 .. Consumed(manifest_reader)
           /\ Increasing(all_manifests)

\* A manifest is in one of the three lists, and those that are still to be
\* split come after the others.
Split ==
    /\ pc \in {"split", "idle", "loop", "read"} =>
           /\ InList(all_manifests) \cup InList(data_manifests)
                  \cup InList(delete_manifests) = 1 .. N
           /\ Increasing(all_manifests)
           /\ Increasing(data_manifests)
           /\ Increasing(delete_manifests)
           /\ \A k \in InList(data_manifests) : Content(k) = "DATA"
           /\ \A k \in InList(delete_manifests) : Content(k) # "DATA"
           /\ \A k \in InList(data_manifests) \cup InList(delete_manifests) :
                  \A l \in InList(all_manifests) : k < l
    /\ pc \in {"idle", "loop", "read"} => all_manifests = <<>>

\* The reader has the manifest open that the iterator points to.
Open == pc = "read" \/ ~Finished(data_reader)
Current == data_manifests[current_data_manifest]
OpenManifestRead ==
    Open => /\ current_data_manifest <= Len(data_manifests)
            /\ data_reader.file = table.manifest_list[Current].entries

\* The data manifests that are read to their end, and the rows that are read of
\* the one that is open.
Passed(e) ==
    \E m \in 1 .. Len(data_manifests) :
        /\ e[1] = data_manifests[m]
        /\ \/ m < current_data_manifest
           \/ /\ m = current_data_manifest
              /\ Open
              /\ e[2] <= Consumed(data_reader)

FilesArePassed ==
    /\ \A j \in 1 .. Len(data_files) : Passed(data_files[j])
    /\ ExpandedInOrder

IInv == TypeOK /\ Readers /\ ListRead /\ Split /\ OpenManifestRead
            /\ FilesArePassed

-----------------------------------------------------------------------------
(* Facts about the table *)

\* What a table holds is well typed, also as the file of a reader.
LEMMA TableTypes ==
    ASSUME table \in Tables
    PROVE  /\ N \in Nat
           /\ table.manifest_list \in Seq(Manifest)
           /\ \A k \in 1 .. N :
                  /\ table.manifest_list[k] \in Manifest
                  /\ table.manifest_list[k].entries \in Seq(EntryStatus)
                  /\ table.manifest_list[k].entries \in Seq(RowStatus)
           /\ ManifestRows \in Seq(RowStatus)
           /\ Len(ManifestRows) = N
           /\ ~table.snapshot => N = 0
  <1>1. table \in Table
    BY TablesAssumption
  <1>2. table.manifest_list \in Seq(Manifest) /\ N \in Nat
    BY <1>1 DEF Table, N
  <1>3. ASSUME NEW k \in 1 .. N
        PROVE  /\ table.manifest_list[k] \in Manifest
               /\ table.manifest_list[k].entries \in Seq(EntryStatus)
               /\ table.manifest_list[k].entries \in Seq(RowStatus)
    <2>1. table.manifest_list[k] \in Manifest
      BY <1>2, <1>3 DEF N
    <2>2. table.manifest_list[k].entries \in Seq(EntryStatus)
      BY <2>1 DEF Manifest
    <2>3. EntryStatus \subseteq RowStatus
      BY DEF RowStatus
    <2> QED BY <2>1, <2>2, <2>3, SeqMonotonic
  <1>4. ManifestRows \in Seq(RowStatus) /\ Len(ManifestRows) = N
    <2>1. ManifestRows \in [1 .. N -> RowStatus]
      BY DEF ManifestRows, RowStatus, N
    <2> QED BY <1>2, <2>1
  <1>5. ~table.snapshot => N = 0
    BY <1>1 DEF Table, N
  <1> QED BY <1>2, <1>3, <1>4, <1>5

\* The manifests that the iterator may point to are in the manifest list.
LEMMA CurrentInList ==
    ASSUME TypeOK, Split, pc \in {"split", "idle", "loop", "read"}
    PROVE  /\ \A m \in 1 .. Len(data_manifests) :
                  /\ data_manifests[m] \in 1 .. N
                  /\ Content(data_manifests[m]) = "DATA"
           /\ \A m \in 1 .. Len(delete_manifests) :
                  /\ delete_manifests[m] \in 1 .. N
                  /\ Content(delete_manifests[m]) # "DATA"
           /\ \A m \in 1 .. Len(all_manifests) : all_manifests[m] \in 1 .. N
  BY DEF Split, InList, TypeOK

-----------------------------------------------------------------------------
(* The initial states *)

\* The constructor of the file list establishes the invariant.
LEMMA InitIInv == Init => IInv
  <1> SUFFICES ASSUME Init PROVE IInv
    OBVIOUS
  <1>1. ReaderOK(manifest_reader) /\ Finished(manifest_reader)
    BY NewReaderOK DEF Init
  <1>2. ReaderOK(data_reader) /\ Finished(data_reader)
    BY NewReaderOK DEF Init
  <1>3. /\ manifest_reader.skip_deleted = FALSE
        /\ data_reader.skip_deleted = TRUE
        /\ data_reader.at = "out"
    BY DEF Init, NewReader
  <1>4. TypeOK
    <2>1. manifest_reader \in Reader /\ data_reader \in Reader
      BY <1>1, <1>2 DEF ReaderOK
    <2>2. call \in Call /\ ret \in Answer
      BY DEF Init, NoCall, Call, Operation, NoAnswer, Answer, Outcome, NoFile,
             Entry
    <2>3. current_data_manifest \in 1 .. Len(data_manifests) + 1
      BY DEF Init
    <2>4. /\ all_manifests \in Seq(Nat) /\ data_manifests \in Seq(Nat)
          /\ delete_manifests \in Seq(Nat) /\ data_files \in Seq(Entry)
      BY DEF Init
    <2>5. pc = "unbound" /\ table \in Tables
      BY DEF Init
    <2> QED BY <2>1, <2>2, <2>3, <2>4, <2>5 DEF TypeOK
  <1>5. Readers
    BY <1>1, <1>2, <1>3 DEF Init, Readers
  <1>6. ListRead /\ Split
    BY DEF Init, ListRead, Split
  <1>7. OpenManifestRead
    BY <1>2 DEF Init, OpenManifestRead, Open
  <1>8. FilesArePassed
    BY DEF Init, FilesArePassed, ExpandedInOrder
  <1> QED BY <1>4, <1>5, <1>6, <1>7, <1>8 DEF IInv

-----------------------------------------------------------------------------
(* Steps of the calls *)

\* The variables that no call changes.
Bound == <<table, manifest_reader, all_manifests, data_manifests,
           delete_manifests>>

\* A call changes none of what InitializeFiles has set up.
LEMMA BoundStep ==
    ASSUME IInv, UNCHANGED Bound,
           pc \in {"idle", "loop", "read"}, pc' \in {"idle", "loop", "read"}
    PROVE  ListRead' /\ Split'
  <1>1. ListRead'
    BY DEF ListRead
  <1>2. Split'
    BY DEF IInv, Split, Bound, InList, Increasing, N, Content
  <1> QED BY <1>1, <1>2

\* The iterator, the reader and the files stay: a call begins, is answered, or
\* fails to open a manifest.
LEMMA QuietStep ==
    ASSUME IInv, UNCHANGED Bound,
           UNCHANGED <<current_data_manifest, data_reader, data_files>>,
           pc \in {"idle", "loop"}, pc' \in {"idle", "loop"},
           call' \in Call, ret' \in Answer
    PROVE  IInv'
  <1>1. TypeOK'
    BY DEF IInv, TypeOK, Bound
  <1>2. Readers'
    BY DEF IInv, Readers, Bound, Finished
  <1>3. ListRead' /\ Split'
    BY BoundStep
  <1>4. OpenManifestRead'
    BY DEF IInv, OpenManifestRead, Open, Current, Bound, Finished
  <1>5. FilesArePassed'
    <2>1. ASSUME NEW j \in 1 .. Len(data_files)
          PROVE  Passed(data_files[j])'
      BY DEF IInv, FilesArePassed, Passed, Bound, Open, Finished
    <2>2. ExpandedInOrder'
      BY DEF IInv, FilesArePassed, ExpandedInOrder, IsLive, DataManifest,
             Content, Bound
    <2> QED BY <2>1, <2>2 DEF FilesArePassed
  <1> QED BY <1>1, <1>2, <1>3, <1>4, <1>5 DEF IInv

\* A call begins.
LEMMA NewCallStep == IInv /\ NewCall => IInv'
  <1> SUFFICES ASSUME IInv, NewCall PROVE IInv'
    OBVIOUS
  <1>1. PICK op \in Operation, i \in Nat : Begin(op, i)
    <2>1. Len(data_files) \in Nat /\ Lookahead \in Nat
      BY LookaheadAssumption DEF IInv, TypeOK
    <2> QED BY <2>1 DEF NewCall, CallGetFile, CallGetExpandResult,
                        CallGetTotalFileCount, Operation
  <1>2. call' \in Call /\ ret' \in Answer
    BY <1>1 DEF Begin, Call, NoAnswer, Answer, Outcome, NoFile, Entry
  <1> QED BY <1>1, <1>2, QuietStep DEF Begin, Bound

\* A call is answered.
LEMMA GetFileReturnsStep == IInv /\ GetFileReturns => IInv'
  <1> SUFFICES ASSUME IInv, GetFileReturns PROVE IInv'
    OBVIOUS
  <1>1. TypeOK
    BY DEF IInv
  <1>2. pc' \in {"idle", "loop"} /\ pc = "loop"
    BY DEF GetFileReturns
  <1>3. call' \in Call
    <2>1. [call EXCEPT !.file_id = @ + 1] \in Call
      <3> DEFINE next == call.file_id + 1
      <3>1. call \in Call /\ next \in Nat
        BY <1>1 DEF TypeOK, Call
      <3> HIDE DEF next
      <3>2. [call EXCEPT !.file_id = next] \in Call
        BY <3>1 DEF Call
      <3> QED BY <3>2 DEF next
    <2> QED BY <1>1, <2>1 DEF GetFileReturns, TypeOK
  <1>4. ret' \in Answer
    <2>1. CASE call.op = "GetTotalFileCount" /\ Expanded(call.file_id)
      BY <1>1, <2>1 DEF GetFileReturns, TypeOK
    <2>2. CASE ~(call.op = "GetTotalFileCount" /\ Expanded(call.file_id))
      <3> DEFINE path == IF call.op = "GetFile" /\ Expanded(call.file_id)
                         THEN data_files[call.file_id + 1] ELSE NoFile
                 number == CASE call.op = "GetFile" -> 0
                             [] call.op = "GetExpandResult" ->
                                    Smaller(Len(data_files), 2)
                             [] OTHER -> Len(data_files)
      <3>1. path \in Entry
        <4>1. CASE call.op = "GetFile" /\ Expanded(call.file_id)
          BY <1>1, <4>1 DEF TypeOK, Call, Expanded
        <4>2. CASE ~(call.op = "GetFile" /\ Expanded(call.file_id))
          BY <4>2 DEF NoFile, Entry
        <4> QED BY <4>1, <4>2
      <3>2. number \in Nat
        BY <1>1 DEF TypeOK, Smaller
      <3>3. ret' = [outcome |-> "ok", path |-> path, number |-> number]
        BY <2>2 DEF GetFileReturns
      <3> HIDE DEF path, number
      <3> QED BY <3>1, <3>2, <3>3 DEF Answer, Outcome
    <2> QED BY <2>1, <2>2
  <1> QED BY <1>2, <1>3, <1>4, QuietStep DEF GetFileReturns, Bound

\* A manifest cannot be opened.
LEMMA OpenFailsStep == IInv /\ OpenFails => IInv'
  <1> SUFFICES ASSUME IInv, OpenFails PROVE IInv'
    OBVIOUS
  <1>1. call' \in Call /\ ret' \in Answer
    BY DEF IInv, TypeOK, OpenFails, Exception, Answer, Outcome, NoFile, Entry
  <1> QED BY <1>1, QuietStep DEF OpenFails, Bound

\* The manifest that the iterator points to is opened: the files expanded so
\* far come from the manifests before it.
LEMMA OpenManifestStep == IInv /\ OpenManifest => IInv'
  <1> SUFFICES ASSUME IInv, OpenManifest PROVE IInv'
    OBVIOUS
  <1> DEFINE r == Initialize(data_reader, table.manifest_list[Current].entries)
  <1>1. /\ TypeOK /\ Readers /\ Split /\ FilesArePassed
        /\ UNCHANGED Bound
        /\ UNCHANGED <<current_data_manifest, data_files, call, ret>>
        /\ pc = "loop" /\ pc' = "read" /\ ~Open
        /\ Finished(data_reader)
    BY DEF IInv, OpenManifest, Bound, Open
  <1>2. /\ current_data_manifest \in 1 .. Len(data_manifests)
        /\ Current \in 1 .. N
    <2>1. current_data_manifest \in 1 .. Len(data_manifests)
      BY <1>1 DEF OpenManifest, AtEnd, TypeOK
    <2> QED BY <1>1, <2>1, CurrentInList DEF Current
  <1>3. table.manifest_list[Current].entries \in Seq(RowStatus)
    BY <1>1, <1>2, TableTypes DEF TypeOK
  <1>4. Remaining \in Nat
    BY <1>1 DEF OpenManifest, Expanded, Remaining, TypeOK, Call
  <1>5. /\ ReaderOK(r) /\ ~Finished(r) /\ r.at = "out"
        /\ r.file = table.manifest_list[Current].entries
        /\ r.skip_deleted = TRUE
    BY <1>1, <1>3, InitializeOK DEF Readers
  <1>6. data_reader' = ReadEntries(r, Remaining)
    BY DEF OpenManifest, Current
  <1> HIDE DEF r
  <1>7. /\ ReaderOK(data_reader') /\ ~Finished(data_reader')
        /\ data_reader'.file = table.manifest_list[Current].entries
        /\ data_reader'.skip_deleted = TRUE
    BY <1>4, <1>5, <1>6, ReadEntriesOK
  <1>8. TypeOK'
    BY <1>1, <1>7 DEF TypeOK, Bound, ReaderOK
  <1>9. Readers'
    BY <1>1, <1>7 DEF Readers, Bound
  <1>10. ListRead' /\ Split'
    BY <1>1, BoundStep
  <1>11. OpenManifestRead'
    BY <1>1, <1>2, <1>7 DEF OpenManifestRead, Current, Bound
  <1>12. FilesArePassed'
    <2>1. ASSUME NEW j \in 1 .. Len(data_files)
          PROVE  Passed(data_files[j])'
      BY <1>1 DEF FilesArePassed, Passed, Bound
    <2>2. ExpandedInOrder'
      BY <1>1 DEF FilesArePassed, ExpandedInOrder, IsLive, DataManifest,
                  Content, Bound
    <2> QED BY <1>1, <2>1, <2>2 DEF FilesArePassed
  <1> QED BY <1>8, <1>9, <1>10, <1>11, <1>12 DEF IInv

\* The manifest that is open is read on.
LEMMA ContinueManifestStep == IInv /\ ContinueManifest => IInv'
  <1> SUFFICES ASSUME IInv, ContinueManifest PROVE IInv'
    OBVIOUS
  <1>1. /\ TypeOK /\ Readers /\ Split /\ FilesArePassed /\ OpenManifestRead
        /\ UNCHANGED Bound
        /\ UNCHANGED <<current_data_manifest, data_files, call, ret>>
        /\ pc = "loop" /\ pc' = "read" /\ Open
        /\ ~Finished(data_reader)
    BY DEF IInv, ContinueManifest, Bound, Open
  <1>2. Remaining \in Nat
    BY <1>1 DEF ContinueManifest, Expanded, Remaining, TypeOK, Call
  <1>3. data_reader' = ReadEntries(data_reader, Remaining)
    BY DEF ContinueManifest
  <1>4. /\ ReaderOK(data_reader') /\ ~Finished(data_reader')
        /\ data_reader'.file = data_reader.file
        /\ data_reader'.skip_deleted = TRUE
        /\ Consumed(data_reader') = Consumed(data_reader)
    BY <1>1, <1>2, <1>3, ReadEntriesOK DEF Readers
  <1>5. TypeOK'
    BY <1>1, <1>4 DEF TypeOK, Bound, ReaderOK
  <1>6. Readers'
    BY <1>1, <1>4 DEF Readers, Bound
  <1>7. ListRead' /\ Split'
    BY <1>1, BoundStep
  <1>8. OpenManifestRead'
    BY <1>1, <1>4 DEF OpenManifestRead, Current, Bound
  <1>9. FilesArePassed'
    <2>1. ASSUME NEW j \in 1 .. Len(data_files)
          PROVE  Passed(data_files[j])'
      BY <1>1, <1>4 DEF FilesArePassed, Passed, Bound, Open
    <2>2. ExpandedInOrder'
      BY <1>1 DEF FilesArePassed, ExpandedInOrder, IsLive, DataManifest,
                  Content, Bound
    <2> QED BY <1>1, <2>1, <2>2 DEF FilesArePassed
  <1> QED BY <1>5, <1>6, <1>7, <1>8, <1>9 DEF IInv

\* A step of the reader that expands no file: it only gets further.
LEMMA ReadOnStep ==
    ASSUME IInv, pc = "read", UNCHANGED Bound,
           UNCHANGED <<current_data_manifest, data_files, pc, call, ret>>,
           ReaderOK(data_reader'),
           data_reader'.file = data_reader.file,
           data_reader'.skip_deleted = data_reader.skip_deleted,
           Consumed(data_reader) <= Consumed(data_reader')
    PROVE  IInv'
  <1>1. TypeOK /\ Readers /\ OpenManifestRead /\ FilesArePassed
    BY DEF IInv
  <1>2. /\ Consumed(data_reader) \in Int /\ Consumed(data_reader') \in Int
    <2>1. /\ Len(data_reader.file) \in Nat
          /\ Len(data_reader'.file) \in Nat
      BY <1>1, ReaderFields DEF Readers, ReaderOK
    <2> QED BY <1>1, <2>1, ConsumedNat DEF Readers
  <1>3. TypeOK' /\ Readers'
    BY <1>1 DEF TypeOK, Readers, Bound, ReaderOK
  <1>4. ListRead' /\ Split'
    BY BoundStep
  <1>5. OpenManifestRead'
    BY <1>1 DEF OpenManifestRead, Current, Bound, Open
  <1>6. FilesArePassed'
    <2>1. ASSUME NEW j \in 1 .. Len(data_files)
          PROVE  Passed(data_files[j])'
      <3>1. data_files[j] \in Entry /\ data_files[j][2] \in Nat
        BY <1>1 DEF TypeOK, Entry
      <3> QED
        BY <1>1, <1>2, <3>1 DEF FilesArePassed, Passed, Bound, Open
    <2>2. ExpandedInOrder'
      BY <1>1 DEF FilesArePassed, ExpandedInOrder, IsLive, DataManifest,
                  Content, Bound
    <2> QED BY <2>1, <2>2 DEF FilesArePassed
  <1> QED BY <1>3, <1>4, <1>5, <1>6 DEF IInv

\* A row of the manifest is looked at: what is kept comes after every file
\* that is expanded, and is live.
LEMMA ProduceFileStep ==
    ASSUME IInv, pc = "read", UNCHANGED Bound,
           UNCHANGED <<current_data_manifest, pc, call, ret>>,
           ProduceEntry(data_reader, data_reader'),
           Kept(data_reader),
           data_files' = Append(data_files, <<Current, Row(data_reader)>>)
    PROVE  IInv'
  <1> DEFINE e == <<Current, Row(data_reader)>>
  <1>1. TypeOK /\ Readers /\ Split /\ OpenManifestRead /\ FilesArePassed
    BY DEF IInv
  <1>2. /\ ReaderOK(data_reader')
        /\ ~Finished(data_reader')
        /\ data_reader'.file = data_reader.file
        /\ data_reader'.skip_deleted = TRUE
        /\ Row(data_reader) = Consumed(data_reader) + 1
        /\ Row(data_reader) \in 1 .. Len(data_reader.file)
        /\ Consumed(data_reader') = Row(data_reader)
    BY <1>1, ProduceEntryOK DEF Readers
  <1>3. /\ Consumed(data_reader) \in Int
        /\ data_files \in Seq(Entry)
        /\ current_data_manifest \in 1 .. Len(data_manifests)
        /\ Len(data_manifests) \in Nat
        /\ data_reader.file = table.manifest_list[Current].entries
    <2>1. Len(data_reader.file) \in Nat
      BY <1>1, ReaderFields DEF Readers, ReaderOK
    <2>2. Consumed(data_reader) \in Int
      BY <1>1, <2>1, ConsumedNat DEF Readers
    <2> QED BY <1>1, <2>2 DEF OpenManifestRead, Open, TypeOK
  <1>4. Current \in 1 .. N /\ Content(Current) = "DATA"
    BY <1>1, <1>3, CurrentInList DEF Current
  <1>5. e \in Entry
    BY <1>2, <1>4, <1>1, TableTypes, SMTT(40) DEF Entry, TypeOK
  <1>6. IsLive(e)
    BY <1>1, <1>2, <1>3, <1>4
       DEF IsLive, DataManifest, N, Kept, Readers
  <1>7. \A j \in 1 .. Len(data_files) : Before(data_files[j], e)
    <2> TAKE j \in 1 .. Len(data_files)
    <2>1. data_files[j] \in Entry /\ data_files[j][2] \in Nat
      BY <1>3 DEF Entry
    <2>2. PICK m \in 1 .. Len(data_manifests) :
             /\ data_files[j][1] = data_manifests[m]
             /\ \/ m < current_data_manifest
                \/ /\ m = current_data_manifest
                   /\ data_files[j][2] <= Consumed(data_reader)
      BY <1>1 DEF FilesArePassed, Passed
    <2>3. CASE m < current_data_manifest
      BY <1>1, <1>3, <2>2, <2>3 DEF Split, Increasing, Before, Current
    <2>4. CASE /\ m = current_data_manifest
               /\ data_files[j][2] <= Consumed(data_reader)
      BY <1>2, <1>3, <2>1, <2>2, <2>4 DEF Before, Current
    <2> QED BY <2>2, <2>3, <2>4
  <1> HIDE DEF e
  <1>8. /\ data_files' \in Seq(Entry)
        /\ Len(data_files') = Len(data_files) + 1
        /\ \A j \in 1 .. Len(data_files) : data_files'[j] = data_files[j]
        /\ data_files'[Len(data_files) + 1] = e
        /\ Len(data_files) \in Nat
    BY <1>3, <1>5, AppendProperties DEF e
  <1>9. TypeOK' /\ Readers'
    BY <1>1, <1>2, <1>8 DEF TypeOK, Readers, Bound, ReaderOK
  <1>10. ListRead' /\ Split'
    BY BoundStep
  <1>11. OpenManifestRead'
    BY <1>1, <1>2 DEF OpenManifestRead, Current, Bound, Open
  <1>12. \A j \in 1 .. Len(data_files') : Passed(data_files[j])'
    <2> TAKE j \in 1 .. Len(data_files')
    <2>1. CASE j <= Len(data_files)
      <3>1. data_files[j] \in Entry /\ data_files[j][2] \in Nat
        BY <1>3, <2>1, SMTT(40) DEF Entry
      <3>2. Passed(data_files[j])
        BY <1>1, <1>8, <2>1 DEF FilesArePassed
      <3> QED
        BY <1>2, <1>3, <1>8, <2>1, <3>1, <3>2 DEF Passed, Bound, Open
    <2>2. CASE j = Len(data_files) + 1
      <3>1. data_files'[j] = e
        BY <1>8, <2>2
      <3>2. e[1] = data_manifests[current_data_manifest]
            /\ e[2] = Row(data_reader)
        BY DEF e, Current
      <3>3. Row(data_reader) <= Consumed(data_reader')
        BY <1>2, SMTT(40)
      <3> QED
        BY <1>2, <1>3, <3>1, <3>2, <3>3 DEF Passed, Bound, Open
    <2> QED BY <1>8, <2>1, <2>2
  <1>13. ExpandedInOrder'
    <2>1. \A j \in 1 .. Len(data_files') : IsLive(data_files'[j])
      <3> TAKE j \in 1 .. Len(data_files')
      <3>1. CASE j = Len(data_files) + 1
        BY <1>6, <1>8, <3>1
      <3>2. CASE j \in 1 .. Len(data_files)
        <4>1. IsLive(data_files[j])
          BY <1>1, <3>2 DEF FilesArePassed, ExpandedInOrder
        <4>2. data_files'[j] = data_files[j]
          BY <1>8, <3>2
        <4> QED BY <4>1, <4>2
      <3> QED BY <1>8, <3>1, <3>2
    <2>2. \A j, l \in 1 .. Len(data_files') :
             j < l => Before(data_files'[j], data_files'[l])
      <3> SUFFICES ASSUME NEW j \in 1 .. Len(data_files'),
                          NEW l \in 1 .. Len(data_files'), j < l
                   PROVE  Before(data_files'[j], data_files'[l])
        OBVIOUS
      <3>1. j \in 1 .. Len(data_files) /\ data_files'[j] = data_files[j]
        BY <1>8
      <3>2. CASE l = Len(data_files) + 1
        BY <1>7, <1>8, <3>1, <3>2
      <3>3. CASE l \in 1 .. Len(data_files)
        BY <1>1, <1>8, <3>1, <3>3 DEF FilesArePassed, ExpandedInOrder
      <3> QED BY <1>8, <3>2, <3>3
    <2> QED
      BY <2>1, <2>2
         DEF ExpandedInOrder, IsLive, DataManifest, Content, Bound
  <1>14. FilesArePassed'
    BY <1>12, <1>13 DEF FilesArePassed
  <1> QED BY <1>9, <1>10, <1>11, <1>14 DEF IInv

\* A step of ReadEntries on the open manifest.
LEMMA ReadManifestStep == IInv /\ ReadManifest => IInv'
  <1> SUFFICES ASSUME IInv, ReadManifest PROVE IInv'
    OBVIOUS
  <1>1. /\ pc = "read" /\ UNCHANGED Bound
        /\ UNCHANGED <<current_data_manifest, pc, call, ret>>
        /\ ReaderOK(data_reader)
    BY DEF IInv, Readers, ReadManifest, Bound
  <1>2. CASE /\ ReadLoop(data_reader, data_reader')
             /\ UNCHANGED data_files
    BY <1>1, <1>2, ReadLoopOK, ReadOnStep
  <1>3. CASE /\ EndOfCallback(data_reader, data_reader')
             /\ UNCHANGED data_files
    BY <1>1, <1>3, EndOfCallbackOK, ReadOnStep
  <1>4. CASE /\ ProduceEntry(data_reader, data_reader')
             /\ ~Kept(data_reader) /\ data_files' = data_files
    <2>1. Consumed(data_reader) \in 0 .. Len(data_reader.file)
      BY <1>1, ConsumedNat
    <2> QED BY <1>1, <1>4, <2>1, ProduceEntryOK, ReadOnStep
  <1>5. CASE /\ ProduceEntry(data_reader, data_reader')
             /\ Kept(data_reader)
             /\ data_files' = Append(data_files, <<Current, Row(data_reader)>>)
    BY <1>1, <1>5, ProduceFileStep
  <1> QED BY <1>2, <1>3, <1>4, <1>5 DEF ReadManifest, Current

\* ReadEntries returns; at the end of the manifest the iterator moves on.
LEMMA ManifestReadStep == IInv /\ ManifestRead => IInv'
  <1> SUFFICES ASSUME IInv, ManifestRead PROVE IInv'
    OBVIOUS
  <1>1. /\ TypeOK /\ Readers /\ Split /\ FilesArePassed /\ OpenManifestRead
        /\ UNCHANGED Bound
        /\ UNCHANGED <<data_reader, data_files, call, ret>>
        /\ pc = "read" /\ pc' = "loop" /\ Open
        /\ data_reader.at = "out"
    BY DEF IInv, ManifestRead, Bound, Open
  <1>2. /\ current_data_manifest \in 1 .. Len(data_manifests)
        /\ Len(data_manifests) \in Nat
        /\ current_data_manifest' = IF Finished(data_reader)
                                    THEN current_data_manifest + 1
                                    ELSE current_data_manifest
    BY <1>1 DEF ManifestRead, OpenManifestRead, TypeOK
  <1>3. TypeOK'
    BY <1>1, <1>2 DEF TypeOK, Bound
  <1>4. Readers'
    BY <1>1 DEF Readers, Bound
  <1>5. ListRead' /\ Split'
    BY <1>1, BoundStep
  <1>6. OpenManifestRead'
    BY <1>1, <1>2 DEF OpenManifestRead, Current, Bound, Open, Finished
  <1>7. FilesArePassed'
    <2>1. ASSUME NEW j \in 1 .. Len(data_files)
          PROVE  Passed(data_files[j])'
      BY <1>1, <1>2 DEF FilesArePassed, Passed, Bound, Open, Finished
    <2>2. ExpandedInOrder'
      BY <1>1 DEF FilesArePassed, ExpandedInOrder, IsLive, DataManifest,
                  Content, Bound
    <2> QED BY <1>1, <2>1, <2>2 DEF FilesArePassed
  <1> QED BY <1>3, <1>4, <1>5, <1>6, <1>7 DEF IInv

-----------------------------------------------------------------------------
(* Steps of InitializeFiles *)

\* Until the list is bound, no file is expanded and no data manifest is open.
LEMMA BindFrame ==
    ASSUME IInv, pc \in {"unbound", "list", "split"}, pc' # "read",
           UNCHANGED <<data_reader, data_files>>
    PROVE  OpenManifestRead' /\ FilesArePassed'
  <1>1. /\ Finished(data_reader) /\ data_files = <<>>
    BY DEF IInv, Readers
  <1>2. OpenManifestRead'
    BY <1>1 DEF OpenManifestRead, Open, Finished
  <1>3. FilesArePassed'
    BY <1>1 DEF FilesArePassed, ExpandedInOrder
  <1> QED BY <1>2, <1>3

\* The manifest list is opened, unless the table has no snapshot.
LEMMA InitializeFilesStep == IInv /\ InitializeFiles => IInv'
  <1> SUFFICES ASSUME IInv, InitializeFiles PROVE IInv'
    OBVIOUS
  <1>1. /\ TypeOK /\ Readers /\ ListRead /\ table \in Tables
        /\ pc = "unbound"
        /\ UNCHANGED <<table, all_manifests, data_manifests, delete_manifests,
                       current_data_manifest, data_reader, data_files, call,
                       ret>>
    BY DEF IInv, TypeOK, InitializeFiles
  <1>2. CASE table.snapshot
    <2> DEFINE r == Initialize(manifest_reader, ManifestRows)
    <2>1. /\ pc' = "list"
          /\ manifest_reader' = ReadEntries(r, STANDARD_VECTOR_SIZE)
      BY <1>2 DEF InitializeFiles
    <2>2. /\ ReaderOK(r) /\ ~Finished(r) /\ r.at = "out"
          /\ r.file = ManifestRows /\ r.skip_deleted = FALSE
          /\ Consumed(r) = 0
      BY <1>1, TableTypes, InitializeOK DEF Readers
    <2>3. r.size = 0 /\ r.offset = 0
      BY <1>1 DEF Readers, ReaderOK, Reader, Initialize
    <2> HIDE DEF r
    <2>4. STANDARD_VECTOR_SIZE \in Nat /\ 0 < STANDARD_VECTOR_SIZE
      BY VectorSizeAssumption
    <2>5. /\ ReaderOK(manifest_reader') /\ ~Finished(manifest_reader')
          /\ manifest_reader'.file = ManifestRows
          /\ manifest_reader'.skip_deleted = FALSE
          /\ manifest_reader'.at = "loop"
          /\ manifest_reader'.count = STANDARD_VECTOR_SIZE
          /\ manifest_reader'.scanned = 0
          /\ Consumed(manifest_reader') = 0
          /\ manifest_reader'.size = 0 /\ manifest_reader'.offset = 0
      BY <2>1, <2>2, <2>3, <2>4, ReadEntriesOK
    <2>6. TypeOK'
      BY <1>1, <2>1, <2>5 DEF TypeOK, ReaderOK
    <2>7. Readers'
      BY <1>1, <2>1, <2>5 DEF Readers
    <2>8. ListRead'
      <3>1. WholeChunks(manifest_reader')
        <4>1. ManifestRows \in Seq(RowStatus)
          BY <1>1, TableTypes
        <4> QED BY <1>1, <2>1, <4>1, OpenedWholeChunks DEF Readers, r
      <3>2. all_manifests = <<>>
        BY <1>1 DEF ListRead
      <3>3. InList(all_manifests) = {} /\ Increasing(all_manifests)
        BY <3>2 DEF InList, Increasing
      <3>4. ManifestRows' = ManifestRows
        BY <1>1 DEF ManifestRows
      <3> QED
        BY <1>1, <2>1, <2>5, <3>1, <3>3, <3>4
           DEF ListRead, InList, Increasing
    <2>9. Split'
      BY <2>1 DEF Split
    <2> QED BY <1>1, <2>1, <2>6, <2>7, <2>8, <2>9, BindFrame DEF IInv
  <1>3. CASE ~table.snapshot
    <2>1. pc' = "idle" /\ UNCHANGED manifest_reader
      BY <1>3 DEF InitializeFiles
    <2>2. /\ N = 0
          /\ all_manifests = <<>> /\ data_manifests = <<>>
          /\ delete_manifests = <<>>
      BY <1>1, <1>3, TableTypes DEF ListRead
    <2>3. TypeOK' /\ ListRead'
      BY <1>1, <2>1 DEF TypeOK, ListRead
    <2>4. Readers'
      BY <1>1, <2>1 DEF Readers
    <2>5. Split'
      BY <1>1, <2>1, <2>2 DEF Split, InList, Increasing, N
    <2> QED BY <1>1, <2>1, <2>3, <2>4, <2>5, BindFrame DEF IInv
  <1> QED BY <1>2, <1>3

\* A row of the manifest list is read into all_manifests.
LEMMA ProduceManifestStep ==
    ASSUME IInv, pc = "list", pc' = "list",
           ProduceEntry(manifest_reader, manifest_reader'),
           all_manifests' = Append(all_manifests, Row(manifest_reader)),
           UNCHANGED <<table, data_manifests, delete_manifests,
                       current_data_manifest, data_reader, data_files, call,
                       ret>>
    PROVE  IInv'
  <1> DEFINE row == Row(manifest_reader)
  <1>1. /\ TypeOK /\ Readers /\ ListRead
    BY DEF IInv
  <1>2. /\ ReaderOK(manifest_reader') /\ ~Finished(manifest_reader')
        /\ manifest_reader'.file = ManifestRows
        /\ manifest_reader'.skip_deleted = FALSE
        /\ row = Consumed(manifest_reader) + 1
        /\ row \in 1 .. Len(ManifestRows)
        /\ Consumed(manifest_reader') = row
    BY <1>1, ProduceEntryOK DEF Readers, ListRead
  <1>3. WholeChunks(manifest_reader')
    BY <1>1, WholeChunksStep DEF Readers, ListRead, SkipsLastChunk
  <1>4. Len(ManifestRows) = N /\ N \in Nat
    BY <1>1, TableTypes DEF TypeOK
  <1> HIDE DEF row
  <1>5. /\ all_manifests' \in Seq(Nat)
        /\ Len(all_manifests') = Len(all_manifests) + 1
        /\ Len(all_manifests) \in Nat
        /\ \A j \in 1 .. Len(all_manifests) :
               /\ all_manifests'[j] = all_manifests[j]
               /\ all_manifests[j] \in Nat
        /\ all_manifests'[Len(all_manifests) + 1] = row
    BY <1>1, <1>2, <1>4, AppendProperties, SMTT(40) DEF TypeOK, row
  <1>6. InList(all_manifests') = 1 .. row
    <2>1. InList(all_manifests') = InList(all_manifests) \cup {row}
      BY <1>5 DEF InList
    <2>2. InList(all_manifests) = 1 .. row - 1 /\ row \in Nat /\ 1 <= row
      <3>1. Consumed(manifest_reader) \in Int
        BY <1>1, <1>4, ConsumedNat DEF Readers, ListRead
      <3> QED BY <1>1, <1>2, <1>4, <3>1 DEF ListRead
    <2> QED BY <2>1, <2>2
  <1>7. Increasing(all_manifests')
    <2> SUFFICES ASSUME NEW k \in 1 .. Len(all_manifests'),
                        NEW l \in 1 .. Len(all_manifests'), k < l
                 PROVE  all_manifests'[k] < all_manifests'[l]
      BY DEF Increasing
    <2>1. k \in 1 .. Len(all_manifests)
      BY <1>5
    <2>2. CASE l \in 1 .. Len(all_manifests)
      BY <1>1, <1>5, <2>1, <2>2 DEF ListRead, Increasing
    <2>3. CASE l = Len(all_manifests) + 1
      <3>1. all_manifests[k] \in 1 .. Consumed(manifest_reader)
        BY <1>1, <2>1 DEF ListRead, InList
      <3>2. Consumed(manifest_reader) \in Int
        BY <1>1, <1>4, ConsumedNat DEF Readers, ListRead
      <3> QED BY <1>2, <1>4, <1>5, <2>1, <2>3, <3>1, <3>2
    <2> QED BY <1>5, <2>2, <2>3
  <1>8. TypeOK' /\ Readers'
    BY <1>1, <1>2, <1>5 DEF TypeOK, Readers, ReaderOK
  <1>9. ListRead'
    <2>1. ManifestRows' = ManifestRows
      BY DEF ManifestRows
    <2> QED
      BY <1>1, <1>2, <1>3, <1>6, <1>7, <2>1
         DEF ListRead, InList, Increasing
  <1>10. Split'
    BY DEF Split
  <1> QED BY <1>8, <1>9, <1>10, BindFrame DEF IInv

\* A step of the reader of the manifest list that takes no row.
LEMMA ReadListOnStep ==
    ASSUME IInv, pc = "list", pc' = "list", UNCHANGED all_manifests,
           UNCHANGED <<table, data_manifests, delete_manifests,
                       current_data_manifest, data_reader, data_files, call,
                       ret>>,
           ReaderOK(manifest_reader'), WholeChunks(manifest_reader'),
           manifest_reader'.file = manifest_reader.file,
           manifest_reader'.skip_deleted = manifest_reader.skip_deleted,
           Consumed(manifest_reader') = Consumed(manifest_reader)
    PROVE  IInv'
  <1>1. TypeOK /\ Readers /\ ListRead
    BY DEF IInv
  <1>2. TypeOK' /\ Readers'
    BY <1>1 DEF TypeOK, Readers, ReaderOK
  <1>3. ListRead'
    <2>1. ManifestRows' = ManifestRows
      BY DEF ManifestRows
    <2> QED BY <1>1, <2>1 DEF ListRead, InList, Increasing
  <1>4. Split'
    BY DEF Split
  <1> QED BY <1>2, <1>3, <1>4, BindFrame DEF IInv

\* The manifest list is read, call after call, to its end.
LEMMA ReadManifestListStep == IInv /\ ReadManifestList => IInv'
  <1> SUFFICES ASSUME IInv, ReadManifestList PROVE IInv'
    OBVIOUS
  <1>1. /\ pc = "list" /\ TypeOK /\ Readers /\ ListRead
        /\ UNCHANGED <<table, data_manifests, delete_manifests,
                       current_data_manifest, data_reader, data_files, call,
                       ret>>
        /\ ReaderOK(manifest_reader) /\ WholeChunks(manifest_reader)
        /\ manifest_reader.skip_deleted = FALSE /\ SkipsLastChunk(manifest_reader)
    BY DEF IInv, Readers, ListRead, ReadManifestList, SkipsLastChunk
  <1>2. CASE /\ ReadLoop(manifest_reader, manifest_reader')
             /\ UNCHANGED <<all_manifests, pc>>
    BY <1>1, <1>2, ReadLoopOK, WholeChunksStep, ReadListOnStep
  <1>3. CASE /\ EndOfCallback(manifest_reader, manifest_reader')
             /\ UNCHANGED <<all_manifests, pc>>
    BY <1>1, <1>3, EndOfCallbackOK, WholeChunksStep, ReadListOnStep
  <1>4. CASE /\ ProduceEntry(manifest_reader, manifest_reader')
             /\ all_manifests' = Append(all_manifests, Row(manifest_reader))
             /\ UNCHANGED pc
    BY <1>1, <1>4, ProduceManifestStep
  <1>5. CASE /\ manifest_reader.at = "out"
             /\ ~Finished(manifest_reader)
             /\ manifest_reader' =
                   ReadEntries(manifest_reader, STANDARD_VECTOR_SIZE)
             /\ UNCHANGED <<all_manifests, pc>>
    <2>1. STANDARD_VECTOR_SIZE \in Nat
      BY VectorSizeAssumption
    <2>2. /\ ReaderOK(manifest_reader')
          /\ manifest_reader'.file = manifest_reader.file
          /\ manifest_reader'.skip_deleted = manifest_reader.skip_deleted
          /\ manifest_reader'.at = "loop"
          /\ manifest_reader'.count = STANDARD_VECTOR_SIZE
          /\ manifest_reader'.scanned = 0
          /\ Consumed(manifest_reader') = Consumed(manifest_reader)
          /\ manifest_reader'.offset = manifest_reader.offset
          /\ manifest_reader'.size = manifest_reader.size
          /\ manifest_reader'.fetched = manifest_reader.fetched
      BY <1>1, <1>5, <2>1, ReadEntriesOK
    <2>3. WholeChunks(manifest_reader')
      BY <1>1, <1>5, ContinuedWholeChunks
    <2> QED BY <1>1, <1>5, <2>2, <2>3, ReadListOnStep
  <1>6. CASE /\ manifest_reader.at = "out"
             /\ Finished(manifest_reader)
             /\ pc' = "split"
             /\ UNCHANGED <<manifest_reader, all_manifests>>
    <2>1. TypeOK' /\ Readers' /\ ListRead'
      BY <1>1, <1>6 DEF TypeOK, Readers, ListRead
    <2>2. Consumed(manifest_reader) = N
      <3>1. manifest_reader.size \in Nat /\ manifest_reader.offset \in Nat
            /\ manifest_reader.fetched \in Nat
        BY <1>1, ReaderFields DEF ReaderOK
      <3>2. manifest_reader.offset >= manifest_reader.size
        BY <1>1, <1>6 DEF WholeChunks
      <3>3. manifest_reader.fetched = Len(manifest_reader.file)
        BY <1>6, <1>1 DEF WholeChunks, Finished
      <3>4. Len(manifest_reader.file) = N
        BY <1>1, TableTypes DEF ListRead, TypeOK
      <3> QED
        BY <1>6, <3>1, <3>2, <3>3, <3>4 DEF Consumed, Smaller
    <2>3. Split'
      <3>1. InList(data_manifests) = {} /\ InList(delete_manifests) = {}
            /\ Increasing(data_manifests) /\ Increasing(delete_manifests)
        BY <1>1 DEF ListRead, InList, Increasing
      <3>2. InList(all_manifests) = 1 .. N /\ Increasing(all_manifests)
        BY <1>1, <2>2 DEF ListRead
      <3>3. InList(all_manifests') = 1 .. N' /\ Increasing(all_manifests')
        BY <1>1, <1>6, <3>2 DEF InList, Increasing, N
      <3>4. /\ InList(data_manifests') = {} /\ InList(delete_manifests') = {}
            /\ Increasing(data_manifests') /\ Increasing(delete_manifests')
        BY <1>1, <3>1 DEF InList, Increasing
      <3> QED
        BY <1>6, <3>3, <3>4 DEF Split
    <2> QED BY <1>1, <1>6, <2>1, <2>3, BindFrame DEF IInv
  <1> QED
    BY <1>2, <1>3, <1>4, <1>5, <1>6 DEF ReadManifestList

\* An increasing list stays so when a greater element is appended.
LEMMA ListAppend ==
    ASSUME NEW seq \in Seq(Nat), NEW x \in Nat, Increasing(seq),
           \A y \in InList(seq) : y < x
    PROVE  /\ Append(seq, x) \in Seq(Nat)
           /\ Len(Append(seq, x)) = Len(seq) + 1
           /\ InList(Append(seq, x)) = InList(seq) \cup {x}
           /\ Increasing(Append(seq, x))
  <1> DEFINE app == Append(seq, x)
  <1>1. /\ app \in Seq(Nat) /\ Len(app) = Len(seq) + 1
        /\ Len(seq) \in Nat
        /\ \A j \in 1 .. Len(seq) : app[j] = seq[j]
        /\ app[Len(seq) + 1] = x
    BY AppendProperties
  <1> HIDE DEF app
  <1>2. InList(app) = InList(seq) \cup {x}
    BY <1>1, SMTT(40) DEF InList
  <1>3. Increasing(app)
    <2> SUFFICES ASSUME NEW k \in 1 .. Len(app), NEW l \in 1 .. Len(app), k < l
                 PROVE  app[k] < app[l]
      BY DEF Increasing
    <2>1. k \in 1 .. Len(seq)
      BY <1>1
    <2>2. CASE l \in 1 .. Len(seq)
      BY <1>1, <2>1, <2>2 DEF Increasing
    <2>3. CASE l = Len(seq) + 1
      <3>1. seq[k] \in InList(seq)
        BY <2>1 DEF InList
      <3>2. seq[k] < x
        BY <3>1
      <3>3. app[k] = seq[k] /\ app[l] = x
        BY <1>1, <2>1, <2>3
      <3> QED BY <3>2, <3>3
    <2>4. l \in 1 .. Len(seq) \/ l = Len(seq) + 1
      <3>1. l \in 1 .. Len(seq) + 1 /\ Len(seq) \in Nat
        BY <1>1
      <3> QED BY <3>1
    <2> QED BY <2>2, <2>3, <2>4
  <1> QED BY <1>1, <1>2, <1>3 DEF app

\* Taking the first of an increasing list leaves the greater elements.
LEMMA ListTail ==
    ASSUME NEW seq \in Seq(Nat), seq # <<>>, Increasing(seq)
    PROVE  /\ Head(seq) \in Nat
           /\ Tail(seq) \in Seq(Nat)
           /\ Increasing(Tail(seq))
           /\ InList(seq) = {Head(seq)} \cup InList(Tail(seq))
           /\ \A y \in InList(Tail(seq)) : Head(seq) < y
  <1> DEFINE t == Tail(seq)
             h == Head(seq)
  <1>1. /\ t \in Seq(Nat) /\ h \in Nat /\ Len(t) = Len(seq) - 1
        /\ Len(seq) \in Nat \ {0} /\ h = seq[1]
        /\ \A j \in 1 .. Len(t) : t[j] = seq[j + 1]
    <2>1. Len(seq) \in Nat \ {0}
      BY EmptySeq
    <2>2. /\ t \in Seq(Nat) /\ h \in Nat /\ Len(t) = Len(seq) - 1
          /\ \A j \in 1 .. Len(t) : t[j] = seq[j + 1]
      BY HeadTailProperties
    <2>3. h = seq[1]
      OBVIOUS
    <2> QED BY <2>1, <2>2, <2>3
  <1> HIDE DEF t, h
  <1>2. ASSUME NEW k \in 1 .. Len(t)
        PROVE  /\ k + 1 \in 1 .. Len(seq) /\ 1 \in 1 .. Len(seq)
               /\ t[k] = seq[k + 1] /\ h < t[k]
               /\ \A l \in 1 .. Len(t) : k < l => t[k] < t[l]
    <2>1. /\ k + 1 \in 1 .. Len(seq) /\ 1 \in 1 .. Len(seq) /\ 1 < k + 1
          /\ t[k] = seq[k + 1]
      BY <1>1
    <2>2. h < t[k]
      BY <1>1, <2>1 DEF Increasing
    <2>3. ASSUME NEW l \in 1 .. Len(t), k < l
          PROVE  t[k] < t[l]
      <3>1. l + 1 \in 1 .. Len(seq) /\ t[l] = seq[l + 1] /\ k + 1 < l + 1
        BY <1>1, <2>3
      <3> QED BY <2>1, <3>1 DEF Increasing
    <2> QED BY <2>1, <2>2, <2>3
  <1>3. Increasing(t) /\ \A y \in InList(t) : h < y
    BY <1>2 DEF Increasing, InList
  <1>4. InList(seq) = {h} \cup InList(t)
    <2>1. ASSUME NEW j \in 1 .. Len(seq)
          PROVE  seq[j] \in {h} \cup InList(t)
      <3>1. CASE j = 1
        BY <1>1, <3>1
      <3>2. CASE j # 1
        <4>1. j - 1 \in 1 .. Len(t) /\ t[j - 1] = seq[j]
          BY <1>1, <3>2, SMTT(40)
        <4> QED BY <4>1 DEF InList
      <3> QED BY <3>1, <3>2
    <2>2. ASSUME NEW j \in 1 .. Len(t)
          PROVE  t[j] \in InList(seq)
      <3>1. j + 1 \in 1 .. Len(seq) /\ t[j] = seq[j + 1]
        BY <1>1
      <3> QED BY <3>1 DEF InList
    <2>3. h \in InList(seq)
      BY <1>1 DEF InList
    <2> QED BY <2>1, <2>2, <2>3 DEF InList
  <1> QED BY <1>1, <1>3, <1>4 DEF t, h

\* A manifest is moved to the list of its content.
LEMMA SplitManifestStep == IInv /\ SplitManifest => IInv'
  <1> SUFFICES ASSUME IInv, SplitManifest PROVE IInv'
    OBVIOUS
  <1> DEFINE k == Head(all_manifests)
  <1>1. /\ TypeOK /\ Readers /\ ListRead /\ Split
        /\ pc = "split" /\ pc' = "split"
        /\ all_manifests # <<>> /\ all_manifests' = Tail(all_manifests)
        /\ UNCHANGED <<table, manifest_reader, current_data_manifest,
                       data_reader, data_files, call, ret>>
    BY DEF IInv, SplitManifest
  <1>2. /\ all_manifests \in Seq(Nat) /\ data_manifests \in Seq(Nat)
        /\ delete_manifests \in Seq(Nat)
        /\ Increasing(all_manifests) /\ Increasing(data_manifests)
        /\ Increasing(delete_manifests)
        /\ InList(all_manifests) \cup InList(data_manifests)
               \cup InList(delete_manifests) = 1 .. N
        /\ \A m \in InList(data_manifests) : Content(m) = "DATA"
        /\ \A m \in InList(delete_manifests) : Content(m) # "DATA"
        /\ \A m \in InList(data_manifests) \cup InList(delete_manifests) :
               \A l \in InList(all_manifests) : m < l
    BY <1>1 DEF TypeOK, Split
  <1>3. /\ k \in Nat
        /\ all_manifests' \in Seq(Nat) /\ Increasing(all_manifests')
        /\ InList(all_manifests) = {k} \cup InList(all_manifests')
        /\ \A l \in InList(all_manifests') : k < l
    BY <1>1, <1>2, ListTail
  <1>4. /\ \/ /\ Content(k) = "DATA"
              /\ data_manifests' = Append(data_manifests, k)
              /\ delete_manifests' = delete_manifests
           \/ /\ Content(k) # "DATA"
              /\ data_manifests' = data_manifests
              /\ delete_manifests' = Append(delete_manifests, k)
    BY DEF SplitManifest
  <1> HIDE DEF k
  <1>5. /\ data_manifests' \in Seq(Nat) /\ delete_manifests' \in Seq(Nat)
        /\ Increasing(data_manifests') /\ Increasing(delete_manifests')
        /\ InList(data_manifests') \cup InList(delete_manifests') =
               InList(data_manifests) \cup InList(delete_manifests) \cup {k}
        /\ \A m \in InList(data_manifests') : Content(m) = "DATA"
        /\ \A m \in InList(delete_manifests') : Content(m) # "DATA"
        /\ Len(data_manifests) <= Len(data_manifests')
    <2>1. \A m \in InList(data_manifests) \cup InList(delete_manifests) : m < k
      BY <1>2, <1>3
    <2>2. Len(data_manifests) \in Nat
      BY <1>2
    <2>3. CASE /\ Content(k) = "DATA"
               /\ data_manifests' = Append(data_manifests, k)
               /\ delete_manifests' = delete_manifests
      <3>1. /\ data_manifests' \in Seq(Nat) /\ Increasing(data_manifests')
            /\ InList(data_manifests') = InList(data_manifests) \cup {k}
            /\ Len(data_manifests') = Len(data_manifests) + 1
        BY <1>2, <1>3, <2>1, <2>3, ListAppend
      <3>2. delete_manifests' = delete_manifests
        BY <2>3
      <3>3. InList(delete_manifests') = InList(delete_manifests)
            /\ Increasing(delete_manifests')
        BY <1>2, <3>2 DEF InList, Increasing
      <3> QED BY <1>2, <2>2, <2>3, <3>1, <3>2, <3>3
    <2>4. CASE /\ Content(k) # "DATA"
               /\ data_manifests' = data_manifests
               /\ delete_manifests' = Append(delete_manifests, k)
      <3>1. /\ delete_manifests' \in Seq(Nat) /\ Increasing(delete_manifests')
            /\ InList(delete_manifests') = InList(delete_manifests) \cup {k}
        BY <1>2, <1>3, <2>1, <2>4, ListAppend
      <3>2. data_manifests' = data_manifests
        BY <2>4
      <3>3. InList(data_manifests') = InList(data_manifests)
            /\ Increasing(data_manifests')
        BY <1>2, <3>2 DEF InList, Increasing
      <3> QED BY <1>2, <2>2, <2>4, <3>1, <3>2, <3>3
    <2> QED BY <1>4, <2>3, <2>4
  <1>6. TypeOK' /\ Readers'
    <2>1. current_data_manifest' \in 1 .. Len(data_manifests') + 1
      BY <1>1, <1>2, <1>5 DEF TypeOK
    <2> QED BY <1>1, <1>3, <1>5, <2>1 DEF TypeOK, Readers
  <1>7. ListRead'
    BY <1>1 DEF ListRead
  <1>8. Split'
    <2>1. \A m : Content(m)' = Content(m)
      BY <1>1 DEF Content
    <2>2. N' = N
      BY <1>1 DEF N
    <2>3. InList(all_manifests') \cup InList(data_manifests')
              \cup InList(delete_manifests') = 1 .. N
      BY <1>2, <1>3, <1>5
    <2>4. \A m \in InList(data_manifests') \cup InList(delete_manifests') :
              \A l \in InList(all_manifests') : m < l
      BY <1>2, <1>3, <1>5
    <2> QED BY <1>1, <1>3, <1>5, <2>1, <2>2, <2>3, <2>4 DEF Split
  <1> QED BY <1>1, <1>6, <1>7, <1>8, BindFrame DEF IInv

\* The iterators are set, and the list is bound.
LEMMA InitializeIteratorsStep == IInv /\ InitializeIterators => IInv'
  <1> SUFFICES ASSUME IInv, InitializeIterators PROVE IInv'
    OBVIOUS
  <1>1. /\ TypeOK /\ Readers /\ ListRead /\ Split
        /\ pc = "split" /\ pc' = "idle" /\ all_manifests = <<>>
        /\ current_data_manifest' = current_data_manifest
        /\ UNCHANGED <<table, manifest_reader, all_manifests, data_manifests,
                       delete_manifests, data_reader, data_files, call, ret>>
    BY DEF IInv, InitializeIterators, Readers
  <1>2. TypeOK' /\ Readers' /\ ListRead'
    BY <1>1 DEF TypeOK, Readers, ListRead
  <1>3. Split'
    BY <1>1 DEF Split, InList, Increasing, N, Content
  <1> QED BY <1>1, <1>2, <1>3, BindFrame DEF IInv

-----------------------------------------------------------------------------
(* The theorems *)

\* No step of FileList leaves the invariant.
LEMMA StepIInv == IInv /\ [Next]_vars => IInv'
  <1> SUFFICES ASSUME IInv, [Next]_vars PROVE IInv'
    OBVIOUS
  <1>1. CASE Bind
    BY <1>1, InitializeFilesStep, ReadManifestListStep, SplitManifestStep,
       InitializeIteratorsStep DEF Bind
  <1>2. CASE NewCall
    BY <1>2, NewCallStep
  <1>3. CASE GetFile
    BY <1>3, GetFileReturnsStep, OpenManifestStep, OpenFailsStep,
       ContinueManifestStep, ReadManifestStep, ManifestReadStep DEF GetFile
  <1>4. CASE UNCHANGED vars
    <2>1. TypeOK' /\ Readers'
      BY <1>4 DEF vars, IInv, TypeOK, Readers
    <2>2. ListRead'
      <3>1. ManifestRows' = ManifestRows
        BY <1>4 DEF vars, ManifestRows
      <3> QED BY <1>4, <3>1 DEF vars, IInv, ListRead, InList, Increasing
    <2>3. Split'
      BY <1>4, SMTT(40) DEF vars, IInv, Split, InList, Increasing, N, Content
    <2>4. OpenManifestRead'
      BY <1>4 DEF vars, IInv, OpenManifestRead, Open, Current
    <2>5. FilesArePassed'
      <3>1. ASSUME NEW j \in 1 .. Len(data_files)
            PROVE  Passed(data_files[j])'
        BY <1>4 DEF vars, IInv, FilesArePassed, Passed, Open
      <3>2. ExpandedInOrder'
        BY <1>4 DEF vars, IInv, FilesArePassed, ExpandedInOrder, IsLive,
                    DataManifest, Content
      <3> QED BY <1>4, <3>1, <3>2 DEF vars, FilesArePassed
    <2> QED BY <2>1, <2>2, <2>3, <2>4, <2>5 DEF IInv
  <1> QED BY <1>1, <1>2, <1>3, <1>4 DEF Next

\* IInv is an invariant of FileList.
LEMMA Invariant == Spec => []IInv
  <1> QED BY InitIInv, StepIInv, PTL DEF Spec

\* Every state of the file list is well typed, for every chunk size, table and
\* caller: the reader's positions, the iterator and the lists.
THEOREM TypeCorrect == Spec => []TypeOK
  <1>1. IInv => TypeOK
    BY DEF IInv
  <1> QED BY <1>1, Invariant, PTL

\* GetFile expands live data files only, each once and in the order of the
\* manifests, whatever is skipped, however the calls are mixed.
THEOREM FilesInOrder == Spec => []ExpandedInOrder
  <1>1. IInv => ExpandedInOrder
    BY DEF IInv, FilesArePassed
  <1> QED BY <1>1, Invariant, PTL

\* InitializeFiles puts every manifest in the list of its content, once.
THEOREM SplitComplete == Spec => []ManifestsAreSplit
  <1>1. IInv => ManifestsAreSplit
    <2> SUFFICES ASSUME IInv, pc \in {"idle", "loop", "read"}
                 PROVE  ManifestsAreSplit
      BY DEF ManifestsAreSplit
    <2>1. /\ InList(data_manifests) \cup InList(delete_manifests) = 1 .. N
          /\ Increasing(data_manifests) /\ Increasing(delete_manifests)
          /\ \A k \in InList(data_manifests) : Content(k) = "DATA"
          /\ \A k \in InList(delete_manifests) : Content(k) # "DATA"
      BY DEF IInv, Split, InList
    <2>2. \A k : DataManifest(k) <=> k \in 1 .. N /\ Content(k) = "DATA"
      BY DEF DataManifest, N
    <2>3. InList(data_manifests) = {k \in 1 .. N : DataManifest(k)}
      BY <2>1, <2>2
    <2>4. InList(delete_manifests) = {k \in 1 .. N : ~DataManifest(k)}
      BY <2>1, <2>2
    <2> QED
      BY <2>1, <2>3, <2>4 DEF ManifestsAreSplit, InList, Increasing, N
  <1> QED BY <1>1, Invariant, PTL

-----------------------------------------------------------------------------
(* Callers that ask for one file at a time (Lookahead = 1): no live data    *)
(* file is lost.                                                           *)

\* Then every call of ReadEntries asks for one entry, and the offset of the
\* reader moves by the rows that it has looked at.
OneAtATime ==
    /\ pc \in {"unbound", "list", "split"} => ret.outcome = "none"
    /\ pc \in {"loop", "read"} => call.file_id <= Len(data_files)
    /\ data_reader.at # "out" => data_reader.count = 1
    /\ pc = "read" /\ Finished(data_reader) =>
           Consumed(data_reader) = Len(data_reader.file)

\* A live entry that the reader is past is expanded.
Row1(k) == 1 .. Len(table.manifest_list[k].entries)
NothingLost ==
    \A k \in 1 .. N : \A row \in Row1(k) :
        IsLive(<<k, row>>) /\ Passed(<<k, row>>) => <<k, row>> \in Files

\* Who says that there is no further file has read them all.
Answered == SaysNoMore => Finished(data_reader) /\ AtEnd

OneInv == IInv /\ OneAtATime /\ NothingLost /\ Answered

-----------------------------------------------------------------------------

\* Nothing is lost by a step that passes only what it expands.
LEMMA LostStep ==
    ASSUME NothingLost, UNCHANGED Bound, Files \subseteq Files',
           \A k \in 1 .. N : \A row \in Row1(k) :
               IsLive(<<k, row>>) /\ Passed(<<k, row>>)'
                   => Passed(<<k, row>>) \/ <<k, row>> \in Files'
    PROVE  NothingLost'
  <1>1. N' = N /\ \A k : Row1(k)' = Row1(k)
    BY DEF N, Row1, Bound
  <1>2. \A e : IsLive(e)' <=> IsLive(e)
    BY DEF IsLive, DataManifest, Content, Bound
  <1> SUFFICES ASSUME NEW k \in 1 .. N, NEW row \in Row1(k),
                      IsLive(<<k, row>>), Passed(<<k, row>>)'
               PROVE  <<k, row>> \in Files'
    BY <1>1, <1>2 DEF NothingLost
  <1>3. CASE Passed(<<k, row>>)
    BY <1>3 DEF NothingLost
  <1>4. CASE <<k, row>> \in Files'
    BY <1>4
  <1> QED BY <1>3, <1>4

\* The iterator, the reader and the files stay.
LEMMA QuietLost ==
    ASSUME NothingLost, UNCHANGED Bound,
           UNCHANGED <<current_data_manifest, data_reader, data_files>>,
           pc = "read" <=> pc' = "read"
    PROVE  NothingLost'
  <1>1. Files \subseteq Files'
    BY DEF Files
  <1>2. \A e : Passed(e)' <=> Passed(e)
    BY DEF Passed, Bound, Open, Finished
  <1> QED BY <1>1, <1>2, LostStep

\* Nothing is passed before the list is bound.
LEMMA BindLost ==
    ASSUME IInv, IInv', pc \in {"unbound", "list", "split"}, pc' # "read",
           UNCHANGED <<data_reader, data_files>>,
           current_data_manifest' = 1
    PROVE  NothingLost'
  <1>1. Finished(data_reader') /\ TypeOK'
    BY DEF IInv, Readers, Finished
  <1>2. ASSUME NEW e, Passed(e)'
        PROVE  FALSE
    BY <1>1, <1>2 DEF Passed, Open, TypeOK, Finished
  <1> QED BY <1>2 DEF NothingLost

\* The constructor of the file list establishes the invariant.
LEMMA InitOne == Init => OneInv
  <1> SUFFICES ASSUME Init PROVE OneInv
    OBVIOUS
  <1>1. /\ data_reader.at = "out" /\ Finished(data_reader)
        /\ current_data_manifest = 1
        /\ data_manifests = <<>> /\ pc = "unbound" /\ ret.outcome = "none"
    BY DEF Init, NewReader, Finished, NoAnswer
  <1>2. OneAtATime /\ Answered
    BY <1>1 DEF OneAtATime, Answered, SaysNoMore
  <1>3. NothingLost
    BY <1>1 DEF NothingLost, Passed
  <1> QED BY <1>2, <1>3, InitIInv DEF OneInv

\* InitializeFiles answers no call and opens no data manifest.
LEMMA BindOne == OneInv /\ Bind => OneInv'
  <1> SUFFICES ASSUME OneInv, Bind PROVE OneInv'
    OBVIOUS
  <1>1. IInv'
    BY InitializeFilesStep, ReadManifestListStep, SplitManifestStep,
       InitializeIteratorsStep DEF OneInv, Bind
  <1>2. /\ pc \in {"unbound", "list", "split"}
        /\ pc' \in {"unbound", "list", "split", "idle"}
        /\ UNCHANGED <<data_reader, data_files, ret>>
        /\ current_data_manifest' = 1
        /\ IInv
    BY DEF OneInv, IInv, Readers, Bind, InitializeFiles, ReadManifestList,
           SplitManifest, InitializeIterators
  <1>3. data_reader.at = "out" /\ ret.outcome = "none"
    BY <1>2 DEF OneInv, OneAtATime, IInv, Readers
  <1>4. OneAtATime' /\ Answered'
    BY <1>2, <1>3 DEF OneAtATime, Answered, SaysNoMore
  <1> QED BY <1>1, <1>2, <1>4, BindLost DEF OneInv

\* A call asks for at most the next file.
LEMMA NewCallOne ==
    ASSUME Lookahead = 1
    PROVE  OneInv /\ NewCall => OneInv'
  <1> SUFFICES ASSUME OneInv, NewCall PROVE OneInv'
    OBVIOUS
  <1>1. Len(data_files) \in Nat /\ data_reader.at = "out"
    <2>1. pc = "idle"
      BY DEF NewCall, CallGetFile, CallGetExpandResult, CallGetTotalFileCount,
             Begin
    <2> QED BY <2>1 DEF OneInv, IInv, TypeOK, Readers
  <1>2. PICK op \in Operation, i \in Nat : Begin(op, i)
    BY <1>1 DEF NewCall, CallGetFile, CallGetExpandResult,
                CallGetTotalFileCount, Operation
  <1>3. call'.file_id = i /\ i <= Len(data_files)
    BY <1>1, <1>2 DEF Begin
  <1>4. OneAtATime' /\ Answered'
    BY <1>1, <1>2, <1>3 DEF Begin, OneAtATime, Answered, SaysNoMore
  <1>5. NothingLost'
    BY <1>2, QuietLost DEF Begin, Bound, OneInv
  <1> QED BY <1>4, <1>5, NewCallStep DEF OneInv

\* A call returns.
LEMMA ReturnsOne == OneInv /\ (GetFileReturns \/ OpenFails) => OneInv'
  <1> SUFFICES ASSUME OneInv, GetFileReturns \/ OpenFails PROVE OneInv'
    OBVIOUS
  <1>1. IInv'
    BY GetFileReturnsStep, OpenFailsStep DEF OneInv
  <1>2. /\ UNCHANGED Bound
        /\ UNCHANGED <<current_data_manifest, data_reader, data_files>>
        /\ pc = "loop" /\ pc' \in {"idle", "loop"}
        /\ TypeOK /\ Readers /\ OneAtATime /\ NothingLost /\ FilesArePassed
    BY DEF OneInv, IInv, GetFileReturns, OpenFails, Bound
  <1>3. NothingLost'
    BY <1>2, QuietLost
  <1>4. OneAtATime'
    <2>1. data_reader'.at = "out"
      BY <1>2 DEF Readers
    <2>2. pc' = "loop" => call'.file_id <= Len(data_files')
      <3> SUFFICES ASSUME pc' = "loop"
                   PROVE  call'.file_id <= Len(data_files)
        BY <1>2
      <3>1. /\ Expanded(call.file_id)
            /\ call' = [call EXCEPT !.file_id = call.file_id + 1]
        BY DEF GetFileReturns, OpenFails
      <3>2. /\ call.file_id \in Nat /\ Len(data_files) \in Nat
            /\ call'.file_id = call.file_id + 1
        BY <1>2, <3>1 DEF TypeOK, Call
      <3> QED BY <3>1, <3>2 DEF Expanded
    <2> QED BY <1>2, <2>1, <2>2 DEF OneAtATime
  <1>5. Answered'
    <2> SUFFICES ASSUME SaysNoMore' PROVE Finished(data_reader) /\ AtEnd
      BY <1>2 DEF Answered, AtEnd, Bound, Finished
    <2>1. GetFileReturns /\ pc' = "idle"
      BY DEF SaysNoMore, OpenFails, Exception
    <2>2. ~(call.op = "GetTotalFileCount" /\ Expanded(call.file_id))
      BY <2>1 DEF GetFileReturns
    <2>3. CASE call.op = "GetFile"
      <3>1. ret'.path = IF Expanded(call.file_id)
                        THEN data_files[call.file_id + 1] ELSE NoFile
        BY <2>1, <2>2, <2>3 DEF GetFileReturns
      <3>2. ret'.path = NoFile
        BY <2>1, <2>2, <2>3 DEF SaysNoMore, GetFileReturns
      <3>3. ~Expanded(call.file_id)
        <4> SUFFICES ASSUME Expanded(call.file_id) PROVE FALSE
          OBVIOUS
        <4>1. call.file_id + 1 \in 1 .. Len(data_files)
          BY <1>2 DEF Expanded, TypeOK, Call
        <4>2. IsLive(data_files[call.file_id + 1])
          BY <1>2, <4>1 DEF FilesArePassed, ExpandedInOrder
        <4> QED BY <3>1, <3>2, <4>2 DEF IsLive, NoFile
      <3> QED BY <2>1, <3>3 DEF GetFileReturns
    <2>4. CASE call.op # "GetFile"
      BY <2>1, <2>2, <2>4 DEF GetFileReturns, SaysNoMore
    <2> QED BY <2>3, <2>4
  <1> QED BY <1>1, <1>3, <1>4, <1>5 DEF OneInv

\* ReadEntries is entered for the one entry that the call is short of.
LEMMA EnterOne == OneInv /\ (OpenManifest \/ ContinueManifest) => OneInv'
  <1> SUFFICES ASSUME OneInv, OpenManifest \/ ContinueManifest PROVE OneInv'
    OBVIOUS
  <1>1. IInv'
    BY OpenManifestStep, ContinueManifestStep DEF OneInv
  <1>2. /\ UNCHANGED Bound
        /\ UNCHANGED <<current_data_manifest, data_files, call, ret>>
        /\ pc = "loop" /\ pc' = "read" /\ ~Expanded(call.file_id)
        /\ IInv /\ TypeOK /\ Readers /\ OneAtATime /\ NothingLost
    BY DEF OneInv, IInv, OpenManifest, ContinueManifest, Bound
  <1>3. Remaining = 1
    BY <1>2 DEF OneAtATime, Expanded, Remaining, TypeOK, Call
  <1>4. /\ data_reader'.count = 1 /\ ~Finished(data_reader')
        /\ \A k \in 1 .. N : \A row \in Row1(k) :
               Passed(<<k, row>>)' => Passed(<<k, row>>)
    <2>1. CASE ContinueManifest
      <3>1. /\ data_reader' = ReadEntries(data_reader, 1)
            /\ ~Finished(data_reader) /\ data_reader.at = "out"
            /\ ReaderOK(data_reader)
        BY <1>2, <1>3, <2>1 DEF ContinueManifest, Readers
      <3>2. /\ data_reader'.count = 1 /\ ~Finished(data_reader')
            /\ Consumed(data_reader') = Consumed(data_reader)
        BY <3>1, ReadEntriesOK
      <3> QED BY <1>2, <3>1, <3>2 DEF Passed, Bound, Open
    <2>2. CASE OpenManifest
      <3> DEFINE r == Initialize(data_reader,
                                 table.manifest_list[Current].entries)
      <3>1. /\ current_data_manifest \in 1 .. Len(data_manifests)
            /\ Finished(data_reader)
        BY <1>2, <2>2 DEF OpenManifest, AtEnd, TypeOK
      <3>2. Current \in 1 .. N
        BY <1>2, <3>1, CurrentInList DEF IInv, Current
      <3>3. table.manifest_list[Current].entries \in Seq(RowStatus)
        BY <1>2, <3>2, TableTypes DEF TypeOK
      <3>4. /\ ReaderOK(r) /\ ~Finished(r) /\ r.at = "out"
            /\ Consumed(r) = 0
        BY <1>2, <3>1, <3>3, InitializeOK DEF Readers
      <3>5. data_reader' = ReadEntries(r, 1)
        BY <1>3, <2>2 DEF OpenManifest, Current
      <3> HIDE DEF r
      <3>6. /\ data_reader'.count = 1 /\ ~Finished(data_reader')
            /\ Consumed(data_reader') = 0
        BY <3>4, <3>5, ReadEntriesOK
      <3>7. ASSUME NEW k \in 1 .. N, NEW row \in Row1(k), Passed(<<k, row>>)'
            PROVE  Passed(<<k, row>>)
        <4>1. row \in Nat /\ ~(row <= 0) /\ <<k, row>>[2] = row
          BY <3>7 DEF Row1
        <4>2. PICK m \in 1 .. Len(data_manifests) :
                 /\ <<k, row>>[1] = data_manifests[m]
                 /\ \/ m < current_data_manifest
                    \/ row <= 0
          BY <1>2, <3>6, <3>7, <4>1 DEF Passed, Bound
        <4> QED BY <4>1, <4>2 DEF Passed
      <3> QED BY <3>6, <3>7
    <2> QED BY <2>1, <2>2
  <1>5. NothingLost'
    <2>1. Files' = Files
      BY <1>2 DEF Files
    <2> QED BY <1>2, <1>4, <2>1, LostStep
  <1>6. OneAtATime' /\ Answered'
    BY <1>2, <1>4 DEF OneAtATime, Answered, SaysNoMore
  <1> QED BY <1>1, <1>5, <1>6 DEF OneInv

\* The reader passes the rows that it looks at, and expands the live ones.
LEMMA ReadManifestOne == OneInv /\ ReadManifest => OneInv'
  <1> SUFFICES ASSUME OneInv, ReadManifest PROVE OneInv'
    OBVIOUS
  <1> DEFINE r == data_reader
             s == data_reader'
  <1>1. IInv'
    BY ReadManifestStep DEF OneInv
  <1>2. /\ UNCHANGED Bound
        /\ UNCHANGED <<current_data_manifest, pc, call, ret>>
        /\ pc = "read" /\ Open /\ Open'
        /\ TypeOK /\ Readers /\ OneAtATime /\ NothingLost
        /\ OpenManifestRead /\ ReaderOK(r)
        /\ \/ ReadLoop(r, s) \/ EndOfCallback(r, s) \/ ProduceEntry(r, s)
    BY DEF OneInv, IInv, Readers, ReadManifest, Bound, Open
  <1>3. r.at # "out" /\ r.count = 1
    BY <1>2 DEF ReadLoop, EndOfCallback, ProduceEntry, OneAtATime
  <1>4. /\ s.count = 1
        /\ Finished(s) => Consumed(s) = Len(s.file)
    BY <1>2, <1>3, ReadLoopOK, EndOfCallbackOK, ProduceEntryOK
  <1>5. /\ Len(data_files) \in Nat /\ Len(data_files') \in Nat
        /\ Len(data_files) <= Len(data_files')
        /\ Files \subseteq Files'
    <2>1. CASE data_files' = data_files
      BY <1>2, <2>1 DEF TypeOK, Files
    <2>2. CASE /\ ProduceEntry(r, s) /\ Kept(r)
               /\ data_files' = Append(data_files, <<Current, Row(r)>>)
      <3>1. data_files \in Seq(Entry) /\ data_files' \in Seq(Entry)
        BY <1>1, <1>2 DEF IInv, TypeOK
      <3>2. <<Current, Row(r)>> \in Entry
        <4>1. current_data_manifest \in 1 .. Len(data_manifests)
          BY <1>2 DEF OpenManifestRead, TypeOK
        <4>2. Row(r) \in Nat
          BY <1>2, <2>2, ProduceEntryOK
        <4> QED BY <1>2, <4>1, <4>2 DEF Entry, TypeOK, Current
      <3>3. /\ Len(data_files') = Len(data_files) + 1
            /\ \A j \in 1 .. Len(data_files) : data_files'[j] = data_files[j]
            /\ Len(data_files) \in Nat
        BY <2>2, <3>1, <3>2, AppendProperties
      <3> QED BY <3>3 DEF Files
    <2> QED BY <2>1, <2>2 DEF ReadManifest, Current
  <1>6. OneAtATime' /\ Answered'
    <2>1. call.file_id <= Len(data_files')
      BY <1>2, <1>5 DEF OneAtATime, TypeOK, Call
    <2> QED BY <1>2, <1>4, <2>1 DEF OneAtATime, Answered, SaysNoMore
  <1>7. NothingLost'
    <2> SUFFICES ASSUME NEW k \in 1 .. N, NEW row \in Row1(k),
                        IsLive(<<k, row>>), Passed(<<k, row>>)'
                 PROVE  Passed(<<k, row>>) \/ <<k, row>> \in Files'
      BY <1>2, <1>5, LostStep
    <2>1. CASE ReadLoop(r, s) \/ EndOfCallback(r, s)
      <3>1. Consumed(s) = Consumed(r)
        BY <1>2, <1>3, <2>1, CountOneExact
      <3> QED BY <1>2, <3>1 DEF Passed, Bound
    <2>2. CASE ProduceEntry(r, s)
      <3>1. /\ Row(r) = Consumed(r) + 1 /\ Consumed(s) = Row(r)
            /\ Row(r) \in 1 .. Len(r.file) /\ Consumed(r) \in Int
        <4>1. Len(r.file) \in Nat /\ Consumed(r) \in 0 .. Len(r.file)
          BY <1>2, ConsumedNat, ReaderFields DEF ReaderOK
        <4> QED BY <1>2, <2>2, <4>1, ProduceEntryOK
      <3>2. row \in Nat /\ <<k, row>>[1] = k /\ <<k, row>>[2] = row
        BY DEF Row1
      <3>3. CASE Passed(<<k, row>>)
        BY <3>3
      <3>4. CASE ~Passed(<<k, row>>)
        <4>1. k = Current /\ row = Row(r)
          <5>1. PICK m \in 1 .. Len(data_manifests) :
                   /\ k = data_manifests[m]
                   /\ \/ m < current_data_manifest
                      \/ m = current_data_manifest /\ row <= Consumed(s)
            BY <1>2, <3>2 DEF Passed, Bound
          <5>2. m = current_data_manifest /\ row <= Consumed(s)
                /\ ~(row <= Consumed(r))
            BY <1>2, <3>2, <3>4, <5>1 DEF Passed
          <5> QED BY <3>1, <3>2, <5>1, <5>2 DEF Current
        <4>2. Kept(r)
          <5>1. /\ r.file = table.manifest_list[Current].entries
                /\ table.manifest_list[k].entries[row] # "DELETED"
            BY <1>2, <3>2 DEF IsLive, OpenManifestRead
          <5> QED BY <4>1, <5>1 DEF Kept
        <4>3. data_files' = Append(data_files, <<Current, Row(r)>>)
          <5>1. r.at = "produce" /\ r.i < r.to_scan
            BY <2>2 DEF ProduceEntry
          <5>2. r.i \in Nat /\ r.to_scan \in Nat
            BY <1>2, ReaderFields DEF ReaderOK
          <5>3. ~ReadLoop(r, s) /\ ~EndOfCallback(r, s)
            BY <5>1, <5>2 DEF ReadLoop, EndOfCallback
          <5> QED BY <4>2, <5>3 DEF ReadManifest, Current
        <4>4. data_files \in Seq(Entry) /\ <<Current, Row(r)>> \in Entry
          BY <1>2, <3>1, <4>1, TableTypes, SMTT(40) DEF TypeOK, Entry
        <4>5. /\ data_files'[Len(data_files) + 1] = <<k, row>>
              /\ Len(data_files') = Len(data_files) + 1
          BY <4>1, <4>3, <4>4, AppendProperties
        <4> QED BY <1>5, <4>5 DEF Files
      <3> QED BY <3>3, <3>4
    <2> QED BY <1>2, <2>1, <2>2
  <1> QED BY <1>1, <1>6, <1>7 DEF OneInv

\* The iterator leaves a manifest only when all its rows are passed.
LEMMA ManifestReadOne == OneInv /\ ManifestRead => OneInv'
  <1> SUFFICES ASSUME OneInv, ManifestRead PROVE OneInv'
    OBVIOUS
  <1>1. IInv'
    BY ManifestReadStep DEF OneInv
  <1>2. /\ UNCHANGED Bound
        /\ UNCHANGED <<data_reader, data_files, call, ret>>
        /\ pc = "read" /\ pc' = "loop" /\ Open /\ data_reader.at = "out"
        /\ TypeOK /\ OneAtATime /\ NothingLost /\ OpenManifestRead
    BY DEF OneInv, IInv, ManifestRead, Bound, Open
  <1>3. OneAtATime' /\ Answered'
    BY <1>2 DEF OneAtATime, Answered, SaysNoMore
  <1>4. NothingLost'
    <2>1. Files' = Files
      BY <1>2 DEF Files
    <2> SUFFICES ASSUME NEW k \in 1 .. N, NEW row \in Row1(k),
                        IsLive(<<k, row>>), Passed(<<k, row>>)'
                 PROVE  Passed(<<k, row>>)
      BY <1>2, <2>1, LostStep
    <2>2. CASE Finished(data_reader)
      <3>1. /\ current_data_manifest' = current_data_manifest + 1
            /\ current_data_manifest \in Nat
        BY <1>2, <2>2 DEF ManifestRead, TypeOK
      <3>2. PICK m \in 1 .. Len(data_manifests) :
               /\ k = data_manifests[m]
               /\ m < current_data_manifest + 1
        BY <1>2, <2>2, <3>1 DEF Passed, Bound, Open, Finished
      <3>3. CASE m < current_data_manifest
        BY <3>2, <3>3 DEF Passed
      <3>4. CASE m = current_data_manifest
        <4>1. row <= Consumed(data_reader)
          BY <1>2, <2>2, <3>2, <3>4, SMTT(40)
             DEF OneAtATime, OpenManifestRead, Current, Row1
        <4> QED BY <1>2, <3>2, <3>4, <4>1 DEF Passed
      <3>5. m \in Nat
        BY <1>2 DEF TypeOK
      <3> QED BY <3>1, <3>2, <3>3, <3>4, <3>5
    <2>3. CASE ~Finished(data_reader)
      <3>1. current_data_manifest' = current_data_manifest
        BY <2>3 DEF ManifestRead
      <3> QED BY <1>2, <3>1 DEF Passed, Bound
    <2> QED BY <2>2, <2>3
  <1> QED BY <1>1, <1>3, <1>4 DEF OneInv

-----------------------------------------------------------------------------

\* No step of such a caller, of Bind or of GetFile leaves the invariant.
LEMMA StepOne ==
    ASSUME Lookahead = 1
    PROVE  OneInv /\ [Next]_vars => OneInv'
  <1> SUFFICES ASSUME OneInv, [Next]_vars PROVE OneInv'
    OBVIOUS
  <1>1. CASE Bind
    BY <1>1, BindOne
  <1>2. CASE NewCall
    BY <1>2, NewCallOne
  <1>3. CASE GetFile
    BY <1>3, ReturnsOne, EnterOne, ReadManifestOne, ManifestReadOne
       DEF GetFile
  <1>4. CASE UNCHANGED vars
    <2>1. IInv'
      BY <1>4, StepIInv DEF OneInv
    <2>2. OneAtATime' /\ Answered'
      BY <1>4 DEF vars, OneInv, OneAtATime, Answered, SaysNoMore, AtEnd
    <2>3. NothingLost'
      BY <1>4, QuietLost DEF vars, OneInv, Bound
    <2> QED BY <2>1, <2>2, <2>3 DEF OneInv
  <1> QED BY <1>1, <1>2, <1>3, <1>4 DEF Next

\* The mapping needs the numbers of the table and of the call.
LEMMA LiveEntriesInTable ==
    ASSUME TypeOK
    PROVE  /\ LiveEntries \subseteq Nat \X Nat
           /\ \A e \in LiveEntries :
                 /\ e[1] \in 1 .. N /\ e[2] \in Row1(e[1]) /\ e = <<e[1], e[2]>>
                 /\ IsLive(e)
  <1>1. table \in Tables
    BY DEF TypeOK
  <1>2. N \in Nat /\ \A k \in 1 .. N : Row1(k) \subseteq Nat
    <2>1. \A k \in 1 .. N : table.manifest_list[k].entries \in Seq(EntryStatus)
      BY <1>1, TableTypes
    <2> QED BY <1>1, <2>1, TableTypes DEF Row1
  <1> SUFFICES ASSUME NEW e \in LiveEntries
               PROVE  /\ e \in Nat \X Nat
                      /\ e[1] \in 1 .. N /\ e[2] \in Row1(e[1])
                      /\ e = <<e[1], e[2]>> /\ IsLive(e)
    OBVIOUS
  <1>3. IsLive(e) /\ \E k \in 1 .. N : e \in {k} \X Row1(k)
    BY DEF LiveEntries, N, Row1
  <1>4. PICK k \in 1 .. N : e \in {k} \X Row1(k)
    BY <1>3
  <1>5. e = <<e[1], e[2]>> /\ e[1] = k /\ e[2] \in Row1(k)
    BY <1>4
  <1> QED BY <1>2, <1>3, <1>5

\* A pair that is live is a live entry.
LEMMA LivePair ==
    ASSUME NEW e \in Nat \X Nat, IsLive(e)
    PROVE  e \in LiveEntries
  <1>1. e = <<e[1], e[2]>>
    OBVIOUS
  <1>2. /\ e[1] \in 1 .. Len(table.manifest_list)
        /\ e[2] \in 1 .. Len(table.manifest_list[e[1]].entries)
    BY DEF IsLive, DataManifest
  <1> QED BY <1>1, <1>2 DEF LiveEntries

\* What is expanded is live.
LEMMA FilesAreLive ==
    ASSUME TypeOK, ExpandedInOrder
    PROVE  Files \subseteq LiveEntries
  <1> SUFFICES ASSUME NEW j \in 1 .. Len(data_files)
               PROVE  data_files[j] \in LiveEntries
    BY DEF Files
  <1>1. data_files[j] \in Nat \X Nat /\ IsLive(data_files[j])
    BY DEF TypeOK, Entry, ExpandedInOrder
  <1> QED BY <1>1, LivePair

\* A live entry that is not expanded is not passed.
LEMMA NotFoundNotPassed ==
    ASSUME OneInv, NEW e \in LiveEntries \ Files
    PROVE  ~Passed(e)
  <1>1. /\ e[1] \in 1 .. N /\ e[2] \in Row1(e[1]) /\ e = <<e[1], e[2]>>
        /\ IsLive(e)
    BY LiveEntriesInTable DEF OneInv, IInv
  <1>2. NothingLost
    BY DEF OneInv
  <1> QED BY <1>1, <1>2 DEF NothingLost

\* A live entry is in a data manifest of the list.
LEMMA LiveIsListed ==
    ASSUME OneInv, pc \in {"idle", "loop", "read"}, NEW e \in LiveEntries
    PROVE  \E m \in 1 .. Len(data_manifests) : e[1] = data_manifests[m]
  <1>1. IsLive(e) /\ e[1] \in 1 .. N /\ TypeOK /\ Split
    BY LiveEntriesInTable DEF OneInv, IInv
  <1>2. Content(e[1]) = "DATA" 
    BY <1>1 DEF IsLive, DataManifest
  <1>3. e[1] \in InList(data_manifests)
    BY <1>1, <1>2 DEF Split, InList
  <1> QED BY <1>3 DEF InList

\* At the end of the last manifest every live entry is expanded.
LEMMA AllExpanded ==
    ASSUME OneInv, pc \in {"idle", "loop", "read"}, AtEnd
    PROVE  Files = LiveEntries
  <1>1. TypeOK /\ ExpandedInOrder
    BY DEF OneInv, IInv, FilesArePassed
  <1>2. ASSUME NEW e \in LiveEntries \ Files
        PROVE  FALSE
    <2>1. PICK m \in 1 .. Len(data_manifests) : e[1] = data_manifests[m]
      BY LiveIsListed
    <2>2. m < current_data_manifest
      BY <1>1 DEF AtEnd, TypeOK
    <2>3. Passed(e)
      BY <2>1, <2>2 DEF Passed
    <2> QED BY <2>3, NotFoundNotPassed
  <1> QED BY <1>1, <1>2, FilesAreLive

\* A caller that asks for one file at a time and is told that there is no
\* further one has been given every live data file of the snapshot: the lazy
\* expansion by GetFile loses nothing, whatever the chunk size, however many
\* deleted entries it skips and however often a manifest fails to open.
THEOREM NothingIsLost ==
    ASSUME Lookahead = 1
    PROVE  Spec => []NoMoreMeansAll
  <1>1. OneInv => NoMoreMeansAll
    <2> SUFFICES ASSUME OneInv, SaysNoMore PROVE Files = LiveEntries
      BY DEF NoMoreMeansAll
    <2>1. AtEnd /\ pc = "idle"
      BY DEF OneInv, Answered, SaysNoMore
    <2> QED BY <2>1, AllExpanded
  <1> QED BY <1>1, InitOne, StepOne, PTL DEF Spec

-----------------------------------------------------------------------------
(* The refinement *)

\* GetExpandResult asks for the second file.
ExpandsTwo ==
    pc \in {"loop", "read"} /\ call.op = "GetExpandResult" => call.file_id = 1

\* An expansion asks for two files at most: each step keeps to that.
LEMMA ExpandsTwoInv ==
    /\ Init => ExpandsTwo
    /\ TypeOK /\ ExpandsTwo /\ [Next]_vars => ExpandsTwo'
  <1>1. Init => ExpandsTwo
    BY DEF Init, ExpandsTwo
  <1>2. ASSUME TypeOK, ExpandsTwo, [Next]_vars
        PROVE  ExpandsTwo'
    <2>1. CASE Bind
      BY <1>2, <2>1 DEF Bind, InitializeFiles, ReadManifestList, SplitManifest,
                  InitializeIterators, ExpandsTwo
    <2>2. CASE NewCall
      BY <1>2, <2>2 DEF NewCall, CallGetFile, CallGetExpandResult,
                  CallGetTotalFileCount, Begin, ExpandsTwo
    <2>3. CASE GetFile
      BY <1>2, <2>3 DEF GetFile, GetFileReturns, OpenManifest, OpenFails,
                  ContinueManifest, ReadManifest, ManifestRead, ExpandsTwo,
                  TypeOK, Call
    <2>4. CASE UNCHANGED vars
      BY <1>2, <2>4 DEF vars, ExpandsTwo
    <2> QED BY <1>2, <2>1, <2>2, <2>3, <2>4 DEF Next
  <1> QED BY <1>1, <1>2

\* The table, and with it what there is to find, stays.
LEMMA LiveEntriesStay ==
    ASSUME UNCHANGED table
    PROVE  UNCHANGED LiveEntries
BY DEF LiveEntries, IsLive, DataManifest, Content

\* A new list maps to a new lazy list.
LEMMA MapsInit == Init => Lazy!Init
  <1> SUFFICES ASSUME Init PROVE Lazy!Init
    OBVIOUS
  <1>1. LiveEntries \subseteq Nat \X Nat
    BY InitIInv, LiveEntriesInTable DEF IInv
  <1> QED BY <1>1 DEF Init, Lazy!Init, Lazy!NotAsked, Lazy!NoAnswer,
                      Lazy!NoFile, NoAnswer, NoFile, Asked

\* A step that changes nothing of the table, the files, the call or the answer.
LEMMA MapsHiddenStep ==
    ASSUME UNCHANGED <<table, data_files, ret, Asked>>
    PROVE  UNCHANGED Lazy!vars
BY LiveEntriesStay DEF Lazy!vars

\* A new call is asked for.
LEMMA MapsNewCall ==
    ASSUME OneInv, NewCall
    PROVE  Lazy!Ask
  <1>1. Len(data_files) \in Nat /\ Lookahead \in Nat
    BY LookaheadAssumption DEF OneInv, IInv, TypeOK
  <1>2. PICK op \in Operation, i \in Nat : Begin(op, i)
    BY <1>1 DEF NewCall, CallGetFile, CallGetExpandResult,
                CallGetTotalFileCount, Operation
  <1>3. /\ Asked = Lazy!NotAsked
        /\ Asked' = [op |-> op, file_id |-> IF op = "GetFile" THEN i ELSE 0]
    BY <1>2 DEF Begin, Asked, Lazy!NotAsked
  <1>4. /\ ret' = Lazy!NoAnswer
        /\ UNCHANGED <<LiveEntries, data_files>>
    BY <1>2, LiveEntriesStay DEF Begin, NoAnswer, NoFile, Lazy!NoAnswer,
                                 Lazy!NoFile
  <1> QED BY <1>3, <1>4 DEF Lazy!Ask, Operation

\* GetFile returns: the file, or that all are found; or the loop of
\* GetTotalFileCount goes on.
LEMMA MapsGetFileReturns ==
    ASSUME OneInv, ExpandsTwo, GetFileReturns
    PROVE  \/ Lazy!AnswerFile \/ Lazy!AnswerExpandResult
           \/ Lazy!AnswerTotalFileCount \/ UNCHANGED Lazy!vars
  <1>1. /\ pc = "loop" /\ TypeOK
        /\ UNCHANGED <<table, data_files>>
        /\ UNCHANGED LiveEntries
        /\ Len(data_files) \in Nat
        /\ call.op \in Operation /\ call.file_id \in Nat
    BY LiveEntriesStay DEF GetFileReturns, OneInv, IInv, TypeOK, Call
  <1>2. ~Expanded(call.file_id) => Lazy!AllFound
    <2>1. ~Expanded(call.file_id) => AtEnd
      BY DEF GetFileReturns
    <2> QED BY <1>1, <2>1, AllExpanded DEF Lazy!AllFound, Lazy!Found, Files
  <1>3. CASE call.op = "GetTotalFileCount" /\ Expanded(call.file_id)
    <2>1. Asked' = Asked /\ ret' = ret
      BY <1>1, <1>3 DEF GetFileReturns, Asked, TypeOK, Call
    <2> QED BY <1>1, <2>1, MapsHiddenStep
  <1>4. CASE ~(call.op = "GetTotalFileCount" /\ Expanded(call.file_id))
    <2>1. /\ pc' = "idle" /\ ret'.outcome = "ok"
          /\ ret' = [outcome |-> "ok", path |-> ret'.path,
                     number |-> ret'.number]
      BY <1>4 DEF GetFileReturns
    <2>2. Asked' = Lazy!NotAsked
      BY <2>1 DEF Asked, Lazy!NotAsked
    <2>3. /\ Asked.op = call.op
          /\ call.op = "GetFile" => Asked.file_id = call.file_id
      BY <1>1 DEF Asked
    <2>4. CASE call.op = "GetFile"
      <3>1. /\ ret'.number = 0
            /\ ret'.path = IF Expanded(call.file_id)
                           THEN data_files[call.file_id + 1] ELSE NoFile
        BY <1>4, <2>4 DEF GetFileReturns
      <3>2. Lazy!Reply(ret'.path, 0)
        BY <1>1, <2>1, <2>2, <3>1 DEF Lazy!Reply
      <3> QED
        BY <1>1, <1>2, <2>3, <2>4, <3>1, <3>2
           DEF Lazy!AnswerFile, Expanded, Lazy!NoFile, NoFile
    <2>5. CASE call.op = "GetExpandResult"
      <3>1. /\ ret'.number = Smaller(Len(data_files), 2)
            /\ ret'.path = NoFile
        BY <1>4, <2>5 DEF GetFileReturns
      <3>2. Lazy!Reply(Lazy!NoFile, Smaller(Len(data_files), 2))
        BY <1>1, <2>1, <2>2, <3>1 DEF Lazy!Reply, Lazy!NoFile, NoFile
      <3>3. Expanded(call.file_id) <=> Len(data_files) >= 2
        BY <1>1, <2>5 DEF ExpandsTwo, Expanded
      <3> QED
        BY <1>1, <1>2, <2>3, <2>5, <3>2, <3>3
           DEF Lazy!AnswerExpandResult, Smaller
    <2>6. CASE call.op = "GetTotalFileCount"
      <3>1. ret'.number = Len(data_files) /\ ret'.path = NoFile
        BY <1>4, <2>6 DEF GetFileReturns
      <3>2. Lazy!Reply(Lazy!NoFile, Len(data_files))
        BY <1>1, <2>1, <2>2, <3>1 DEF Lazy!Reply, Lazy!NoFile, NoFile
      <3> QED
        BY <1>2, <1>4, <2>3, <2>6, <3>2 DEF Lazy!AnswerTotalFileCount
    <2> QED BY <1>1, <2>4, <2>5, <2>6 DEF Operation
  <1> QED BY <1>3, <1>4

\* A row that is kept is the first of the live entries not found so far.
LEMMA MapsProduceEntry ==
    ASSUME OneInv, OneInv', pc = "read", UNCHANGED Bound,
           UNCHANGED <<current_data_manifest, pc, call, ret>>,
           ProduceEntry(data_reader, data_reader'), Kept(data_reader),
           data_files' = Append(data_files, <<Current, Row(data_reader)>>)
    PROVE  Lazy!Expand
  <1>0. PICK e : e = <<Current, Row(data_reader)>>
    OBVIOUS
  <1>1. /\ TypeOK /\ TypeOK' /\ Split /\ ExpandedInOrder' /\ ReaderOK(data_reader)
        /\ OpenManifestRead
    BY DEF OneInv, IInv, FilesArePassed, Readers
  <1>2. /\ Len(data_files) \in Nat
        /\ Len(data_files') = Len(data_files) + 1
        /\ data_files'[Len(data_files) + 1] = e
        /\ \A j \in 1 .. Len(data_files) : data_files'[j] = data_files[j]
    <2>1. current_data_manifest \in 1 .. Len(data_manifests)
      BY <1>1 DEF OpenManifestRead, Open, TypeOK
    <2>2. Current \in Nat
      BY <1>1, <2>1, SMTT(40) DEF Current, TypeOK
    <2>3. Row(data_reader) \in Nat
      BY <1>1, ProduceEntryOK
    <2>4. data_files \in Seq(Entry) /\ e \in Entry
      BY <1>0, <1>1, <2>2, <2>3 DEF TypeOK, Entry
    <2> QED BY <1>0, <2>4, AppendProperties
  <1>3. UNCHANGED LiveEntries
    BY LiveEntriesStay DEF Bound
  <1>4. e \in LiveEntries
    <2>1. IsLive(e)' /\ e \in Nat \X Nat
      <3>1. PICK j : j = Len(data_files) + 1
        OBVIOUS
      <3>2. j \in 1 .. Len(data_files') /\ data_files'[j] = e
        BY <1>2, <3>1
      <3>3. IsLive(data_files[j])'
        BY <1>1, <3>2 DEF ExpandedInOrder
      <3>4. data_files' \in Seq(Nat \X Nat)
        BY <1>1 DEF TypeOK, Entry
      <3>5. e \in Nat \X Nat
        BY <3>2, <3>4, SMTT(40)
      <3>6. IsLive(e)'
        BY <3>2, <3>3 DEF IsLive, DataManifest, Content
      <3> QED BY <3>5, <3>6
    <2>2. IsLive(e)
      BY <2>1 DEF IsLive, DataManifest, Content, Bound
    <2> QED BY <2>1, <2>2, LivePair
  <1>5. e \notin Files
    <2>1. \A j \in 1 .. Len(data_files) : Before(data_files[j], e)
      <3>1. ASSUME NEW j \in 1 .. Len(data_files)
            PROVE  Before(data_files'[j], data_files'[Len(data_files) + 1])
        BY <1>1, <1>2, SMTT(40) DEF ExpandedInOrder, Before
      <3> QED BY <1>2, <3>1
    <2>2. e[1] \in Nat /\ e[2] \in Nat
      BY <1>1, <1>4, LiveEntriesInTable
    <2>3. ~Before(e, e)
      BY <2>2 DEF Before
    <2> QED BY <2>1, <2>3 DEF Files
  <1>6. ASSUME NEW f \in LiveEntries \ Files
        PROVE  f = e \/ Before(e, f)
    <2>1. f[1] \in Nat /\ f[2] \in Nat /\ f = <<f[1], f[2]>> /\ ~Passed(f)
      BY <1>1, LiveEntriesInTable, NotFoundNotPassed
    <2>2. PICK m \in 1 .. Len(data_manifests) : f[1] = data_manifests[m]
      BY LiveIsListed
    <2>3. /\ current_data_manifest \in 1 .. Len(data_manifests)
          /\ Len(data_manifests) \in Nat
          /\ data_manifests \in Seq(Nat)
      BY <1>1 DEF OpenManifestRead, Open, TypeOK
    <2>4. /\ Row(data_reader) = Consumed(data_reader) + 1
          /\ Consumed(data_reader) \in Nat
      <3>1. Len(data_reader.file) \in Nat
        BY <1>1, ReaderFields DEF ReaderOK
      <3> QED BY <1>1, <3>1, ProduceEntryOK, ConsumedNat
    <2>5. m >= current_data_manifest
      BY <2>1, <2>2, <2>3 DEF Passed
    <2>6. CASE m = current_data_manifest
      <3>1. ~(f[2] <= Consumed(data_reader))
        BY <2>1, <2>2, <2>6 DEF Passed, Open
      <3>2. f[1] = Current
        BY <2>2, <2>6 DEF Current
      <3> QED BY <1>0, <2>1, <2>4, <3>1, <3>2 DEF Before
    <2>7. CASE m > current_data_manifest
      <3>1. Current < f[1]
        BY <1>1, <2>2, <2>3, <2>7 DEF Split, Increasing, Current
      <3> QED BY <1>0, <3>1 DEF Before
    <2> QED BY <2>3, <2>5, <2>6, <2>7
  <1>7. Asked' = Asked /\ Asked # Lazy!NotAsked
    <2>1. Asked' = Asked
      BY DEF Asked
    <2>2. Asked.op \in Operation
      BY <1>1 DEF Asked, TypeOK, Call
    <2> QED BY <2>1, <2>2 DEF Lazy!NotAsked, Operation
  <1>8. /\ e \in LiveEntries \ Lazy!Found
        /\ \A f \in LiveEntries \ Lazy!Found : f = e \/ Lazy!Before(e, f)
    BY <1>4, <1>5, <1>6 DEF Lazy!Found, Lazy!Before, Before, Files
  <1>9. data_files' = Append(data_files, e)
    BY <1>0
  <1> QED BY <1>3, <1>7, <1>8, <1>9 DEF Lazy!Expand

\* A step of ReadEntries finds a file or is hidden.
LEMMA MapsReadManifest ==
    ASSUME OneInv, OneInv', ReadManifest
    PROVE  Lazy!Expand \/ UNCHANGED Lazy!vars
  <1>1. /\ pc = "read" /\ UNCHANGED Bound /\ UNCHANGED table
        /\ UNCHANGED <<current_data_manifest, pc, call, ret>>
    BY DEF ReadManifest, Bound
  <1>2. UNCHANGED Asked
    BY <1>1 DEF Asked
  <1>3. CASE data_files' = data_files
    BY <1>1, <1>2, <1>3, MapsHiddenStep
  <1>4. CASE /\ ProduceEntry(data_reader, data_reader') /\ Kept(data_reader)
             /\ data_files' = Append(data_files, <<Current, Row(data_reader)>>)
    BY <1>1, <1>4, MapsProduceEntry
  <1> QED BY <1>3, <1>4 DEF ReadManifest, Current

\* A call that cannot open a manifest ends in an exception.
LEMMA MapsOpenFails ==
    ASSUME OneInv, OpenFails
    PROVE  Lazy!Fail
  <1>1. Asked.op \in Operation /\ pc' = "idle" /\ ret' = Exception
        /\ UNCHANGED <<LiveEntries, data_files>>
    BY LiveEntriesStay DEF OpenFails, Asked, OneInv, IInv, TypeOK, Call
  <1>2. Asked # Lazy!NotAsked /\ Asked' = Lazy!NotAsked
    BY <1>1 DEF Asked, Lazy!NotAsked, Operation
  <1> QED BY <1>1, <1>2 DEF Lazy!Fail, Exception, Lazy!NoFile, NoFile

\* Every step of the detailed list is one of the promised list, or hidden.
LEMMA MapsStep ==
    ASSUME OneInv, OneInv', ExpandsTwo, [Next]_vars
    PROVE  [Lazy!Next]_Lazy!vars
  <1>1. CASE Bind
    <2>1. /\ pc \notin {"loop", "read"} /\ pc' \notin {"loop", "read"}
          /\ UNCHANGED <<table, data_files, ret>>
      BY <1>1 DEF Bind, InitializeFiles, ReadManifestList, SplitManifest,
                  InitializeIterators
    <2>2. UNCHANGED Asked
      BY <2>1 DEF Asked
    <2> QED BY <2>1, <2>2, MapsHiddenStep
  <1>2. CASE NewCall
    BY <1>2, MapsNewCall DEF Lazy!Next
  <1>3. CASE GetFileReturns
    BY <1>3, MapsGetFileReturns DEF Lazy!Next
  <1>4. CASE OpenManifest \/ ContinueManifest \/ ManifestRead
    <2>1. /\ pc \in {"loop", "read"} /\ pc' \in {"loop", "read"}
          /\ UNCHANGED <<table, data_files, call, ret>>
      BY <1>4 DEF OpenManifest, ContinueManifest, ManifestRead
    <2>2. UNCHANGED Asked
      BY <2>1 DEF Asked
    <2> QED BY <2>1, <2>2, MapsHiddenStep
  <1>5. CASE OpenFails
    BY <1>5, MapsOpenFails DEF Lazy!Next
  <1>6. CASE ReadManifest
    BY <1>6, MapsReadManifest DEF Lazy!Next
  <1>7. CASE UNCHANGED vars
    <2>1. UNCHANGED <<table, data_files, ret, pc, call>>
      BY <1>7 DEF vars
    <2> QED BY <2>1, MapsHiddenStep DEF Asked
  <1> QED BY <1>1, <1>2, <1>3, <1>4, <1>5, <1>6, <1>7 DEF Next, GetFile

\* For callers that ask for the next file only, the file list with its chunks,
\* offsets, iterators and failed opens is a list that finds the live data files
\* in their order as the calls need them, and answers exactly what it has found
\* (IcebergMultiFileList behind DuckDB's MultiFileList interface).
THEOREM RefinesLazyFileList ==
    ASSUME Lookahead = 1
    PROVE  Spec => ImplementsLazyFileList
  <1>1. Init => OneInv /\ ExpandsTwo
    BY InitOne, ExpandsTwoInv
  <1>2. OneInv /\ ExpandsTwo /\ [Next]_vars => (OneInv /\ ExpandsTwo)'
    BY StepOne, ExpandsTwoInv DEF OneInv, IInv
  <1>3. OneInv /\ OneInv' /\ ExpandsTwo /\ [Next]_vars => [Lazy!Next]_Lazy!vars
    BY MapsStep
  <1> QED
    BY <1>1, <1>2, <1>3, MapsInit, PTL
       DEF Spec, ImplementsLazyFileList, Lazy!Spec

=============================================================================
