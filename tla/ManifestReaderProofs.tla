------------------------ MODULE ManifestReaderProofs ------------------------
(* Facts about the steps of a ManifestReader, for every chunk size. *)
EXTENDS ManifestReader, TLAPS

(***************************************************************************)
(* ReaderOK strengthens the type of a reader to what its loop keeps: the    *)
(* chunk is part of the file, a slice lies within the chunk, and a reader   *)
(* that is finished is in no call.                                          *)
(***************************************************************************)
ReaderOK(r) ==
    /\ r \in Reader
    /\ r.size <= r.fetched
    /\ r.fetched <= Len(r.file)
    /\ r.finished => r.at = "out"
    /\ r.at = "produce" =>
           /\ r.i <= r.to_scan
           /\ 0 < r.to_scan
           /\ r.to_scan <= r.count
           /\ r.offset + r.to_scan <= r.size

\* The rows of the file that the reader is past.
Consumed(r) ==
    r.fetched - r.size +
        IF r.at = "produce" THEN r.offset + r.i
                            ELSE Smaller(r.offset, r.size)

-----------------------------------------------------------------------------

\* The types of the fields, without the record.
LEMMA ReaderFields ==
    ASSUME NEW r \in Reader
    PROVE  /\ r.file \in Seq(RowStatus) /\ Len(r.file) \in Nat
           /\ r.skip_deleted \in BOOLEAN
           /\ r.fetched \in Nat /\ r.size \in Nat /\ r.offset \in Nat
           /\ r.finished \in BOOLEAN
           /\ r.at \in {"out", "loop", "produce"}
           /\ r.count \in Nat /\ r.scanned \in Nat /\ r.to_scan \in Nat
           /\ r.i \in Nat /\ r.produced \in Nat
  BY DEF Reader

\* The rows that a reader is past are a number of rows of the file.
LEMMA ConsumedNat ==
    ASSUME NEW r, ReaderOK(r)
    PROVE  Consumed(r) \in 0 .. Len(r.file)
  <1>1. r \in Reader
    BY DEF ReaderOK
  <1>2. /\ r.fetched \in Nat /\ r.size \in Nat /\ r.offset \in Nat
        /\ r.i \in Nat /\ r.to_scan \in Nat /\ Len(r.file) \in Nat
        /\ r.size <= r.fetched /\ r.fetched <= Len(r.file)
    BY <1>1, ReaderFields DEF ReaderOK
  <1>3. CASE r.at = "produce"
    <2>1. r.i <= r.to_scan /\ r.offset + r.to_scan <= r.size
      BY <1>3 DEF ReaderOK
    <2>2. Consumed(r) = r.fetched - r.size + (r.offset + r.i)
      BY <1>3 DEF Consumed
    <2> QED BY <1>2, <2>1, <2>2, SMTT(40)
  <1>4. CASE r.at # "produce"
    <2>1. Consumed(r) = r.fetched - r.size + Smaller(r.offset, r.size)
      BY <1>4 DEF Consumed
    <2>2. Smaller(r.offset, r.size) \in 0 .. r.size
      BY <1>2 DEF Smaller
    <2> QED BY <1>2, <2>1, <2>2, SMTT(40)
  <1> QED BY <1>3, <1>4

\* A new reader, as the constructor of the file list leaves it, is consistent.
LEMMA NewReaderOK ==
    ASSUME NEW skip \in BOOLEAN
    PROVE  /\ ReaderOK(NewReader(skip))
           /\ Finished(NewReader(skip))
  BY DEF NewReader, ReaderOK, Reader, Finished

\* Initialize starts a file at its first row and enters no call.
LEMMA InitializeOK ==
    ASSUME NEW r, ReaderOK(r), Finished(r), NEW file \in Seq(RowStatus)
    PROVE  LET s == Initialize(r, file)
           IN  /\ ReaderOK(s)
               /\ ~Finished(s)
               /\ s.file = file
               /\ s.skip_deleted = r.skip_deleted
               /\ s.at = "out"
               /\ Consumed(s) = 0
  <1> DEFINE s == Initialize(r, file)
  <1>1. r \in Reader /\ r.at = "out"
    BY DEF ReaderOK, Finished
  <1>2. s \in Reader
    BY <1>1 DEF Initialize, Reader
  <1>3. /\ s.file = file /\ s.fetched = 0 /\ s.size = 0 /\ s.offset = 0
        /\ s.finished = FALSE /\ s.at = "out"
        /\ s.skip_deleted = r.skip_deleted
    BY <1>1 DEF Initialize, Reader
  <1>4. Len(file) \in Nat
    OBVIOUS
  <1> HIDE DEF s
  <1>5. ReaderOK(s) /\ ~Finished(s) /\ Consumed(s) = 0
    BY <1>2, <1>3, <1>4 DEF ReaderOK, Finished, Consumed, Smaller
  <1> QED BY <1>3, <1>5 DEF s

\* Entering ReadEntries moves nothing.
LEMMA ReadEntriesOK ==
    ASSUME NEW r, ReaderOK(r), r.at = "out", ~Finished(r), NEW n \in Nat
    PROVE  LET s == ReadEntries(r, n)
           IN  /\ ReaderOK(s)
               /\ ~Finished(s)
               /\ s.file = r.file
               /\ s.skip_deleted = r.skip_deleted
               /\ s.at = "loop"
               /\ s.count = n
               /\ s.scanned = 0
               /\ Consumed(s) = Consumed(r)
               /\ s.offset = r.offset /\ s.size = r.size
               /\ s.fetched = r.fetched
  BY DEF ReadEntries, ReaderOK, Reader, Finished, Consumed, Smaller

\* The head of the loop never moves back, stays on its file, and finishes only
\* at the end of the file.
LEMMA ReadLoopOK ==
    ASSUME NEW r, NEW s, ReaderOK(r), ReadLoop(r, s)
    PROVE  /\ ReaderOK(s)
           /\ s.file = r.file
           /\ s.skip_deleted = r.skip_deleted
           /\ s.count = r.count
           /\ s.scanned = r.scanned
           /\ Consumed(r) <= Consumed(s)
           /\ Consumed(s) <= Len(s.file)
           /\ Finished(s) => Consumed(s) = Len(s.file)
  <1>a. r \in Reader /\ r.at = "loop" /\ ~Finished(r)
    BY DEF ReaderOK, ReadLoop, Finished
  <1>b. /\ r.size <= r.fetched /\ r.fetched <= Len(r.file)
        /\ Len(r.file) \in Nat /\ r.size \in Nat /\ r.fetched \in Nat
        /\ r.offset \in Nat /\ r.finished = FALSE
    BY <1>a DEF ReaderOK, Reader, Finished
  <1>1. CASE /\ r.scanned >= r.count
             /\ s = [r EXCEPT !.at = "out"]
    <2>1. /\ s \in Reader /\ s.at = "out" /\ s.finished = r.finished
          /\ s.size = r.size /\ s.offset = r.offset /\ s.fetched = r.fetched
          /\ s.file = r.file /\ s.count = r.count
          /\ s.scanned = r.scanned /\ s.skip_deleted = r.skip_deleted
      BY <1>1, <1>a DEF Reader
    <2>2. ReaderOK(s) /\ ~Finished(s)
      BY <1>a, <1>b, <2>1 DEF ReaderOK, Finished
    <2>3. Consumed(s) = Consumed(r)
      BY <1>a, <2>1 DEF Consumed
    <2>4. Consumed(r) \in Int /\ Consumed(s) <= Len(s.file)
      BY <2>2, ConsumedNat
    <2> QED BY <2>1, <2>2, <2>3, <2>4
  <1>2. CASE /\ r.scanned < r.count
             /\ r.offset >= r.size
             /\ s = GetNext(r)
    <2> DEFINE rows == Smaller(STANDARD_VECTOR_SIZE, Len(r.file) - r.fetched)
    <2>1. rows \in Nat /\ r.fetched + rows <= Len(r.file)
      BY VectorSizeAssumption DEF ReaderOK, Reader, Smaller
    <2>2. CASE rows = 0
      <3>1. Len(r.file) = r.fetched
        BY <2>2, VectorSizeAssumption DEF ReaderOK, Reader, Smaller
      <3>2. s = [r EXCEPT !.size = 0, !.finished = TRUE, !.at = "out"]
        BY <1>2, <2>2 DEF GetNext
      <3>3. s \in Reader
        BY <3>2, <1>a DEF Reader
      <3>4. /\ s.size = 0 /\ s.finished = TRUE /\ s.at = "out"
            /\ s.file = r.file /\ s.fetched = r.fetched
            /\ s.offset = r.offset /\ s.count = r.count
            /\ s.scanned = r.scanned /\ s.skip_deleted = r.skip_deleted
        BY <3>2, <1>a DEF Reader
      <3> QED
        BY <1>2, <1>a, <1>b, <3>1, <3>3, <3>4
           DEF ReaderOK, Finished, Consumed, Smaller
    <2>3. CASE rows # 0
      <3>1. s = [r EXCEPT !.fetched = @ + rows, !.size = rows, !.offset = 0]
        BY <1>2, <2>3 DEF GetNext
      <3> HIDE DEF rows
      <3>2. s \in Reader
        <4> DEFINE f == r.fetched + rows
        <4>1. f \in Nat
          BY <2>1, <1>b
        <4>2. s = [r EXCEPT !.fetched = f, !.size = rows, !.offset = 0]
          BY <3>1
        <4> HIDE DEF f
        <4> QED BY <2>1, <4>1, <4>2, <1>a DEF Reader
      <3>3. /\ s.size = rows /\ s.offset = 0 /\ s.at = "loop"
            /\ s.fetched = r.fetched + rows /\ s.finished = r.finished
            /\ s.file = r.file /\ s.count = r.count
            /\ s.scanned = r.scanned /\ s.skip_deleted = r.skip_deleted
        BY <3>1, <1>a DEF Reader
      <3> QED
        BY <1>2, <1>a, <1>b, <2>1, <3>2, <3>3
           DEF ReaderOK, Finished, Consumed, Smaller
    <2> QED BY <2>2, <2>3
  <1>3. CASE /\ r.scanned < r.count
             /\ r.offset < r.size
             /\ s = [r EXCEPT !.at = "produce", !.i = 0, !.produced = 0,
                              !.to_scan = Smaller(r.size - r.offset,
                                                  r.count - r.scanned)]
    <2> DEFINE n == Smaller(r.size - r.offset, r.count - r.scanned)
    <2>1. n \in Nat /\ 0 < n /\ n <= r.size - r.offset /\ n <= r.count
      BY <1>3 DEF ReaderOK, Reader, Smaller
    <2>2. s = [r EXCEPT !.at = "produce", !.i = 0, !.produced = 0,
                        !.to_scan = n]
      BY <1>3
    <2> HIDE DEF n
    <2>3. s \in Reader
      BY <2>1, <2>2, <1>a DEF Reader
    <2>4. /\ s.at = "produce" /\ s.i = 0 /\ s.to_scan = n
          /\ s.size = r.size /\ s.offset = r.offset
          /\ s.fetched = r.fetched /\ s.finished = r.finished
          /\ s.file = r.file /\ s.count = r.count
          /\ s.scanned = r.scanned /\ s.skip_deleted = r.skip_deleted
      BY <2>2, <1>a DEF Reader
    <2> QED
      BY <1>3, <1>a, <1>b, <2>1, <2>3, <2>4, SMTT(40)
         DEF ReaderOK, Finished, Consumed, Smaller
  <1> QED BY <1>1, <1>2, <1>3 DEF ReadLoop

\* One turn of ProduceEntries looks at the next row of the file.
LEMMA ProduceEntryOK ==
    ASSUME NEW r, NEW s, ReaderOK(r), ProduceEntry(r, s)
    PROVE  /\ ReaderOK(s)
           /\ ~Finished(s)
           /\ s.file = r.file
           /\ s.skip_deleted = r.skip_deleted
           /\ s.at = "produce"
           /\ s.count = r.count
           /\ s.scanned = r.scanned
           /\ Row(r) = Consumed(r) + 1
           /\ Row(r) \in 1 .. Len(r.file)
           /\ Consumed(s) = Row(r)
  <1>1. /\ r \in Reader /\ r.at = "produce" /\ r.i < r.to_scan
        /\ r.finished = FALSE
    BY DEF ProduceEntry, ReaderOK, Reader
  <1>2. s = [r EXCEPT !.i = r.i + 1,
                      !.produced = IF Kept(r) THEN r.produced + 1
                                              ELSE r.produced]
    BY DEF ProduceEntry
  <1>3. s \in Reader
    <2> DEFINE m == r.i + 1
               n == IF Kept(r) THEN r.produced + 1 ELSE r.produced
    <2>1. m \in Nat /\ n \in Nat
      BY <1>1, ReaderFields
    <2>2. s = [r EXCEPT !.i = m, !.produced = n]
      BY <1>2
    <2> HIDE DEF m, n
    <2> QED BY <1>1, <2>1, <2>2 DEF Reader
  <1>4. /\ s.i = r.i + 1 /\ s.at = "produce" /\ s.to_scan = r.to_scan
        /\ s.size = r.size /\ s.offset = r.offset
        /\ s.fetched = r.fetched /\ s.finished = r.finished
        /\ s.file = r.file /\ s.count = r.count
        /\ s.scanned = r.scanned /\ s.skip_deleted = r.skip_deleted
    BY <1>1, <1>2 DEF Reader
  <1>5. ReaderOK(s) /\ ~Finished(s)
    BY <1>1, <1>3, <1>4, ReaderFields DEF ReaderOK, Finished
  <1>6. /\ Row(r) = Consumed(r) + 1
        /\ Row(r) \in 1 .. Len(r.file)
        /\ Consumed(s) = Row(r)
    <2>1. Consumed(r) = r.fetched - r.size + (r.offset + r.i)
      BY <1>1 DEF Consumed
    <2>2. Consumed(s) = r.fetched - r.size + (r.offset + (r.i + 1))
      BY <1>4 DEF Consumed
    <2>3. /\ r.size \in Nat /\ r.fetched \in Nat /\ r.offset \in Nat
          /\ r.i \in Nat /\ r.to_scan \in Nat /\ Len(r.file) \in Nat
      BY <1>1, ReaderFields
    <2>4. /\ r.size <= r.fetched /\ r.fetched <= Len(r.file)
          /\ r.offset + r.to_scan <= r.size
      BY <1>1 DEF ReaderOK
    <2>5. r.i < r.to_scan /\ Row(r) = r.fetched - r.size + r.offset + r.i + 1
      BY <1>1 DEF Row
    <2>6. Consumed(r) \in Int /\ Row(r) = Consumed(r) + 1
      BY <2>1, <2>3, <2>5
    <2>7. Consumed(s) = Row(r)
      BY <2>2, <2>3, <2>5, SMTT(40)
    <2>8. Row(r) \in 1 .. Len(r.file)
      <3>1. r.offset + (r.i + 1) <= r.size
        BY <2>3, <2>4, <2>5
      <3>2. Row(r) = (r.fetched - r.size) + (r.offset + (r.i + 1))
        BY <2>3, <2>5, SMTT(40)
      <3> QED BY <2>3, <2>4, <3>1, <3>2, SMTT(40)
    <2> QED BY <2>6, <2>7, <2>8
  <1> QED BY <1>4, <1>5, <1>6

\* The end of a callback never moves back.
LEMMA EndOfCallbackOK ==
    ASSUME NEW r, NEW s, ReaderOK(r), EndOfCallback(r, s)
    PROVE  /\ ReaderOK(s)
           /\ ~Finished(s)
           /\ s.file = r.file
           /\ s.skip_deleted = r.skip_deleted
           /\ s.at = "loop"
           /\ s.count = r.count
           /\ Consumed(r) <= Consumed(s)
           /\ Consumed(s) <= Len(s.file)
  <1>1. /\ r \in Reader /\ r.at = "produce" /\ r.i >= r.to_scan
        /\ r.finished = FALSE
    BY DEF EndOfCallback, ReaderOK, Reader
  <1>2. s = [r EXCEPT !.at = "loop", !.scanned = r.scanned + r.produced,
                      !.offset = r.offset + r.count]
    BY DEF EndOfCallback
  <1>3. s \in Reader
    <2> DEFINE m == r.scanned + r.produced
               n == r.offset + r.count
    <2>1. m \in Nat /\ n \in Nat
      BY <1>1, ReaderFields
    <2>2. s = [r EXCEPT !.at = "loop", !.scanned = m, !.offset = n]
      BY <1>2
    <2> HIDE DEF m, n
    <2> QED BY <1>1, <2>1, <2>2 DEF Reader
  <1>4. /\ s.at = "loop" /\ s.offset = r.offset + r.count
        /\ s.size = r.size
        /\ s.fetched = r.fetched /\ s.finished = r.finished
        /\ s.file = r.file /\ s.count = r.count
        /\ s.skip_deleted = r.skip_deleted
    BY <1>1, <1>2 DEF Reader
  <1>5. ReaderOK(s) /\ ~Finished(s)
    BY <1>1, <1>3, <1>4 DEF ReaderOK, Finished
  <1>6. Consumed(r) <= Consumed(s) /\ Consumed(s) <= Len(s.file)
    BY <1>1, <1>4, ReaderFields, SMTT(40) DEF ReaderOK, Consumed, Smaller
  <1> QED BY <1>4, <1>5, <1>6

\* A call for one entry moves past exactly the rows it has looked at.
LEMMA CountOneExact ==
    ASSUME NEW r, NEW s, ReaderOK(r), r.count = 1
    PROVE  /\ ReadLoop(r, s) => Consumed(s) = Consumed(r)
           /\ EndOfCallback(r, s) => Consumed(s) = Consumed(r)
  <1>1. ASSUME ReadLoop(r, s)
        PROVE  Consumed(s) = Consumed(r)
    <2>1. CASE /\ r.scanned >= r.count
               /\ s = [r EXCEPT !.at = "out"]
      BY <1>1, <2>1 DEF ReadLoop, ReaderOK, Reader, Consumed, Smaller
    <2>2. CASE /\ r.scanned < r.count
               /\ r.offset >= r.size
               /\ s = GetNext(r)
      <3> DEFINE rows == Smaller(STANDARD_VECTOR_SIZE, Len(r.file) - r.fetched)
      <3>1. rows \in Nat /\ r.fetched + rows <= Len(r.file)
        BY VectorSizeAssumption DEF ReaderOK, Reader, Smaller
      <3>2. s = IF rows = 0
                THEN [r EXCEPT !.size = 0, !.finished = TRUE, !.at = "out"]
                ELSE [r EXCEPT !.fetched = @ + rows, !.size = rows,
                               !.offset = 0]
        BY <2>2 DEF GetNext
      <3> HIDE DEF rows
      <3> QED
        BY <1>1, <2>2, <3>1, <3>2 DEF ReadLoop, ReaderOK, Reader, Consumed, Smaller
    <2>3. CASE /\ r.scanned < r.count
               /\ r.offset < r.size
               /\ s = [r EXCEPT !.at = "produce", !.i = 0, !.produced = 0,
                                !.to_scan = Smaller(r.size - r.offset,
                                                    r.count - r.scanned)]
      BY <1>1, <2>3 DEF ReadLoop, ReaderOK, Reader, Consumed, Smaller
    <2> QED BY <1>1, <2>1, <2>2, <2>3 DEF ReadLoop
  <1>2. ASSUME EndOfCallback(r, s)
        PROVE  Consumed(s) = Consumed(r)
    BY <1>2, SMTT(40) DEF EndOfCallback, ReaderOK, Reader, Consumed, Smaller
  <1> QED BY <1>1, <1>2

-----------------------------------------------------------------------------
(* Whole chunks *)

\* A row of the last chunk of its file comes after every row that a chunk of
\* the file ends at, but the last one.
InLastChunk(file, k) ==
    \A q \in Nat : q * STANDARD_VECTOR_SIZE < Len(file)
                       => q * STANDARD_VECTOR_SIZE < k

\* The rows that a reader leaves out are in the last chunk.
SkipsLastChunk(r) ==
    r.skip_deleted =>
        \A k \in 1 .. Len(r.file) :
            r.file[k] = "DELETED" => InLastChunk(r.file, k)

\* Such a reader that is called for STANDARD_VECTOR_SIZE entries at a time takes
\* every chunk in one slice.
WholeChunks(r) ==
    /\ r.count = STANDARD_VECTOR_SIZE
    /\ r.size <= STANDARD_VECTOR_SIZE
    /\ 0 < r.size /\ r.size < STANDARD_VECTOR_SIZE => r.fetched = Len(r.file)
    /\ r.fetched < Len(r.file) =>
           \E q \in Nat : r.fetched = q * STANDARD_VECTOR_SIZE
    /\ r.at = "loop" =>
           \/ r.scanned = 0 /\ (r.offset = 0 \/ r.offset >= r.size)
           \/ r.scanned = r.size /\ r.offset >= r.size /\ 0 < r.size
           \/ r.fetched = Len(r.file) /\ r.offset >= r.size
    /\ r.at = "produce" =>
           /\ r.offset = 0 /\ r.scanned = 0 /\ r.to_scan = r.size
           /\ r.produced = r.i \/ r.fetched = Len(r.file)
    /\ r.at = "out" => r.offset >= r.size
    /\ r.finished => r.fetched = Len(r.file)

\* A file that is opened is read in whole chunks.
LEMMA OpenedWholeChunks ==
    ASSUME NEW r, ReaderOK(r), Finished(r), NEW file \in Seq(RowStatus)
    PROVE  WholeChunks(ReadEntries(Initialize(r, file), STANDARD_VECTOR_SIZE))
  <1> DEFINE o == Initialize(r, file)
             s == ReadEntries(o, STANDARD_VECTOR_SIZE)
  <1>1. STANDARD_VECTOR_SIZE \in Nat /\ 0 = 0 * STANDARD_VECTOR_SIZE
    BY VectorSizeAssumption
  <1>2. /\ ReaderOK(o) /\ ~Finished(o) /\ o.file = file /\ o.at = "out"
        /\ o.fetched = 0 /\ o.size = 0 /\ o.offset = 0
    <2>1. r \in Reader
      BY DEF ReaderOK
    <2> QED BY <2>1, InitializeOK DEF Initialize, Reader
  <1> HIDE DEF o
  <1>3. /\ ~Finished(s) /\ s.file = file /\ s.at = "loop" /\ s.scanned = 0
        /\ s.count = STANDARD_VECTOR_SIZE
        /\ s.fetched = 0 /\ s.size = 0 /\ s.offset = 0
    BY <1>1, <1>2, ReadEntriesOK
  <1> HIDE DEF s
  <1>4. WholeChunks(s)
    BY <1>1, <1>3 DEF WholeChunks, Finished
  <1> QED BY <1>4 DEF s, o

\* A file that is read further is.
LEMMA ContinuedWholeChunks ==
    ASSUME NEW r, ReaderOK(r), r.at = "out", ~Finished(r), WholeChunks(r)
    PROVE  WholeChunks(ReadEntries(r, STANDARD_VECTOR_SIZE))
  <1> DEFINE s == ReadEntries(r, STANDARD_VECTOR_SIZE)
  <1>1. STANDARD_VECTOR_SIZE \in Nat
    BY VectorSizeAssumption
  <1>2. /\ ~Finished(s) /\ s.file = r.file /\ s.at = "loop"
        /\ s.count = STANDARD_VECTOR_SIZE /\ s.scanned = 0
        /\ s.offset = r.offset /\ s.size = r.size /\ s.fetched = r.fetched
    BY <1>1, ReadEntriesOK
  <1>3. r.size \in Nat /\ r.offset \in Nat
    BY ReaderFields DEF ReaderOK
  <1> HIDE DEF s
  <1>4. WholeChunks(s)
    BY <1>1, <1>2, <1>3 DEF WholeChunks, Finished
  <1> QED BY <1>4 DEF s

\* A reader of whole chunks skips no row: only producing an entry moves it.
LEMMA WholeChunksStep ==
    ASSUME NEW r, NEW s, ReaderOK(r), WholeChunks(r), SkipsLastChunk(r)
    PROVE  /\ ReadLoop(r, s) => /\ WholeChunks(s)
                                /\ Consumed(s) = Consumed(r)
           /\ ProduceEntry(r, s) => WholeChunks(s)
           /\ EndOfCallback(r, s) => /\ WholeChunks(s)
                                     /\ Consumed(s) = Consumed(r)
  <1>1. /\ r \in Reader
        /\ Len(r.file) \in Nat /\ r.fetched \in Nat /\ r.size \in Nat
        /\ r.offset \in Nat /\ r.count \in Nat /\ r.scanned \in Nat
        /\ r.to_scan \in Nat /\ r.i \in Nat /\ r.produced \in Nat
        /\ STANDARD_VECTOR_SIZE \in Nat /\ 0 < STANDARD_VECTOR_SIZE
    BY VectorSizeAssumption, ReaderFields DEF ReaderOK
  <1>2. ASSUME ReadLoop(r, s)
        PROVE  WholeChunks(s) /\ Consumed(s) = Consumed(r)
    <2>1. CASE /\ r.scanned >= r.count
               /\ s = [r EXCEPT !.at = "out"]
      <3>1. /\ s.at = "out" /\ s.size = r.size /\ s.offset = r.offset
            /\ s.fetched = r.fetched /\ s.file = r.file
            /\ s.count = r.count /\ s.finished = r.finished
        BY <1>1, <2>1 DEF Reader
      <3> QED
        BY <1>1, <1>2, <2>1, <3>1
           DEF ReadLoop, ReaderOK, WholeChunks, Consumed, Smaller
    <2>2. CASE /\ r.scanned < r.count
               /\ r.offset >= r.size
               /\ s = GetNext(r)
      <3> DEFINE rows == Smaller(STANDARD_VECTOR_SIZE, Len(r.file) - r.fetched)
      <3>1. /\ rows \in Nat /\ rows <= STANDARD_VECTOR_SIZE
            /\ rows < STANDARD_VECTOR_SIZE => r.fetched + rows = Len(r.file)
        BY <1>1 DEF ReaderOK, Smaller
      <3>2. r.at = "loop"
        BY <1>2 DEF ReadLoop
      <3>3. CASE rows = 0
        <4>1. s = [r EXCEPT !.size = 0, !.finished = TRUE, !.at = "out"]
          BY <2>2, <3>3 DEF GetNext
        <4>2. /\ s.at = "out" /\ s.size = 0 /\ s.offset = r.offset
              /\ s.fetched = r.fetched /\ s.count = r.count
              /\ s.file = r.file
          BY <1>1, <4>1 DEF Reader
        <4>3. r.fetched = Len(r.file)
          BY <1>1, <3>1, <3>3
        <4> QED
          BY <1>1, <2>2, <3>2, <4>2, <4>3
             DEF ReaderOK, WholeChunks, Consumed, Smaller
      <3>4. CASE rows # 0
        <4>1. s = [r EXCEPT !.fetched = @ + rows, !.size = rows, !.offset = 0]
          BY <2>2, <3>4 DEF GetNext
        <4> HIDE DEF rows
        <4>2. /\ s.at = "loop" /\ s.size = rows /\ s.offset = 0
              /\ s.fetched = r.fetched + rows /\ s.count = r.count
              /\ s.scanned = r.scanned /\ s.file = r.file
              /\ s.finished = FALSE
          BY <1>1, <3>2, <4>1 DEF Reader, ReaderOK
        <4>3. r.scanned = 0
          <5>1. r.scanned = r.size /\ 0 < r.size => r.fetched = Len(r.file)
            BY <1>1, <2>2 DEF WholeChunks
          <5>2. r.fetched = Len(r.file) => rows = 0
            BY <1>1 DEF rows, Smaller
          <5> QED BY <3>2, <3>4, <5>1, <5>2 DEF WholeChunks
        <4>4. Consumed(s) = Consumed(r)
          BY <1>1, <2>2, <3>1, <3>2, <4>2, SMTT(40) DEF ReaderOK, Consumed, Smaller
        <4>5. ASSUME s.fetched < Len(s.file)
              PROVE  \E q \in Nat : s.fetched = q * STANDARD_VECTOR_SIZE
          <5>1. r.fetched < Len(r.file) /\ rows = STANDARD_VECTOR_SIZE
            BY <1>1, <3>1, <4>2, <4>5
          <5>2. PICK q \in Nat : r.fetched = q * STANDARD_VECTOR_SIZE
            BY <5>1 DEF WholeChunks
          <5>3. q * STANDARD_VECTOR_SIZE + STANDARD_VECTOR_SIZE
                    = (q + 1) * STANDARD_VECTOR_SIZE
            BY <1>1
          <5>4. s.fetched = (q + 1) * STANDARD_VECTOR_SIZE
            BY <4>2, <5>1, <5>2, <5>3
          <5> QED BY <5>4
        <4> QED
          BY <1>1, <3>1, <4>2, <4>3, <4>4, <4>5 DEF WholeChunks
      <3> QED BY <3>3, <3>4
    <2>3. CASE /\ r.scanned < r.count
               /\ r.offset < r.size
               /\ s = [r EXCEPT !.at = "produce", !.i = 0, !.produced = 0,
                                !.to_scan = Smaller(r.size - r.offset,
                                                    r.count - r.scanned)]
      <3>1. r.at = "loop"
        BY <1>2 DEF ReadLoop
      <3>2. r.offset = 0 /\ r.scanned = 0
        BY <1>1, <2>3, <3>1 DEF WholeChunks
      <3>3. Smaller(r.size - r.offset, r.count - r.scanned) = r.size
        BY <1>1, <3>2 DEF WholeChunks, Smaller
      <3>4. /\ s.at = "produce" /\ s.i = 0 /\ s.produced = 0
            /\ s.to_scan = r.size /\ s.size = r.size /\ s.offset = r.offset
            /\ s.fetched = r.fetched /\ s.count = r.count
            /\ s.scanned = r.scanned /\ s.file = r.file
            /\ s.finished = r.finished
        BY <1>1, <2>3, <3>3 DEF Reader
      <3> QED
        BY <1>1, <3>1, <3>2, <3>4 DEF WholeChunks, ReaderOK, Consumed, Smaller
    <2> QED BY <1>2, <2>1, <2>2, <2>3 DEF ReadLoop
  <1>3. ASSUME ProduceEntry(r, s)
        PROVE  WholeChunks(s)
    <2>1. r.at = "produce"
      BY <1>3 DEF ProduceEntry
    <2>2. /\ s.at = "produce" /\ s.i = r.i + 1
          /\ s.produced = IF Kept(r) THEN r.produced + 1 ELSE r.produced
          /\ s.to_scan = r.to_scan /\ s.size = r.size
          /\ s.offset = r.offset /\ s.fetched = r.fetched
          /\ s.count = r.count /\ s.scanned = r.scanned /\ s.file = r.file
          /\ s.finished = r.finished
      BY <1>1, <1>3 DEF ProduceEntry, Reader
    <2>3. CASE Kept(r)
      BY <1>1, <2>1, <2>2, <2>3 DEF WholeChunks
    <2>4. CASE ~Kept(r)
      <3>1. /\ Row(r) \in 1 .. Len(r.file)
            /\ InLastChunk(r.file, Row(r))
        BY <1>3, <2>4, ProduceEntryOK DEF Kept, SkipsLastChunk
      <3>2. Row(r) <= r.fetched
        <4>1. r.i < r.to_scan /\ r.offset = 0 /\ r.to_scan = r.size
          BY <1>3, <2>1 DEF ProduceEntry, WholeChunks
        <4>2. Row(r) = r.fetched - r.size + r.offset + r.i + 1
          BY DEF Row
        <4> QED BY <1>1, <4>1, <4>2
      <3>3. r.fetched <= Len(r.file)
        BY DEF ReaderOK
      <3>4. r.fetched = Len(r.file)
        <4> SUFFICES ASSUME r.fetched < Len(r.file) PROVE FALSE
          BY <1>1, <3>3
        <4>1. PICK q \in Nat : r.fetched = q * STANDARD_VECTOR_SIZE
          BY DEF WholeChunks
        <4>2. r.fetched < Row(r)
          BY <3>1, <4>1 DEF InLastChunk
        <4> QED BY <1>1, <3>1, <3>2, <4>2
      <3> QED BY <1>1, <2>1, <2>2, <3>4 DEF WholeChunks
    <2> QED BY <2>3, <2>4
  <1>4. ASSUME EndOfCallback(r, s)
        PROVE  WholeChunks(s) /\ Consumed(s) = Consumed(r)
    <2>1. r.at = "produce" /\ r.i >= r.to_scan
      BY <1>4 DEF EndOfCallback
    <2>2. s = [r EXCEPT !.at = "loop", !.scanned = r.scanned + r.produced,
                        !.offset = r.offset + r.count]
      BY <1>4 DEF EndOfCallback
    <2>3. /\ s.at = "loop" /\ s.scanned = r.scanned + r.produced
          /\ s.offset = r.offset + r.count
          /\ s.size = r.size /\ s.fetched = r.fetched
          /\ s.count = r.count /\ s.file = r.file
          /\ s.finished = r.finished
      BY <1>1, <2>1, <2>2 DEF Reader
    <2>4. /\ r.offset = 0 /\ r.scanned = 0 /\ r.to_scan = r.size
          /\ r.produced = r.i \/ r.fetched = Len(r.file)
          /\ r.i = r.to_scan /\ 0 < r.size
      BY <1>1, <2>1 DEF WholeChunks, ReaderOK
    <2> QED
      BY <1>1, <2>1, <2>3, <2>4 DEF WholeChunks, ReaderOK, Consumed, Smaller
  <1> QED BY <1>2, <1>3, <1>4

=============================================================================
