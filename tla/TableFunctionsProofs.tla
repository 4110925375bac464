------------------------ MODULE TableFunctionsProofs ------------------------
(***************************************************************************)
(* Theorems about TableFunctions, for every table and every chunk size:     *)
(* type correctness, that iceberg_metadata takes only steps of the abstract *)
(* RowStream over all entries of the table, and what iceberg_snapshots      *)
(* loses at the boundaries of its chunks.                                   *)
(***************************************************************************)
EXTENDS TableFunctions, ManifestReaderProofs, SequenceTheorems,
        WellFoundedInduction, TLAPS

-----------------------------------------------------------------------------
(* FlattenSeq *)

Less == {ss \in Nat \X Nat : ss[1] < ss[2]}

\* A nonempty set of natural numbers has a least element.
LEMMA LeastNatural ==
    ASSUME NEW S, S \subseteq Nat, S # {}
    PROVE  \E n \in S : \A m \in S : n <= m
  <1>1. IsWellFoundedOn(Less, Nat)
    BY NatLessThanWellFounded, SMT DEF OpToRel, Less
  <1>2. PICK n \in S : \A m \in Nat : <<m, n>> \in Less => m \notin S
    BY <1>1, WFMin, Zenon
  <1>3. ASSUME NEW m \in S
        PROVE  n <= m
    <2>1. m \in Nat /\ n \in Nat /\ <<m, n>> \notin Less
      BY <1>2
    <2>2. ~(m < n)
      BY <2>1 DEF Less
    <2> QED BY <2>1, <2>2
  <1> QED BY <1>3

\* The function that FlattenSeq applies to the number of sequences: the first i
\* of them in one.
Flatten(s) ==
    LET flatten[i \in 1 .. Len(s)] ==
            IF i = 1 THEN s[i] ELSE flatten[i-1] \o s[i]
    IN  flatten

IsFlatten(s, f, n) ==
    f = [i \in 1 .. n |-> IF i = 1 THEN s[i] ELSE f[i-1] \o s[i]]

\* There is such a function for any number of sequences.
LEMMA FlattenExists ==
    ASSUME NEW s, NEW n \in Nat
    PROVE  \E f : IsFlatten(s, f, n)
  <1> DEFINE Without == {k \in Nat : ~ \E f : IsFlatten(s, f, k)}
  <1>1. SUFFICES ASSUME Without # {} PROVE FALSE
    OBVIOUS
  <1>2. PICK k \in Without : \A m \in Without : k <= m
    BY <1>1, LeastNatural
  <1>3. IsFlatten(s, <<>>, 0)
    BY DEF IsFlatten
  <1>4. k - 1 \in Nat /\ k - 1 \notin Without
    BY <1>2, <1>3
  <1>5. PICK f : IsFlatten(s, f, k - 1)
    BY <1>4
  <1> DEFINE g == [i \in 1 .. k |-> IF i = 1 THEN s[i] ELSE f[i-1] \o s[i]]
  <1>6. \A i \in 1 .. k-1 : f[i] = IF i = 1 THEN s[i] ELSE f[i-1] \o s[i]
    BY <1>5 DEF IsFlatten
  <1>7. \A i \in 1 .. k-1 : g[i] = f[i]
    BY <1>4, <1>6
  <1>8. IsFlatten(s, g, k)
    <2>1. \A i \in 1 .. k : i # 1 => i - 1 \in 1 .. k - 1
      BY <1>4
    <2> HIDE DEF g
    <2>2. \A i \in 1 .. k : (IF i = 1 THEN s[i] ELSE f[i-1] \o s[i])
                                = IF i = 1 THEN s[i] ELSE g[i-1] \o s[i]
      BY <1>7, <2>1
    <2> QED BY <2>2, Zenon DEF IsFlatten, g
  <1> QED BY <1>2, <1>8

FirstSeqs(s, k) == IF k = 0 THEN <<>> ELSE Flatten(s)[k]

\* Where the parentheses are does not matter.
Associates(S) == \A a, b, c \in Seq(S) : (a \o b) \o c = a \o (b \o c)

\* Sequences are concatenated in any grouping.
LEMMA Associative == \A S : Associates(S)
  BY ConcatAssociative, Zenon DEF Associates

\* FlattenSeq appends one sequence after the other.
LEMMA FlattenSteps ==
    ASSUME NEW S, NEW s \in Seq(Seq(S))
    PROVE  /\ FirstSeqs(s, 0) = <<>>
           /\ \A k \in 0 .. Len(s) - 1 :
                  FirstSeqs(s, k + 1) = FirstSeqs(s, k) \o s[k + 1]
           /\ FlattenSeq(s) = FirstSeqs(s, Len(s))
  <1> DEFINE f == Flatten(s)
  <1>1. Len(s) \in Nat /\ (Len(s) = 0 => s = <<>>)
    BY EmptySeq, Zenon, LenProperties
  <1>2. IsFlatten(s, f, Len(s))
    BY <1>1, FlattenExists, Zenon DEF Flatten, IsFlatten
  <1>3. FlattenSeq(s) = IF Len(s) = 0 THEN s ELSE f[Len(s)]
    BY Zenon DEF FlattenSeq, Flatten
  <1>4. \A i \in 1 .. Len(s) : f[i] = IF i = 1 THEN s[i] ELSE f[i-1] \o s[i]
    BY <1>2, Zenon DEF IsFlatten
  <1>5. \A k \in 0 .. Len(s) : FirstSeqs(s, k) = IF k = 0 THEN <<>> ELSE f[k]
    BY DEF FirstSeqs
  <1> HIDE DEF f
  <1>6. ASSUME NEW k \in 0 .. Len(s) - 1
        PROVE  FirstSeqs(s, k + 1) = FirstSeqs(s, k) \o s[k + 1]
    <2>1. /\ k \in 0 .. Len(s) /\ k + 1 \in 1 .. Len(s) /\ k + 1 # 0
          /\ (k + 1) - 1 = k /\ k + 1 \in 0 .. Len(s)
      BY <1>1
    <2>2. FirstSeqs(s, k + 1) = f[k + 1]
      BY <1>5, <2>1
    <2>3. CASE k = 0
      <3>1. s[1] \in Seq(S) /\ f[1] = s[1]
        BY <1>4, <2>1, <2>3
      <3> QED BY <1>5, <2>2, <2>3, <3>1, ConcatEmptySeq
    <2>4. CASE k # 0
      <3>1. k + 1 # 1
        BY <1>1, <2>4
      <3>2. f[k + 1] = f[(k + 1) - 1] \o s[k + 1]
        BY <1>4, <2>1, <3>1, Zenon
      <3>3. f[k + 1] = f[k] \o s[k + 1]
        BY <2>1, <3>2, Zenon
      <3> QED BY <1>5, <2>1, <2>2, <2>4, <3>3
    <2> QED BY <2>3, <2>4
  <1>7. FlattenSeq(s) = FirstSeqs(s, Len(s))
    BY <1>1, <1>3, <1>5
  <1> QED BY <1>1, <1>5, <1>6, <1>7

\* What it appends is a sequence of the same elements, and the first sequences
\* are a prefix of all.
LEMMA FlattenPrefix ==
    ASSUME NEW S, NEW s \in Seq(Seq(S)), NEW k \in 0 .. Len(s)
    PROVE  /\ FirstSeqs(s, k) \in Seq(S)
           /\ \E t \in Seq(S) : FlattenSeq(s) = FirstSeqs(s, k) \o t
  <1>1. Len(s) \in Nat
    OBVIOUS
  <1>2. ASSUME NEW j \in 0 .. Len(s)
        PROVE  FirstSeqs(s, j) \in Seq(S)
    <2> DEFINE Without == {n \in 0 .. Len(s) : FirstSeqs(s, n) \notin Seq(S)}
    <2>1. SUFFICES ASSUME Without # {} PROVE FALSE
      OBVIOUS
    <2>a. Without \subseteq Nat
      BY <1>1
    <2>2. PICK n \in Without : \A m \in Without : n <= m
      BY <2>1, <2>a, LeastNatural, Zenon
    <2>b. n \in 0 .. Len(s) /\ FirstSeqs(s, n) \notin Seq(S)
      BY <2>2
    <2>3. n # 0
      <3>1. FirstSeqs(s, 0) = <<>> /\ <<>> \in Seq(S)
        BY FlattenSteps, EmptySeq, Zenon
      <3> QED BY <2>b, <3>1
    <2>4. PICK k0 : k0 = n - 1
      OBVIOUS
    <2>5. /\ k0 \in 0 .. Len(s) - 1 /\ k0 \in 0 .. Len(s) /\ k0 + 1 = n
          /\ ~(n <= k0) /\ n \in 1 .. Len(s)
      BY <1>1, <2>b, <2>3, <2>4
    <2>6. k0 \notin Without
      BY <2>2, <2>5
    <2>7. FirstSeqs(s, n) = FirstSeqs(s, k0) \o s[n]
      BY <2>5, FlattenSteps
    <2>8. s[n] \in Seq(S) /\ FirstSeqs(s, k0) \in Seq(S)
      BY <2>5, <2>6
    <2>9. FirstSeqs(s, k0) \o s[n] \in Seq(S)
      BY <2>8, ConcatProperties
    <2> QED BY <2>b, <2>7, <2>9
  <1> DEFINE Rest(n) == \E t \in Seq(S) : FlattenSeq(s) = FirstSeqs(s, n) \o t
             Without == {d \in 0 .. Len(s) : ~Rest(Len(s) - d)}
  <1>3. Without = {}
    <2>1. SUFFICES ASSUME Without # {} PROVE FALSE
      OBVIOUS
    <2>a. Without \subseteq Nat
      BY <1>1
    <2>2. PICK d \in Without : \A e \in Without : d <= e
      BY <2>1, <2>a, LeastNatural, Zenon
    <2>b. d \in 0 .. Len(s) /\ ~Rest(Len(s) - d)
      BY <2>2
    <2>3. d # 0
      <3>1. Len(s) \in 0 .. Len(s) /\ Len(s) - 0 = Len(s)
        BY <1>1
      <3>2. FirstSeqs(s, Len(s)) \in Seq(S) /\ <<>> \in Seq(S)
        BY <1>2, <3>1, EmptySeq
      <3>3. FlattenSeq(s) = FirstSeqs(s, Len(s)) \o <<>>
        BY <3>2, FlattenSteps, ConcatEmptySeq, Zenon
      <3>4. Rest(Len(s))
        BY <3>2, <3>3
      <3> HIDE DEF Rest
      <3> QED BY <2>b, <3>1, <3>4
    <2>4. PICK n : n = Len(s) - d
      OBVIOUS
    <2>5. /\ n \in 0 .. Len(s) - 1 /\ n + 1 = Len(s) - (d - 1)
          /\ n + 1 \in 1 .. Len(s) /\ n \in 0 .. Len(s)
      BY <1>1, <2>b, <2>3, <2>4
    <2>c. Rest(n + 1)
      <3>1. d - 1 \in 0 .. Len(s) /\ ~(d <= d - 1)
        BY <1>1, <2>b, <2>3
      <3>2. d - 1 \notin Without
        BY <2>2, <3>1
      <3> HIDE DEF Rest
      <3> QED BY <2>5, <3>1, <3>2
    <2>6. PICK t \in Seq(S) : FlattenSeq(s) = FirstSeqs(s, n + 1) \o t
      BY <2>c
    <2>7. FirstSeqs(s, n + 1) = FirstSeqs(s, n) \o s[n + 1]
      BY <2>5, FlattenSteps
    <2>8. s[n + 1] \in Seq(S) /\ FirstSeqs(s, n) \in Seq(S)
      <3>1. s[n + 1] \in Seq(S)
        BY <2>5
      <3>2. FirstSeqs(s, n) \in Seq(S)
        BY <1>2, <2>5, Zenon
      <3> QED BY <3>1, <3>2
    <2>9. FlattenSeq(s) = FirstSeqs(s, n) \o (s[n + 1] \o t)
      <3>0. Associates(S)
        BY Associative, Zenon
      <3>1. (FirstSeqs(s, n) \o s[n + 1]) \o t
                = FirstSeqs(s, n) \o (s[n + 1] \o t)
        BY <2>6, <2>8, <3>0, Zenon DEF Associates
      <3>2. FlattenSeq(s) = (FirstSeqs(s, n) \o s[n + 1]) \o t
        BY <2>6, <2>7, Zenon
      <3> QED BY <3>1, <3>2, Zenon
    <2>10. s[n + 1] \o t \in Seq(S)
      <3>1. \A a, b \in Seq(S) : a \o b \in Seq(S)
        BY ConcatProperties
      <3> QED BY <2>8, <3>1, Zenon
    <2> QED BY <2>b, <2>4, <2>9, <2>10
  <1>4. Len(s) - k \in 0 .. Len(s) /\ Len(s) - (Len(s) - k) = k
    BY <1>1
  <1>5. Rest(k)
    BY <1>3, <1>4
  <1> QED BY <1>2, <1>5

-----------------------------------------------------------------------------
(* A scan of ScanAvroMetadata *)

Numbered(n) == [k \in 1 .. n |-> k]

\* A list of the first rows of a file, by number.
LEMMA NumberedFacts ==
    ASSUME NEW n \in Nat
    PROVE  /\ Numbered(n) \in Seq(Nat)
           /\ Len(Numbered(n)) = n
           /\ \A k \in 1 .. n : Numbered(n)[k] = k
           /\ Append(Numbered(n), n + 1) = Numbered(n + 1)
           /\ Numbered(0) = <<>>
  BY DEF Numbered

(***************************************************************************)
(* A reader that skips nothing reads file for STANDARD_VECTOR_SIZE entries  *)
(* at a time, and list has the rows that it is past.                        *)
(***************************************************************************)
Reads(r, file, list) ==
    /\ ReaderOK(r)
    /\ WholeChunks(r)
    /\ r.skip_deleted = FALSE
    /\ r.file = file
    /\ list = Numbered(Consumed(r))
    /\ Finished(r) => Consumed(r) = Len(file)

\* ScanAvroMetadata starts to read a file.
LEMMA ScanOpened ==
    ASSUME NEW file \in Seq(RowStatus)
    PROVE  Reads(ReadEntries(Initialize(NewReader(FALSE), file),
                             STANDARD_VECTOR_SIZE), file, <<>>)
  <1> DEFINE r == NewReader(FALSE)
             o == Initialize(r, file)
             s == ReadEntries(o, STANDARD_VECTOR_SIZE)
  <1>1. ReaderOK(r) /\ Finished(r) /\ r.skip_deleted = FALSE
    BY NewReaderOK DEF NewReader
  <1>2. WholeChunks(s)
    BY <1>1, OpenedWholeChunks
  <1> HIDE DEF r
  <1>3. /\ ReaderOK(o) /\ ~Finished(o) /\ o.file = file /\ o.at = "out"
        /\ o.skip_deleted = FALSE /\ Consumed(o) = 0
    BY <1>1, InitializeOK
  <1> HIDE DEF o
  <1>4. /\ ReaderOK(s) /\ ~Finished(s) /\ s.file = file
        /\ s.skip_deleted = FALSE /\ Consumed(s) = 0
    BY <1>3, VectorSizeAssumption, ReadEntriesOK
  <1> HIDE DEF s
  <1>5. Reads(s, file, <<>>)
    BY <1>2, <1>4, NumberedFacts DEF Reads
  <1> QED BY <1>5 DEF s, o, r

\* What a step of the scan's loop does to the reader and the list.
Scans(r, s, list, next) ==
    \/ /\ ReadLoop(r, s) \/ EndOfCallback(r, s)
       /\ next = list
    \/ /\ ProduceEntry(r, s)
       /\ next = IF Kept(r) THEN Append(list, Row(r)) ELSE list
    \/ /\ r.at = "out"
       /\ ~Finished(r)
       /\ s = ReadEntries(r, STANDARD_VECTOR_SIZE)
       /\ next = list

\* A step of the scan loses no row of the file and lists none twice.
LEMMA ScanReads ==
    ASSUME NEW r, NEW s, NEW file, NEW list, NEW next,
           Reads(r, file, list), Scans(r, s, list, next)
    PROVE  Reads(s, file, next)
  <1>1. /\ ReaderOK(r) /\ WholeChunks(r) /\ r.skip_deleted = FALSE
        /\ r.file = file /\ list = Numbered(Consumed(r))
        /\ SkipsLastChunk(r) /\ Consumed(r) \in Nat
    BY ConsumedNat DEF Reads, SkipsLastChunk
  <1>2. CASE ReadLoop(r, s) /\ next = list
    <2>1. WholeChunks(s) /\ Consumed(s) = Consumed(r)
      BY <1>1, <1>2, WholeChunksStep
    <2>2. /\ ReaderOK(s) /\ s.skip_deleted = FALSE /\ s.file = file
          /\ Finished(s) => Consumed(s) = Len(file)
      BY <1>1, <1>2, ReadLoopOK
    <2> QED BY <1>1, <1>2, <2>1, <2>2 DEF Reads
  <1>3. CASE EndOfCallback(r, s) /\ next = list
    <2>1. WholeChunks(s) /\ Consumed(s) = Consumed(r)
      BY <1>1, <1>3, WholeChunksStep
    <2>2. /\ ReaderOK(s) /\ s.skip_deleted = FALSE /\ s.file = file
          /\ ~Finished(s)
      BY <1>1, <1>3, EndOfCallbackOK
    <2> QED BY <1>1, <1>3, <2>1, <2>2 DEF Reads
  <1>4. CASE /\ ProduceEntry(r, s)
             /\ next = IF Kept(r) THEN Append(list, Row(r)) ELSE list
    <2>1. WholeChunks(s)
      BY <1>1, <1>4, WholeChunksStep
    <2>2. /\ ReaderOK(s) /\ s.skip_deleted = FALSE /\ s.file = file
          /\ ~Finished(s)
          /\ Row(r) = Consumed(r) + 1 /\ Consumed(s) = Row(r)
      BY <1>1, <1>4, ProduceEntryOK
    <2>3. next = Append(list, Row(r))
      BY <1>1, <1>4 DEF Kept
    <2>4. next = Numbered(Consumed(s))
      BY <1>1, <2>2, <2>3, NumberedFacts
    <2> QED BY <2>1, <2>2, <2>4 DEF Reads
  <1>5. CASE /\ r.at = "out" /\ ~Finished(r)
             /\ s = ReadEntries(r, STANDARD_VECTOR_SIZE)
             /\ next = list
    <2>1. WholeChunks(s)
      BY <1>1, <1>5, ContinuedWholeChunks
    <2>2. /\ ReaderOK(s) /\ s.skip_deleted = FALSE /\ s.file = file
          /\ ~Finished(s) /\ Consumed(s) = Consumed(r)
      BY <1>1, <1>5, VectorSizeAssumption, ReadEntriesOK
    <2> QED BY <1>1, <1>5, <2>1, <2>2 DEF Reads
  <1> QED BY <1>2, <1>3, <1>4, <1>5 DEF Scans

-----------------------------------------------------------------------------
(* The load *)

ManifestList == [k \in 1 .. Len(table) |-> "MANIFEST"]

\* What has been loaded: the manifests of the list in order, and of each that
\* is in entries all rows, by number.
LoadInv ==
    /\ table \in Tables
    /\ pc \in {"bind", "list", "manifests", "read", "idle", "rows"}
    /\ ReaderOK(reader)
    /\ manifests \in Seq(Nat)
    /\ manifest_paths \in Seq(Nat)
    /\ entries \in Seq(TableEntry)
    /\ Len(entries) <= Len(table)
    /\ \A k \in 1 .. Len(entries) :
           entries[k] = [manifest |-> k,
                         manifest_entries |-> Numbered(Len(table[k]))]
    /\ pc = "bind" => manifests = <<>>
    /\ pc \in {"bind", "list"} => entries = <<>>
    /\ pc = "list" => Reads(reader, ManifestList, manifests)
    /\ pc \notin {"bind", "list"} => manifests = Numbered(Len(table))
    /\ pc = "read" =>
           /\ Len(entries) < Len(table)
           /\ Reads(reader, table[Len(entries) + 1], manifest_paths)
    /\ pc \in {"idle", "rows"} => Len(entries) = Len(table)

\* A table is a sequence of files.
LEMMA TableFiles ==
    ASSUME table \in Tables
    PROVE  /\ table \in Seq(Seq(EntryStatus)) /\ Len(table) \in Nat
           /\ \A k \in 1 .. Len(table) : /\ table[k] \in Seq(RowStatus)
                                         /\ Len(table[k]) \in Nat
           /\ ManifestList \in Seq(RowStatus)
           /\ Len(ManifestList) = Len(table)
  <1>1. table \in Seq(Seq(EntryStatus)) /\ Len(table) \in Nat
    BY TablesAssumption
  <1>2. ASSUME NEW k \in 1 .. Len(table)
        PROVE  table[k] \in Seq(RowStatus) /\ Len(table[k]) \in Nat
    <2>1. table[k] \in Seq(EntryStatus) /\ EntryStatus \subseteq RowStatus
      BY <1>1 DEF RowStatus
    <2> QED BY <2>1, SeqMonotonic
  <1>3. ManifestList \in Seq(RowStatus) /\ Len(ManifestList) = Len(table)
    BY <1>1 DEF ManifestList, RowStatus
  <1> QED BY <1>1, <1>2, <1>3

\* A function that has not begun has loaded nothing.
LEMMA LoadInvInit == Init => LoadInv
  <1> SUFFICES ASSUME Init PROVE LoadInv
    OBVIOUS
  <1>1. ReaderOK(reader)
    BY NewReaderOK DEF Init
  <1>2. Len(entries) = 0 /\ Len(table) \in Nat
    BY TableFiles DEF Init
  <1>3. /\ manifests \in Seq(Nat) /\ manifest_paths \in Seq(Nat)
        /\ entries \in Seq(TableEntry)
    BY EmptySeq DEF Init
  <1>4. \A k \in 1 .. Len(entries) :
            entries[k] = [manifest |-> k,
                          manifest_entries |-> Numbered(Len(table[k]))]
    BY <1>2
  <1>5. Len(entries) <= Len(table)
    BY <1>2
  <1>6. /\ table \in Tables /\ pc = "bind" /\ manifests = <<>>
        /\ entries = <<>>
    BY DEF Init
  <1> QED BY <1>1, <1>3, <1>4, <1>5, <1>6 DEF LoadInv

\* The steps that read a file into a list.
LEMMA LoadInvRead ==
    ASSUME LoadInv,
           OpenManifestList \/ ReadManifestList \/ OpenManifest \/ ReadManifest
    PROVE  LoadInv'
  <1>1. CASE OpenManifestList
    <2>1. Reads(reader', ManifestList, <<>>)
      BY <1>1, ScanOpened, TableFiles
         DEF LoadInv, OpenManifestList, ScanAvroMetadata, ManifestList
    <2>2. ReaderOK(reader')
      BY <2>1 DEF Reads
    <2> QED BY <1>1, <2>1, <2>2
            DEF LoadInv, OpenManifestList, functionVars, ManifestList
  <1>2. CASE ReadManifestList
    <2>1. Scans(reader, reader', manifests, manifests')
      BY <1>2 DEF ReadManifestList, ScanStep, Scans
    <2>2. Reads(reader', ManifestList, manifests')
      BY <1>2, <2>1, ScanReads DEF ReadManifestList, LoadInv
    <2>3. ReaderOK(reader') /\ manifests' \in Seq(Nat)
      BY <2>2, ConsumedNat, NumberedFacts DEF Reads
    <2> QED BY <1>2, <2>2, <2>3
            DEF LoadInv, ReadManifestList, functionVars, ManifestList
  <1>3. CASE OpenManifest
    <2>1. /\ manifests = Numbered(Len(table)) /\ Len(table) \in Nat
          /\ Len(entries) \in Nat /\ pc = "manifests"
          /\ Len(entries) < Len(manifests)
      BY <1>3, TableFiles DEF LoadInv, OpenManifest
    <2>2. PICK n : n = Len(entries) + 1
      OBVIOUS
    <2>3. n \in 1 .. Len(table) /\ manifests[n] = n /\ Len(entries) < Len(table)
      <3>1. Len(manifests) = Len(table)
            /\ \A k \in 1 .. Len(table) : manifests[k] = k
        BY <2>1, NumberedFacts
      <3> QED BY <2>1, <2>2, <3>1
    <2>4. table[n] \in Seq(RowStatus)
      BY <2>3, TableFiles DEF LoadInv
    <2>5. Reads(reader', table[n], <<>>)
      BY <1>3, <2>2, <2>3, <2>4, ScanOpened
         DEF LoadInv, OpenManifest, ScanAvroMetadata
    <2>6. ReaderOK(reader')
      BY <2>5 DEF Reads
    <2> QED BY <1>3, <2>2, <2>3, <2>5, <2>6
            DEF LoadInv, OpenManifest, functionVars, ManifestList
  <1>4. CASE ReadManifest
    <2>1. Scans(reader, reader', manifest_paths, manifest_paths')
      BY <1>4 DEF ReadManifest, ScanStep, Scans
    <2>2. Reads(reader', table[Len(entries) + 1], manifest_paths')
      BY <1>4, <2>1, ScanReads DEF ReadManifest, LoadInv
    <2>3. ReaderOK(reader') /\ manifest_paths' \in Seq(Nat)
      BY <2>2, ConsumedNat, NumberedFacts DEF Reads
    <2> QED BY <1>4, <2>2, <2>3
            DEF LoadInv, ReadManifest, functionVars, ManifestList
  <1> QED BY <1>1, <1>2, <1>3, <1>4

\* The steps at the end of a file, and those of the function.
LEMMA LoadInvNext ==
    ASSUME LoadInv, [Next]_vars
    PROVE  LoadInv'
  <1>1. CASE OpenManifestList \/ ReadManifestList \/ OpenManifest \/ ReadManifest
    BY <1>1, LoadInvRead
  <1>2. CASE ManifestListRead
    <2>1. manifests = Numbered(Len(table))
      BY <1>2, TableFiles DEF LoadInv, ManifestListRead, ScanEnds, Reads
    <2> QED BY <1>2, <2>1
            DEF LoadInv, ManifestListRead, loadVars, functionVars, ManifestList
  <1>3. CASE ManifestRead
    <2>1. /\ Len(table) \in Nat /\ Len(entries) \in Nat
          /\ Len(entries) < Len(table) /\ pc = "read"
          /\ manifests = Numbered(Len(table))
          /\ entries \in Seq(TableEntry)
      BY <1>3, TableFiles DEF LoadInv, ManifestRead
    <2>2. PICK n : n = Len(entries) + 1
      OBVIOUS
    <2>3. n \in 1 .. Len(table) /\ manifests[n] = n
      <3>1. Len(manifests) = Len(table)
            /\ \A k \in 1 .. Len(table) : manifests[k] = k
        BY <2>1, NumberedFacts
      <3> QED BY <2>1, <2>2, <3>1
    <2>4. manifest_paths = Numbered(Len(table[n])) /\ Len(table[n]) \in Nat
      BY <1>3, <2>2, <2>3, TableFiles
         DEF LoadInv, ManifestRead, ScanEnds, Reads
    <2>5. PICK e : e = [manifest |-> n,
                        manifest_entries |-> Numbered(Len(table[n]))]
      OBVIOUS
    <2>6. e \in TableEntry
      <3>1. Numbered(Len(table[n])) \in Seq(Nat)
        BY <2>4, NumberedFacts, Zenon
      <3>2. n \in Nat
        BY <2>1, <2>2
      <3> QED BY <2>5, <3>1, <3>2 DEF TableEntry
    <2>7. entries' = Append(entries, e)
      BY <1>3, <2>2, <2>3, <2>4, <2>5 DEF ManifestRead
    <2>8. /\ entries' \in Seq(TableEntry) /\ Len(entries') = n
          /\ \A k \in 1 .. Len(entries) : entries'[k] = entries[k]
          /\ entries'[n] = e
      BY <2>1, <2>2, <2>6, <2>7, AppendProperties
    <2>9. \A k \in 1 .. Len(entries') :
              entries'[k] = [manifest |-> k,
                             manifest_entries |-> Numbered(Len(table[k]))]
      <3>1. \A k \in 1 .. Len(entries') : k \in 1 .. Len(entries) \/ k = n
        BY <2>1, <2>2, <2>8
      <3>2. \A k \in 1 .. Len(entries) :
                entries[k] = [manifest |-> k,
                              manifest_entries |-> Numbered(Len(table[k]))]
        BY DEF LoadInv
      <3> QED BY <2>5, <2>8, <3>1, <3>2, Zenon
    <2>10. Len(entries') <= Len(table)
      BY <2>1, <2>3, <2>8
    <2> QED BY <1>3, <2>1, <2>8, <2>9, <2>10
            DEF LoadInv, ManifestRead, functionVars, ManifestList
  <1>4. CASE Loaded
    <2>1. Len(entries) = Len(table)
      BY <1>4, NumberedFacts, TableFiles DEF LoadInv, Loaded
    <2> QED BY <1>4, <2>1
            DEF LoadInv, Loaded, loadVars, functionVars, ManifestList
  <1>5. CASE Function \/ UNCHANGED vars
    <2>1. /\ UNCHANGED <<table, loadVars>>
          /\ \/ pc' = pc
             \/ pc \in {"idle", "rows"} /\ pc' \in {"idle", "rows"}
      BY <1>5 DEF Function, Call, OutputEntry, NextManifest, Return, vars
    <2> QED BY <2>1 DEF LoadInv, loadVars, ManifestList
  <1> QED BY <1>1, <1>2, <1>3, <1>4, <1>5 DEF Next, Load

-----------------------------------------------------------------------------
(* The table function iceberg_metadata *)

ManifestRows(k, n) == [j \in 1 .. n |-> <<k, j>>]
TableRows == [k \in 1 .. Len(table) |-> ManifestRows(k, Len(table[k]))]

\* The rows that the function has output so far.
Delivered == IF pc = "rows" THEN received \o output ELSE received

(***************************************************************************)
(* The two indexes point behind the rows that were output: those of the     *)
(* manifests before the current one, and the first ones of the current one. *)
(***************************************************************************)
FunctionInv ==
    /\ current_manifest_idx \in 0 .. Len(entries)
    /\ current_manifest_entry_idx \in Nat
    /\ current_manifest_idx = Len(entries) => current_manifest_entry_idx = 0
    /\ MoreManifests =>
           current_manifest_entry_idx <= Len(table[current_manifest_idx + 1])
    /\ output \in Seq(OutputRow)
    /\ received \in Seq(OutputRow)
    /\ ended \in BOOLEAN
    /\ Len(output) <= STANDARD_VECTOR_SIZE
    /\ pc \notin {"idle", "rows"} => /\ current_manifest_idx = 0
                                     /\ current_manifest_entry_idx = 0
    /\ pc = "rows" => ended = FALSE
    /\ Delivered = FirstSeqs(TableRows, current_manifest_idx)
                       \o ManifestRows(current_manifest_idx + 1,
                                       current_manifest_entry_idx)

\* The rows of the first n entries of manifest k, and of one more.
LEMMA ManifestRowsFacts ==
    ASSUME NEW k \in Nat, NEW n \in Nat
    PROVE  /\ ManifestRows(k, n) \in Seq(OutputRow)
           /\ Len(ManifestRows(k, n)) = n
           /\ Append(ManifestRows(k, n), <<k, n + 1>>) = ManifestRows(k, n + 1)
           /\ ManifestRows(k, 0) = <<>>
  BY DEF ManifestRows, OutputRow

\* The rows of a table, manifest by manifest.
LEMMA TableRowsFacts ==
    ASSUME table \in Tables
    PROVE  /\ TableRows \in Seq(Seq(OutputRow))
           /\ Len(TableRows) = Len(table)
           /\ \A k \in 1 .. Len(table) :
                  TableRows[k] = ManifestRows(k, Len(table[k]))
           /\ AllRows = FlattenSeq(TableRows)
  <1>1. /\ Len(table) \in Nat
        /\ \A k \in 1 .. Len(table) : Len(table[k]) \in Nat
    BY TableFiles
  <1>2. ASSUME NEW k \in 1 .. Len(table)
        PROVE  ManifestRows(k, Len(table[k])) \in Seq(OutputRow)
    <2>1. k \in Nat /\ Len(table[k]) \in Nat
      BY <1>1
    <2> QED BY <2>1, ManifestRowsFacts, Zenon
  <1>3. AllRows = FlattenSeq(TableRows)
    BY Zenon DEF AllRows, TableRows, ManifestRows
  <1>4. /\ TableRows \in Seq(Seq(OutputRow))
        /\ Len(TableRows) = Len(table)
        /\ \A k \in 1 .. Len(table) :
               TableRows[k] = ManifestRows(k, Len(table[k]))
    BY <1>1, <1>2 DEF TableRows
  <1> QED BY <1>3, <1>4

\* The invariant of iceberg_metadata holds before its first chunk.
LEMMA FunctionInvInit == Init => FunctionInv
  <1> SUFFICES ASSUME Init PROVE FunctionInv
    OBVIOUS
  <1>1. /\ pc = "bind" /\ received = <<>> /\ output = <<>> /\ entries = <<>>
        /\ current_manifest_idx = 0 /\ current_manifest_entry_idx = 0
        /\ ended = FALSE /\ Len(entries) = 0
        /\ table \in Tables
    BY DEF Init
  <1>2. /\ FirstSeqs(TableRows, 0) = <<>> /\ ManifestRows(1, 0) = <<>>
        /\ <<>> \o <<>> = <<>>
    BY <1>1, TableRowsFacts, FlattenSteps, ManifestRowsFacts
  <1>3. Delivered = <<>>
    BY <1>1 DEF Delivered
  <1>4. Delivered = FirstSeqs(TableRows, current_manifest_idx)
                        \o ManifestRows(current_manifest_idx + 1,
                                        current_manifest_entry_idx)
    BY <1>1, <1>2, <1>3
  <1>5. /\ output \in Seq(OutputRow) /\ received \in Seq(OutputRow)
        /\ Len(output) <= STANDARD_VECTOR_SIZE
    BY <1>1, EmptySeq, VectorSizeAssumption
  <1>6. ~MoreManifests /\ current_manifest_idx \in 0 .. Len(entries)
    BY <1>1 DEF MoreManifests
  <1>7. current_manifest_entry_idx \in Nat /\ ended \in BOOLEAN
        /\ pc # "rows"
    BY <1>1
  <1> HIDE DEF Init
  <1> QED BY <1>1, <1>4, <1>5, <1>6, <1>7 DEF FunctionInv

\* While the table is loaded the function has not been called.
LEMMA FunctionInvLoad ==
    ASSUME LoadInv, FunctionInv, Load
    PROVE  FunctionInv'
  <1>1. /\ UNCHANGED <<table, functionVars>>
        /\ pc \notin {"idle", "rows"} /\ pc' # "rows"
    BY DEF Load, OpenManifestList, ReadManifestList, ManifestListRead,
           OpenManifest, ReadManifest, ManifestRead, Loaded, ScanAvroMetadata
  <1>2. /\ current_manifest_idx = 0 /\ current_manifest_entry_idx = 0
        /\ Len(entries) \in Nat
        /\ Len(entries') \in Nat
    BY <1>1, LoadInvNext DEF FunctionInv, LoadInv, Next
  <1>3. /\ Delivered = received /\ Delivered' = received'
        /\ TableRows' = TableRows
    BY <1>1 DEF Delivered, TableRows, functionVars
  <1>4. MoreManifests' =>
            0 <= Len(table'[1])
    BY <1>1, <1>2, LoadInvNext, TableFiles DEF LoadInv, MoreManifests, Next, functionVars
  <1> QED BY <1>1, <1>2, <1>3, <1>4 DEF FunctionInv, functionVars, MoreManifests

\* The first rows of the table, and those that a call has output.
LEMMA DeliveredFacts ==
    ASSUME LoadInv, FunctionInv, pc \in {"idle", "rows"}
    PROVE  /\ Len(entries) = Len(table) /\ Len(table) \in Nat
           /\ current_manifest_idx \in 0 .. Len(table)
           /\ FirstSeqs(TableRows, current_manifest_idx) \in Seq(OutputRow)
           /\ ManifestRows(current_manifest_idx + 1, current_manifest_entry_idx)
                  \in Seq(OutputRow)
           /\ Delivered \in Seq(OutputRow)
           /\ MoreManifests =>
                  /\ current_manifest_idx + 1 \in 1 .. Len(table)
                  /\ Len(table[current_manifest_idx + 1]) \in Nat
                  /\ Current.manifest = current_manifest_idx + 1
                  /\ Current.manifest_entries
                         = Numbered(Len(table[current_manifest_idx + 1]))
  <1>1. /\ Len(entries) = Len(table) /\ Len(table) \in Nat
        /\ current_manifest_idx \in 0 .. Len(table)
        /\ current_manifest_idx + 1 \in Nat
        /\ current_manifest_entry_idx \in Nat
    BY TableFiles DEF LoadInv, FunctionInv
  <1>2. FirstSeqs(TableRows, current_manifest_idx) \in Seq(OutputRow)
    BY <1>1, TableRowsFacts, FlattenPrefix DEF LoadInv
  <1>3. ManifestRows(current_manifest_idx + 1, current_manifest_entry_idx)
            \in Seq(OutputRow)
    BY <1>1, ManifestRowsFacts, Zenon
  <1>4. Delivered \in Seq(OutputRow)
    BY <1>2, <1>3, ConcatProperties DEF FunctionInv
  <1>5. ASSUME MoreManifests
        PROVE  /\ current_manifest_idx + 1 \in 1 .. Len(table)
               /\ Len(table[current_manifest_idx + 1]) \in Nat
               /\ Current.manifest = current_manifest_idx + 1
               /\ Current.manifest_entries
                      = Numbered(Len(table[current_manifest_idx + 1]))
    <2>1. PICK k : k = current_manifest_idx + 1
      OBVIOUS
    <2>2. k \in 1 .. Len(table)
      BY <1>1, <1>5, <2>1 DEF MoreManifests
    <2>3. Len(table[k]) \in Nat
      BY <2>2, TableFiles DEF LoadInv
    <2>4. entries[k] = [manifest |-> k,
                        manifest_entries |-> Numbered(Len(table[k]))]
      BY <1>1, <2>2 DEF LoadInv
    <2> QED BY <2>1, <2>2, <2>3, <2>4 DEF Current
  <1> QED BY <1>1, <1>2, <1>3, <1>4, <1>5

\* Each step of the function outputs the next row, or moves on, or hands out
\* what it has output.
LEMMA FunctionInvFunction ==
    ASSUME LoadInv, FunctionInv, Function
    PROVE  FunctionInv'
  <1>1. /\ UNCHANGED <<table, entries>> /\ TableRows' = TableRows
        /\ pc \in {"idle", "rows"} /\ pc' \in {"idle", "rows"}
    BY DEF Function, Call, OutputEntry, NextManifest, Return, loadVars, TableRows
  <1>2. /\ Len(table) \in Nat /\ Len(entries) = Len(table)
        /\ current_manifest_idx \in 0 .. Len(table)
        /\ current_manifest_entry_idx \in Nat
        /\ output \in Seq(OutputRow) /\ received \in Seq(OutputRow)
        /\ Len(output) \in Nat
        /\ STANDARD_VECTOR_SIZE \in Nat
    <2>1. /\ Len(table) \in Nat /\ Len(entries) = Len(table)
          /\ current_manifest_idx \in 0 .. Len(table)
      BY <1>1, DeliveredFacts
    <2>2. /\ current_manifest_entry_idx \in Nat
          /\ output \in Seq(OutputRow) /\ received \in Seq(OutputRow)
      BY DEF FunctionInv
    <2> QED BY <2>1, <2>2, LenProperties, VectorSizeAssumption
  <1>3. CASE Call
    <2>1. /\ output' = <<>> /\ pc = "idle" /\ pc' = "rows"
          /\ UNCHANGED <<current_manifest_idx, current_manifest_entry_idx,
                         received, ended>>
          /\ ended = FALSE
      BY <1>3 DEF Call, FunctionInv
    <2>2. /\ output' \in Seq(OutputRow) /\ Len(output') = 0
          /\ received \o <<>> = received
      BY <1>2, <2>1, EmptySeq, ConcatEmptySeq
    <2>3. Delivered' = Delivered
      BY <2>1, <2>2 DEF Delivered
    <2> QED BY <1>1, <1>2, <2>1, <2>2, <2>3 DEF FunctionInv, MoreManifests
  <1>4. CASE OutputEntry
    <2>1. PICK k : k = current_manifest_idx + 1
      OBVIOUS
    <2>2. PICK n : n = current_manifest_entry_idx
      OBVIOUS
    <2>3. /\ k \in 1 .. Len(table) /\ Len(table[k]) \in Nat
          /\ Current.manifest = k
          /\ Current.manifest_entries = Numbered(Len(table[k]))
          /\ MoreManifests
      BY <1>1, <1>4, <2>1, DeliveredFacts DEF OutputEntry, MoreEntries
    <2>4. n \in Nat /\ n < Len(table[k])
      BY <1>2, <1>4, <2>2, <2>3, NumberedFacts DEF OutputEntry, MoreEntries
    <2>5. Current.manifest_entries[n + 1] = n + 1
      <3>1. \A j \in 1 .. Len(table[k]) : Numbered(Len(table[k]))[j] = j
        BY <2>3, NumberedFacts
      <3>2. n + 1 \in 1 .. Len(table[k])
        BY <2>3, <2>4
      <3> QED BY <2>3, <3>1, <3>2
    <2>6. /\ output' = Append(output, <<k, n + 1>>)
          /\ current_manifest_entry_idx' = n + 1
          /\ UNCHANGED <<current_manifest_idx, received, ended, pc>>
          /\ pc = "rows" /\ Len(output) < STANDARD_VECTOR_SIZE
      BY <1>4, <2>2, <2>3, <2>5 DEF OutputEntry
    <2>7. <<k, n + 1>> \in OutputRow
      BY <2>3, <2>4 DEF OutputRow
    <2>8. /\ output' \in Seq(OutputRow) /\ Len(output') = Len(output) + 1
      BY <1>2, <2>6, <2>7, AppendProperties
    <2>9. Delivered' = Append(Delivered, <<k, n + 1>>)
      BY <1>2, <2>6, <2>7, SMTT(40) DEF Delivered
    <2>10. Delivered' = FirstSeqs(TableRows, current_manifest_idx)
                            \o ManifestRows(k, n + 1)
      <3>1. PICK a : a = FirstSeqs(TableRows, current_manifest_idx)
        OBVIOUS
      <3>2. PICK b : b = ManifestRows(k, n)
        OBVIOUS
      <3>3. /\ a \in Seq(OutputRow) /\ b \in Seq(OutputRow)
            /\ Delivered = a \o b
        BY <1>1, <2>1, <2>2, <3>1, <3>2, DeliveredFacts DEF FunctionInv
      <3>4. Append(a \o b, <<k, n + 1>>) = a \o Append(b, <<k, n + 1>>)
        <4>1. PICK e \in OutputRow : e = <<k, n + 1>>
          BY <2>7
        <4>2. a \in Seq(OutputRow) /\ b \in Seq(OutputRow) /\ e \in OutputRow
          BY <3>3, <4>1
        <4>3. Append(a \o b, e) = a \o Append(b, e)
          <5>1. a \o b \in Seq(OutputRow) /\ <<e>> \in Seq(OutputRow)
            BY <4>2, ConcatProperties
          <5>2. /\ Append(a \o b, e) = (a \o b) \o <<e>>
                /\ Append(b, e) = b \o <<e>>
            BY <4>2, <5>1, AppendIsConcat
          <5>3. (a \o b) \o <<e>> = a \o (b \o <<e>>)
            BY <4>2, <5>1, ConcatAssociative
          <5> QED BY <5>2, <5>3
        <4> QED BY <4>1, <4>3
      <3>5. Append(b, <<k, n + 1>>) = ManifestRows(k, n + 1)
        <4>1. k \in Nat
          BY <2>3
        <4> QED BY <2>4, <3>2, <4>1, ManifestRowsFacts, Zenon
      <3> QED BY <2>9, <3>1, <3>3, <3>4, <3>5
    <2> QED BY <1>1, <1>2, <2>1, <2>2, <2>3, <2>4, <2>6, <2>8, <2>10, SMTT(40)
            DEF FunctionInv, MoreManifests
  <1>5. CASE NextManifest
    <2>1. PICK k : k = current_manifest_idx + 1
      OBVIOUS
    <2>2. /\ k \in 1 .. Len(table) /\ Len(table[k]) \in Nat
          /\ Current.manifest_entries = Numbered(Len(table[k]))
          /\ MoreManifests
      BY <1>1, <1>5, <2>1, DeliveredFacts DEF NextManifest
    <2>3. current_manifest_entry_idx = Len(table[k])
      <3>1. current_manifest_entry_idx <= Len(table[k])
        BY <2>1, <2>2 DEF FunctionInv
      <3>2. Len(Current.manifest_entries) = Len(table[k])
        BY <2>2, NumberedFacts
      <3>3. ~(current_manifest_entry_idx < Len(Current.manifest_entries))
        BY <1>5, <2>2 DEF NextManifest, MoreEntries
      <3> QED BY <1>2, <2>2, <3>1, <3>2, <3>3
    <2>4. /\ current_manifest_idx' = k /\ current_manifest_entry_idx' = 0
          /\ UNCHANGED <<output, received, ended, pc>>
          /\ Delivered' = Delivered
      BY <1>5, <2>1 DEF NextManifest, Delivered
    <2>5. FirstSeqs(TableRows, k)
              = FirstSeqs(TableRows, current_manifest_idx)
                    \o ManifestRows(k, Len(table[k]))
      <3>1. /\ TableRows \in Seq(Seq(OutputRow)) /\ Len(TableRows) = Len(table)
            /\ TableRows[k] = ManifestRows(k, Len(table[k]))
        BY <2>2, TableRowsFacts DEF LoadInv
      <3>2. current_manifest_idx \in 0 .. Len(TableRows) - 1
        BY <1>2, <2>1, <2>2, <3>1
      <3>3. FirstSeqs(TableRows, current_manifest_idx + 1)
                = FirstSeqs(TableRows, current_manifest_idx)
                      \o TableRows[current_manifest_idx + 1]
        BY <3>1, <3>2, FlattenSteps, Zenon
      <3> QED BY <2>1, <3>1, <3>3
    <2>6. Delivered = FirstSeqs(TableRows, k)
      BY <2>1, <2>3, <2>5 DEF FunctionInv
    <2>7. Delivered' = FirstSeqs(TableRows, k) \o ManifestRows(k + 1, 0)
      <3>1. FirstSeqs(TableRows, k) \in Seq(OutputRow)
        BY <1>1, <2>6, DeliveredFacts
      <3>2. ManifestRows(k + 1, 0) = <<>>
        BY <2>2, ManifestRowsFacts
      <3> QED BY <2>4, <2>6, <3>1, <3>2, ConcatEmptySeq
    <2>8. MoreManifests' => 0 <= Len(table[k + 1])
      BY <1>1, <1>2, <2>2, <2>4, TableFiles DEF MoreManifests, LoadInv
    <2>9. /\ k \in 0 .. Len(entries') /\ 0 \in Nat
          /\ output' \in Seq(OutputRow) /\ received' \in Seq(OutputRow)
          /\ ended' \in BOOLEAN /\ Len(output') <= STANDARD_VECTOR_SIZE
          /\ pc' = "rows" => ended' = FALSE
      BY <1>1, <1>2, <2>2, <2>4 DEF FunctionInv
    <2> QED BY <1>1, <2>4, <2>7, <2>8, <2>9 DEF FunctionInv
  <1>6. CASE Return
    <2>1. /\ received' = received \o output /\ ended' \in BOOLEAN
          /\ pc = "rows" /\ pc' = "idle"
          /\ UNCHANGED <<current_manifest_idx, current_manifest_entry_idx,
                         output>>
      BY <1>6 DEF Return
    <2>2. Delivered' = Delivered /\ received' \in Seq(OutputRow)
      BY <1>2, <2>1, ConcatProperties DEF Delivered
    <2> QED BY <1>1, <1>2, <2>1, <2>2 DEF FunctionInv, MoreManifests
  <1> QED BY <1>3, <1>4, <1>5, <1>6 DEF Function

\* The invariant over both functions: iceberg_snapshots changes nothing here.
LEMMA MetadataInvariant == FunctionsSpec => [](LoadInv /\ FunctionInv)
  <1>1. FunctionsInit => LoadInv /\ FunctionInv
    BY LoadInvInit, FunctionInvInit DEF FunctionsInit
  <1>2. ASSUME LoadInv, FunctionInv,
               [FunctionsNext]_<<vars, snapshotsVars>>
        PROVE  LoadInv' /\ FunctionInv'
    <2>1. [Next]_vars
      BY <1>2 DEF FunctionsNext
    <2>2. LoadInv'
      BY <1>2, <2>1, LoadInvNext
    <2>3. CASE Load
      BY <1>2, <2>2, <2>3, FunctionInvLoad
    <2>4. CASE Function
      BY <1>2, <2>2, <2>4, FunctionInvFunction
    <2>5. CASE UNCHANGED vars
      BY <1>2, <2>2, <2>5
         DEF vars, loadVars, functionVars, FunctionInv, Delivered,
             MoreManifests, TableRows
    <2> QED BY <2>1, <2>2, <2>3, <2>4, <2>5 DEF Next
  <1> QED BY <1>1, <1>2, PTL DEF FunctionsSpec

\* Whatever the table and wherever chunks end, the lists that the load builds
\* and the indexes that the function keeps stay within what they index.
THEOREM TypeCorrect == FunctionsSpec => []TypeOK
  <1>1. ASSUME LoadInv, FunctionInv
        PROVE  TypeOK
    BY <1>1 DEF LoadInv, FunctionInv, ReaderOK, TypeOK
  <1> QED BY <1>1, MetadataInvariant, PTL

-----------------------------------------------------------------------------
(* The abstract stream of rows *)

\* A call that returns hands out the chunk that the abstract stream has next: a
\* full one, or all that is left.
LEMMA ReturnIsChunk ==
    ASSUME LoadInv, FunctionInv, Return
    PROVE  output = Stream!Chunk
  <1> DEFINE n == Len(received)
             V == STANDARD_VECTOR_SIZE
  <1>1. /\ pc = "rows" /\ Delivered = received \o output
        /\ output \in Seq(OutputRow) /\ received \in Seq(OutputRow)
        /\ Len(output) <= V /\ V \in Nat /\ 0 < V
        /\ n \in Nat /\ Len(output) \in Nat
    BY VectorSizeAssumption DEF Return, FunctionInv, Delivered
  <1>2. PICK t \in Seq(OutputRow) :
            /\ AllRows = received \o output \o t
            /\ ~MoreManifests => t = <<>>
    <2>1. PICK k : k = current_manifest_idx
      OBVIOUS
    <2>2. PICK a : a = ManifestRows(k + 1, current_manifest_entry_idx)
      OBVIOUS
    <2>3. /\ k \in 0 .. Len(table) /\ Len(table) \in Nat
          /\ Len(entries) = Len(table)
          /\ a \in Seq(OutputRow)
          /\ FirstSeqs(TableRows, k) \in Seq(OutputRow)
          /\ received \o output = FirstSeqs(TableRows, k) \o a
      BY <1>1, <2>1, <2>2, DeliveredFacts DEF FunctionInv
    <2>4. /\ TableRows \in Seq(Seq(OutputRow))
          /\ Len(TableRows) = Len(table)
          /\ AllRows = FlattenSeq(TableRows)
      BY TableRowsFacts DEF LoadInv
    <2>5. CASE MoreManifests
      <3>1. PICK m : m = Len(table[k + 1])
        OBVIOUS
      <3>2. /\ k + 1 \in 1 .. Len(table) /\ m \in Nat
            /\ k \in 0 .. Len(TableRows) - 1
            /\ k + 1 \in 0 .. Len(TableRows) /\ k + 1 \in Nat
        BY <1>1, <2>1, <2>3, <2>4, <2>5, <3>1, DeliveredFacts
      <3>3. FirstSeqs(TableRows, k + 1)
                = FirstSeqs(TableRows, k) \o ManifestRows(k + 1, m)
        BY <2>4, <3>1, <3>2, FlattenSteps, TableRowsFacts DEF LoadInv
      <3>4. PICK u \in Seq(OutputRow) :
                AllRows = FirstSeqs(TableRows, k + 1) \o u
        BY <2>4, <3>2, FlattenPrefix
      <3>5. PICK b \in Seq(OutputRow) : ManifestRows(k + 1, m) = a \o b
        <4>1. PICK e : e = current_manifest_entry_idx
          OBVIOUS
        <4>2. e \in Nat /\ e <= m
          BY <2>1, <2>5, <3>1, <4>1 DEF FunctionInv
        <4> DEFINE c == ManifestRows(k + 1, m)
                   b == SubSeq(c, e + 1, m)
        <4>3. c \in Seq(OutputRow) /\ Len(c) = m
          BY <3>2, ManifestRowsFacts, Zenon
        <4>4. SubSeq(c, 1, e) = a
          BY <2>2, <3>2, <4>1, <4>2 DEF ManifestRows
        <4> HIDE DEF c
        <4>5. SubSeq(c, 1, e) \o SubSeq(c, e + 1, m) = SubSeq(c, 1, m)
          <5>1. /\ 1 \in 1 .. Len(c) + 1
                /\ e \in 1 - 1 .. Len(c)
                /\ m \in e .. Len(c)
            BY <4>2, <4>3
          <5> QED BY <4>3, <5>1, ConcatAdjacentSubSeq, Zenon
        <4>6. SubSeq(c, 1, m) = c
          BY <4>3, SubSeqFull
        <4>7. b \in Seq(OutputRow)
          BY <4>2, <4>3
        <4> QED BY <4>4, <4>5, <4>6, <4>7 DEF c
      <3>6. AllRows = (received \o output) \o (b \o u)
        <4>1. Associates(OutputRow)
          BY Associative, Zenon
        <4>2. \A x, y \in Seq(OutputRow) : x \o y \in Seq(OutputRow)
          BY ConcatProperties
        <4>3. PICK f \in Seq(OutputRow) : f = FirstSeqs(TableRows, k)
          BY <2>3
        <4>4. AllRows = (f \o (a \o b)) \o u
          BY <3>3, <3>4, <3>5, <4>3
        <4>5. AllRows = ((f \o a) \o b) \o u
          BY <2>3, <3>5, <4>1, <4>3, <4>4, Zenon DEF Associates
        <4>6. AllRows = (f \o a) \o (b \o u)
          <5>1. PICK g \in Seq(OutputRow) : g = f \o a
            BY <2>3, <4>2, <4>3
          <5> QED BY <3>4, <3>5, <4>1, <4>5, <5>1, ZenonT(60) DEF Associates
        <4> QED BY <2>3, <4>3, <4>6
      <3>7. b \o u \in Seq(OutputRow)
        BY ConcatProperties
      <3> QED BY <2>5, <3>6, <3>7
    <2>6. CASE ~MoreManifests
      <3>1. k = Len(table) /\ a = <<>>
        <4>1. k = Len(table)
          BY <2>1, <2>3, <2>6 DEF MoreManifests
        <4>2. current_manifest_entry_idx = 0
          BY <2>1, <2>3, <4>1 DEF FunctionInv
        <4>3. k + 1 \in Nat
          BY <2>3
        <4> QED BY <2>2, <4>1, <4>2, <4>3, ManifestRowsFacts, Zenon
      <3>2. AllRows = FirstSeqs(TableRows, k)
        BY <2>4, <3>1, FlattenSteps
      <3>3. /\ AllRows = received \o output
            /\ received \o output \in Seq(OutputRow)
        BY <2>3, <3>1, <3>2, ConcatEmptySeq
      <3>4. AllRows = (received \o output) \o <<>> /\ <<>> \in Seq(OutputRow)
        BY <3>3, ConcatEmptySeq, EmptySeq
      <3> QED BY <2>6, <3>4
    <2> QED BY <2>5, <2>6
  <1>3. /\ AllRows \in Seq(OutputRow)
        /\ Len(AllRows) = n + Len(output) + Len(t)
        /\ Len(t) \in Nat
        /\ \A i \in 1 .. Len(output) : AllRows[n + i] = output[i]
    BY <1>1, <1>2
  <1>4. \/ Len(output) = V
        \/ Len(t) = 0
    BY <1>1, <1>2 DEF Return
  <1>5. (IF Len(AllRows) - n < V THEN Len(AllRows) ELSE n + V)
            = n + Len(output)
    <2>1. PICK l \in Nat : l = Len(output)
      BY <1>1
    <2>2. PICK r \in Nat : r = Len(t)
      BY <1>3
    <2>3. Len(AllRows) = n + l + r /\ l <= V /\ (l = V \/ r = 0)
      BY <1>1, <1>3, <1>4, <2>1, <2>2
    <2>4. n \in Nat /\ V \in Nat
      BY <1>1
    <2> HIDE DEF n, V
    <2> QED BY <2>1, <2>2, <2>3, <2>4
  <1>6. Stream!Chunk = SubSeq(AllRows, n + 1, n + Len(output))
    BY <1>5 DEF Stream!Chunk
  <1>7. SubSeq(AllRows, n + 1, n + Len(output)) = output
    <2>1. PICK s : s = SubSeq(AllRows, n + 1, n + Len(output))
      OBVIOUS
    <2>2. /\ s \in Seq(OutputRow) /\ Len(s) = Len(output)
          /\ \A i \in 1 .. Len(output) : s[i] = AllRows[n + i]
      BY <1>1, <1>3, <2>1, SMTT(40)
    <2>3. s = output
      BY <1>1, <1>3, <2>2, SeqEqual
    <2> QED BY <2>1, <2>3
  <1> QED BY <1>6, <1>7

\* iceberg_metadata takes no step that the abstract stream does not allow: each
\* call returns the next rows of the table, as many as fit in a chunk, and the
\* first empty chunk comes when all rows of all manifests have been returned.
THEOREM RefinesRowStream ==
    FunctionsSpec => Stream!Init /\ [][Stream!Call]_(Stream!vars)
  <1>1. FunctionsInit => Stream!Init
    BY DEF FunctionsInit, Init, Stream!Init
  <1>2. ASSUME LoadInv, FunctionInv,
               [FunctionsNext]_<<vars, snapshotsVars>>
        PROVE  [Stream!Call]_(Stream!vars)
    <2>1. CASE Return /\ UNCHANGED snapshotsVars
      <3>1. output = Stream!Chunk
        BY <1>2, <2>1, ReturnIsChunk
      <3>2. /\ pc = "rows" /\ ended = FALSE
            /\ received' = received \o output
            /\ ended' = (output = <<>>)
            /\ table' = table
        BY <1>2, <2>1 DEF Return, FunctionInv
      <3>3. AllRows' = AllRows
        BY <3>2 DEF AllRows
      <3> QED BY <3>1, <3>2, <3>3 DEF Stream!Call
    <2>2. CASE \/ Load \/ Call \/ OutputEntry \/ NextManifest
               \/ UNCHANGED vars
      <3>1. UNCHANGED <<table, received, ended>>
        BY <2>2 DEF Load, OpenManifestList, ReadManifestList, ManifestListRead,
                    OpenManifest, ReadManifest, ManifestRead, Loaded, Call,
                    OutputEntry, NextManifest, functionVars, vars
      <3>2. AllRows' = AllRows
        BY <3>1 DEF AllRows
      <3> QED BY <3>1, <3>2 DEF Stream!vars
    <2> QED BY <1>2, <2>1, <2>2 DEF FunctionsNext, Next, Function
  <1> QED BY <1>1, <1>2, MetadataInvariant, PTL DEF FunctionsSpec

-----------------------------------------------------------------------------
(* The table function iceberg_snapshots *)

\* The snapshots that the function has output so far.
SnapshotsDelivered ==
    IF snapshots_pc = "loop" THEN snapshots_received \o snapshots_output
    ELSE snapshots_received

\* The iterator is r snapshots into the block of STANDARD_VECTOR_SIZE + 1 after
\* the first q, and of each block the last snapshot is lost.
IteratorAt(q, r) ==
    /\ snapshot_it = q * (STANDARD_VECTOR_SIZE + 1) + r
    /\ Len(SnapshotsDelivered) = q * STANDARD_VECTOR_SIZE + r
    /\ snapshots_pc = "loop" =>
           \/ r = Len(snapshots_output)
           \/ snapshots_output = <<>> /\ snapshot_it = snapshots
    /\ snapshots_pc = "idle" => r = 0 \/ snapshot_it = snapshots

SnapshotsInv ==
    /\ snapshots \in Nat
    /\ snapshot_it \in 0 .. snapshots
    /\ snapshots_output \in Seq(Nat)
    /\ snapshots_received \in Seq(Nat)
    /\ snapshots_ended \in BOOLEAN
    /\ snapshots_pc \in {"idle", "loop"}
    /\ Len(snapshots_output) <= STANDARD_VECTOR_SIZE
    /\ snapshots_pc = "loop" => snapshots_ended = FALSE
    /\ snapshots_ended => snapshot_it = snapshots
    /\ \A j \in 1 .. Len(SnapshotsDelivered) :
           SnapshotsDelivered[j] = j + (j - 1) \div STANDARD_VECTOR_SIZE
    /\ \E q \in Nat : \E r \in 0 .. STANDARD_VECTOR_SIZE : IteratorAt(q, r)

\* A remainder does not change a quotient.
LEMMA Quotient ==
    ASSUME NEW q \in Nat, NEW m \in Nat \ {0}, NEW r \in 0 .. m - 1
    PROVE  (q * m + r) \div m = q
  OBVIOUS

\* The invariant of iceberg_snapshots holds before its first chunk.
LEMMA SnapshotsInvInit == Snapshots!Init => SnapshotsInv
  <1> SUFFICES ASSUME Snapshots!Init PROVE SnapshotsInv
    OBVIOUS
  <1>1. /\ snapshots \in Nat /\ snapshot_it = 0
        /\ snapshots_output = <<>> /\ snapshots_received = <<>>
        /\ snapshots_ended = FALSE /\ snapshots_pc = "idle"
    BY CountsAssumption DEF Snapshots!Init
  <1>2. SnapshotsDelivered = <<>>
    BY <1>1 DEF SnapshotsDelivered
  <1>3. IteratorAt(0, 0)
    BY <1>1, <1>2, VectorSizeAssumption DEF IteratorAt
  <1>4. 0 \in Nat /\ 0 \in 0 .. STANDARD_VECTOR_SIZE
    BY VectorSizeAssumption
  <1>5. \E q \in Nat : \E r \in 0 .. STANDARD_VECTOR_SIZE : IteratorAt(q, r)
    BY <1>3, <1>4
  <1>6. /\ snapshots_output \in Seq(Nat) /\ snapshots_received \in Seq(Nat)
        /\ Len(snapshots_output) <= STANDARD_VECTOR_SIZE
        /\ snapshot_it \in 0 .. snapshots
    BY <1>1, EmptySeq, VectorSizeAssumption
  <1>7. \A j \in 1 .. Len(SnapshotsDelivered) :
            SnapshotsDelivered[j] = j + (j - 1) \div STANDARD_VECTOR_SIZE
    BY <1>2
  <1> QED BY <1>1, <1>5, <1>6, <1>7 DEF SnapshotsInv

\* No step of iceberg_snapshots leaves its invariant.
LEMMA SnapshotsInvNext ==
    ASSUME SnapshotsInv, Snapshots!Next
    PROVE  SnapshotsInv'
  <1> DEFINE V == STANDARD_VECTOR_SIZE
  <1>1. /\ V \in Nat /\ 0 < V
        /\ snapshots \in Nat /\ snapshot_it \in Nat /\ snapshot_it <= snapshots
        /\ snapshots_output \in Seq(Nat) /\ snapshots_received \in Seq(Nat)
        /\ Len(snapshots_output) \in Nat /\ Len(snapshots_received) \in Nat
        /\ Len(snapshots_output) <= V
    BY VectorSizeAssumption DEF SnapshotsInv
  <1>2. PICK q \in Nat : \E r \in 0 .. V : IteratorAt(q, r)
    BY DEF SnapshotsInv
  <1>3. PICK r \in 0 .. V : IteratorAt(q, r)
    BY <1>2
  <1>4. SnapshotsDelivered \in Seq(Nat)
    BY <1>1, ConcatProperties DEF SnapshotsDelivered
  <1>5. \A j \in 1 .. Len(SnapshotsDelivered) :
            SnapshotsDelivered[j] = j + (j - 1) \div V
    BY DEF SnapshotsInv
  <1>6. CASE Snapshots!Call
    <2>1. /\ snapshots_pc = "idle" /\ snapshots_pc' = "loop"
          /\ snapshots_ended = FALSE /\ snapshots_output' = <<>>
          /\ UNCHANGED <<snapshots, snapshot_it, snapshots_received,
                         snapshots_ended>>
      BY <1>6 DEF Snapshots!Call, SnapshotsInv
    <2>2. SnapshotsDelivered' = SnapshotsDelivered
      BY <1>1, <2>1, ConcatEmptySeq DEF SnapshotsDelivered
    <2>3. IteratorAt(q, r)'
      BY <1>3, <2>1, <2>2 DEF IteratorAt
    <2>4. snapshots_output' \in Seq(Nat) /\ Len(snapshots_output') <= V
      BY <1>1, <2>1, EmptySeq
    <2> QED BY <1>2, <1>3, <2>1, <2>2, <2>3, <2>4 DEF SnapshotsInv
  <1>7. CASE Snapshots!OutputSnapshot
    <2>1. /\ snapshots_pc = "loop" /\ snapshots_pc' = "loop"
          /\ snapshot_it < snapshots /\ snapshot_it' = snapshot_it + 1
          /\ Len(snapshots_output) < V
          /\ snapshots_output' = Append(snapshots_output, snapshot_it + 1)
          /\ UNCHANGED <<snapshots, snapshots_received, snapshots_ended>>
          /\ snapshots_ended = FALSE
      BY <1>7 DEF Snapshots!OutputSnapshot, SnapshotsInv
    <2>2. /\ snapshots_output' \in Seq(Nat)
          /\ Len(snapshots_output') = Len(snapshots_output) + 1
      BY <1>1, <2>1, AppendProperties
    <2>3. r = Len(snapshots_output) /\ r < V /\ r + 1 \in 0 .. V
      BY <1>1, <1>3, <2>1 DEF IteratorAt
    <2>4. SnapshotsDelivered' = Append(SnapshotsDelivered, snapshot_it + 1)
      BY <1>1, <2>1, SMTT(40) DEF SnapshotsDelivered
    <2>5. PICK d \in Seq(Nat) : d = SnapshotsDelivered
      BY <1>4
    <2>6. /\ Len(SnapshotsDelivered') = Len(d) + 1
          /\ \A j \in 1 .. Len(d) : SnapshotsDelivered'[j] = d[j]
          /\ SnapshotsDelivered'[Len(d) + 1] = snapshot_it + 1
      BY <1>1, <2>4, <2>5, AppendProperties
    <2>7. /\ Len(d) = q * V + r
          /\ snapshot_it = q * (V + 1) + r
          /\ q * V \in Nat /\ q * (V + 1) = q * V + q
      BY <1>1, <1>2, <1>3, <2>5 DEF IteratorAt
    <2>8. (q * V + r) \div V = q
      <3>1. V \in Nat \ {0} /\ r \in 0 .. V - 1
        BY <1>1, <1>3, <2>3
      <3> HIDE DEF V
      <3> QED BY <1>2, <3>1, Quotient, Zenon
    <2>9. IteratorAt(q, r + 1)'
      BY <1>1, <1>3, <2>1, <2>2, <2>3, <2>6, <2>7 DEF IteratorAt
    <2>10. \A j \in 1 .. Len(SnapshotsDelivered') :
               SnapshotsDelivered'[j] = j + (j - 1) \div V
      <3>1. (Len(d) + 1) - 1 = q * V + r
        BY <2>7, <1>3
      <3>2. snapshot_it + 1 = (Len(d) + 1) + q
        BY <1>2, <1>3, <2>7
      <3>3. snapshot_it + 1 = (Len(d) + 1) + ((Len(d) + 1) - 1) \div V
        BY <2>8, <3>1, <3>2
      <3>4. \A j \in 1 .. Len(d) + 1 : j \in 1 .. Len(d) \/ j = Len(d) + 1
        BY <2>5
      <3>5. \A j \in 1 .. Len(d) : d[j] = j + (j - 1) \div V
        BY <1>5, <2>5
      <3> HIDE DEF V
      <3> QED BY <2>6, <3>3, <3>4, <3>5, Zenon
    <2>11. \E qq \in Nat : \E rr \in 0 .. V : IteratorAt(qq, rr)'
      BY <1>2, <2>3, <2>9
    <2>12. snapshot_it' \in 0 .. snapshots' /\ Len(snapshots_output') <= V
      BY <1>1, <2>1, <2>2
    <2> QED BY <1>1, <2>1, <2>2, <2>10, <2>11, <2>12 DEF SnapshotsInv
  <1>8. ASSUME Snapshots!Break \/ Snapshots!NoMoreSnapshots
        PROVE  /\ snapshots_pc = "loop" /\ snapshots_pc' = "idle"
               /\ snapshots_received' = snapshots_received \o snapshots_output
               /\ snapshots_ended' = (snapshots_output = <<>>)
               /\ UNCHANGED <<snapshots, snapshots_output>>
               /\ SnapshotsDelivered' = SnapshotsDelivered
               /\ snapshots_received' \in Seq(Nat)
    <2>1. /\ snapshots_pc = "loop" /\ snapshots_pc' = "idle"
          /\ snapshots_received' = snapshots_received \o snapshots_output
          /\ snapshots_ended' = (snapshots_output = <<>>)
          /\ UNCHANGED <<snapshots, snapshots_output>>
      BY <1>8 DEF Snapshots!Break, Snapshots!NoMoreSnapshots, Snapshots!Return
    <2>2. SnapshotsDelivered' = SnapshotsDelivered
      BY <2>1 DEF SnapshotsDelivered
    <2> QED BY <1>1, <2>1, <2>2, ConcatProperties
  <1>9. CASE Snapshots!Break
    <2>1. /\ snapshot_it < snapshots /\ Len(snapshots_output) = V
          /\ snapshot_it' = snapshot_it + 1
      BY <1>1, <1>9 DEF Snapshots!Break
    <2>2. snapshots_output # <<>>
      BY <1>1, <2>1
    <2>3. r = V
      BY <1>3, <1>8, <1>9, <2>1, <2>2 DEF IteratorAt
    <2>4. /\ snapshot_it' = (q + 1) * (V + 1) + 0
          /\ q * V + V = (q + 1) * V + 0
      <3>1. /\ (q + 1) * (V + 1) = q * (V + 1) + (V + 1)
            /\ (q + 1) * V = q * V + V
            /\ q * (V + 1) \in Nat /\ q * V \in Nat
        BY <1>1, <1>2
      <3> QED BY <1>1, <1>3, <2>1, <2>3, <3>1 DEF IteratorAt
    <2>5. IteratorAt(q + 1, 0)'
      BY <1>3, <1>8, <1>9, <2>3, <2>4 DEF IteratorAt
    <2>6. \E qq \in Nat : \E rr \in 0 .. V : IteratorAt(qq, rr)'
      BY <1>1, <1>2, <2>5
    <2>7. snapshots_ended' = FALSE /\ snapshot_it' \in 0 .. snapshots'
      <3>1. snapshots' = snapshots /\ snapshots_ended' = (snapshots_output = <<>>)
        BY <1>8, <1>9
      <3>2. snapshots_ended' = FALSE
        BY <2>2, <3>1, Zenon
      <3>3. snapshot_it' \in 0 .. snapshots'
        BY <1>1, <2>1, <3>1
      <3> QED BY <3>2, <3>3
    <2> QED BY <1>1, <1>5, <1>8, <1>9, <2>6, <2>7 DEF SnapshotsInv
  <1>10. CASE Snapshots!NoMoreSnapshots
    <2>1. snapshot_it = snapshots /\ snapshot_it' = snapshot_it
      BY <1>10 DEF Snapshots!NoMoreSnapshots
    <2>2. IteratorAt(q, r)'
      BY <1>3, <1>8, <1>10, <2>1 DEF IteratorAt
    <2> QED BY <1>1, <1>2, <1>3, <1>5, <1>8, <1>10, <2>1, <2>2 DEF SnapshotsInv
  <1> QED BY <1>6, <1>7, <1>9, <1>10 DEF Snapshots!Next

\* For every number of snapshots and every chunk size, iceberg_snapshots has
\* lost exactly one snapshot after each full chunk that it returned: the code
\* takes the next snapshot from the iterator before it finds the chunk full.
THEOREM LosesOnlyAtBoundaries == FunctionsSpec => []OnlyBoundariesSkipped
  <1>1. FunctionsInit => SnapshotsInv
    BY SnapshotsInvInit DEF FunctionsInit
  <1>2. ASSUME SnapshotsInv, [FunctionsNext]_<<vars, snapshotsVars>>
        PROVE  SnapshotsInv'
    <2>1. CASE Snapshots!Next
      BY <1>2, <2>1, SnapshotsInvNext
    <2>2. CASE UNCHANGED snapshotsVars
      BY <1>2, <2>2
         DEF snapshotsVars, SnapshotsInv, SnapshotsDelivered, IteratorAt
    <2> QED BY <1>2, <2>1, <2>2 DEF FunctionsNext
  <1>3. ASSUME SnapshotsInv
        PROVE  OnlyBoundariesSkipped
    <2> DEFINE V == STANDARD_VECTOR_SIZE
    <2>1. /\ V \in Nat /\ 0 < V
          /\ snapshots_received \in Seq(Nat) /\ snapshots_output \in Seq(Nat)
          /\ Len(snapshots_received) \in Nat
      BY <1>3, VectorSizeAssumption DEF SnapshotsInv
    <2>2. /\ Len(snapshots_received) <= Len(SnapshotsDelivered)
          /\ \A j \in 1 .. Len(snapshots_received) :
                 SnapshotsDelivered[j] = snapshots_received[j]
      BY <2>1 DEF SnapshotsDelivered
    <2>3. \A j \in DOMAIN snapshots_received :
              snapshots_received[j] = j + (j - 1) \div V
      <3>1. \A j \in 1 .. Len(SnapshotsDelivered) :
                SnapshotsDelivered[j] = j + (j - 1) \div V
        BY <1>3 DEF SnapshotsInv
      <3>2. Len(SnapshotsDelivered) \in Nat
        BY <2>1 DEF SnapshotsDelivered
      <3>3. \A j \in DOMAIN snapshots_received :
                /\ j \in 1 .. Len(snapshots_received)
                /\ j \in 1 .. Len(SnapshotsDelivered)
        BY <2>1, <2>2, <3>2
      <3> QED BY <2>2, <3>1, <3>3, Zenon
    <2>4. ASSUME snapshots_ended
          PROVE  Len(snapshots_received) = snapshots - snapshots \div (V + 1)
      <3>1. PICK q \in Nat : \E r \in 0 .. V : IteratorAt(q, r)
        BY <1>3 DEF SnapshotsInv
      <3>2. PICK r \in 0 .. V : IteratorAt(q, r)
        BY <3>1
      <3>3. SnapshotsDelivered = snapshots_received /\ snapshot_it = snapshots
        BY <1>3, <2>4 DEF SnapshotsInv, SnapshotsDelivered
      <3>4. /\ snapshots = q * (V + 1) + r
            /\ Len(snapshots_received) = q * V + r
        BY <3>2, <3>3 DEF IteratorAt
      <3>5. (q * (V + 1) + r) \div (V + 1) = q
        <4>1. V + 1 \in Nat \ {0} /\ r \in 0 .. (V + 1) - 1
          BY <2>1, <3>2
        <4> HIDE DEF V
        <4> QED BY <3>1, <4>1, Quotient, Zenon
      <3>6. q * (V + 1) = q * V + q /\ q * V \in Nat
        BY <2>1, <3>1
      <3> QED BY <3>1, <3>2, <3>4, <3>5, <3>6
    <2> QED BY <2>3, <2>4
            DEF OnlyBoundariesSkipped, Snapshots!OnlyBoundariesSkipped
  <1> QED BY <1>1, <1>2, <1>3, PTL DEF FunctionsSpec

=============================================================================
