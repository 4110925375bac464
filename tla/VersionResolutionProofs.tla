---------------------- MODULE VersionResolutionProofs ----------------------
(***************************************************************************)
(* For any number of versions and any retention: a call that follows a hint *)
(* reads a version that was current during the call.                        *)
(***************************************************************************)
EXTENDS VersionResolution, SequenceTheorems, WellFoundedInduction, TLAPS

\* What the writer keeps to: a hint names the current version, and a version
\* that it has begun to publish is within the bound.
WriterInv ==
    /\ hint \in {committed, NoVersion}
    /\ writer # "idle" => committed < LastVersion
    /\ started.committed <= committed

\* Only a call that may guess looks at the directory.
GlobIfGuessing == pc = "glob" => request.guessing

\* A version that a hint or a path stands for.
CurrentInCall(version) == version \in started.committed .. committed

\* What has come of the hint so far.
FollowsHint ==
    ~request.guessing /\ request.table_version # "number" =>
        /\ pc = "format" => CurrentInCall(version_hint)
        /\ pc \in {"open", "done"} => CurrentInCall(url.version)

Inv == /\ TypeOK
       /\ WriterInv
       /\ GlobIfGuessing
       /\ FollowsHint

USE DEF tableVars, callVars, startVars

-----------------------------------------------------------------------------

\* The default has two formats.
LEMMA TwoFormats == Len(version_name_format) = 2
BY DEF version_name_format

\* Versions are the numbers between the bounds.
LEMMA VersionRange ==
    \A v : v \in Version <=> v \in Int /\ FirstVersion <= v /\ v <= LastVersion
BY VersionsAssumption DEF Version

\* The committed version is a number between the bounds.
LEMMA Numbers ==
    ASSUME TypeOK
    PROVE  /\ committed \in Int /\ started.committed \in Int
           /\ FirstVersion \in Int /\ LastVersion \in Int
           /\ FirstVersion <= committed /\ committed <= LastVersion
<1>1. committed \in Version /\ started.committed \in Version
  BY DEF TypeOK
<1>. QED
  BY <1>1, VersionRange, VersionsAssumption

\* TypeOK, of the table and of the call.
TableType ==
    /\ files \subseteq Metadata
    /\ hint \in Version \cup {NoVersion}
    /\ style \in Style
    /\ hinting \in BOOLEAN
    /\ committed \in Version
    /\ writer \in {"idle", "written", "hint deleted"}
    /\ started \in [committed : Version, hint : Version \cup {NoVersion}]
    /\ disturbed \in BOOLEAN

CallType ==
    /\ request \in Request
    /\ version_hint \in Version \cup {NoVersion}
    /\ pc = "format" => version_hint \in Version
    /\ format \in 1 .. Len(version_name_format) + 1
    /\ url \in Metadata \cup {NoFile}
    /\ pc \in {"open", "done"} => url \in Metadata
    /\ guessed \in BOOLEAN
    /\ pc \in {"idle", "hint?", "hint", "format", "glob", "open", "done",
               "error"}

LEMMA TypeParts == TypeOK <=> TableType /\ CallType
BY Zenon DEF TypeOK, TableType, CallType

\* The same after a step.
LEMMA TypePartsPrime == TypeOK' <=> TableType' /\ CallType'
BY Zenon DEF TypeOK, TableType, CallType

\* The call begins with the reader at rest, after the writer has rested.
LEMMA InitInv == Init => Inv
<1> SUFFICES ASSUME Init PROVE Inv
  OBVIOUS
<1>1. \E s \in Style : committed = FirstVersion /\ files = {[style |-> s, version |-> FirstVersion]}
  BY DEF Init
<1>2. committed = FirstVersion /\ FirstVersion \in Version
  BY VersionRange, VersionsAssumption DEF Init
<1>3. TypeOK
  <2>1. files \subseteq Metadata
    BY <1>1, <1>2 DEF Init, Metadata
  <2>2. hint \in Version \cup {NoVersion} /\ hinting \in BOOLEAN
    BY <1>2 DEF Init
  <2>3. format \in 1 .. Len(version_name_format) + 1
    BY TwoFormats DEF Init
  <2>4. started \in [committed : Version, hint : Version \cup {NoVersion}]
    BY <1>2, <2>2 DEF Init
  <2>. QED
    BY <1>2, <2>1, <2>2, <2>3, <2>4 DEF Init, TypeOK
<1>4. WriterInv /\ GlobIfGuessing /\ FollowsHint
  BY <1>2, VersionsAssumption DEF Init, WriterInv, GlobIfGuessing, FollowsHint
<1>. QED
  BY <1>3, <1>4 DEF Inv
-----------------------------------------------------------------------------
(* The writer *)

\* A file that is added changes neither the hint nor the call.
LEMMA WriteMetadataInv == Inv /\ WriteMetadata => Inv'
<1> SUFFICES ASSUME Inv, WriteMetadata PROVE Inv'
  OBVIOUS
<1> USE DEF Inv, WriteMetadata
<1>0. committed + 1 \in Version
  BY Numbers, VersionRange
<1>1. TypeOK'
  <2>1. files' \subseteq Metadata
    BY <1>0 DEF TypeOK, Metadata
  <2>. QED
    BY <2>1 DEF TypeOK
<1>2. WriterInv'
  BY DEF WriterInv
<1>3. GlobIfGuessing'
  BY DEF GlobIfGuessing
<1>4. FollowsHint'
  BY DEF FollowsHint, CurrentInCall
<1>. QED
  BY <1>1, <1>2, <1>3, <1>4

\* A hint that is gone names no version.
LEMMA DeleteHintInv == Inv /\ DeleteHint => Inv'
<1> SUFFICES ASSUME Inv, DeleteHint PROVE Inv'
  OBVIOUS
<1> USE DEF Inv, DeleteHint
<1>1. TypeOK'
  BY DEF TypeOK
<1>2. WriterInv'
  BY DEF WriterInv
<1>3. GlobIfGuessing'
  BY DEF GlobIfGuessing
<1>4. FollowsHint'
  BY DEF FollowsHint, CurrentInCall
<1>. QED
  BY <1>1, <1>2, <1>3, <1>4

\* The versions that were current in the call grow by the one published.
LEMMA PublishHintInv == Inv /\ PublishHint => Inv'
<1> SUFFICES ASSUME Inv, PublishHint PROVE Inv'
  OBVIOUS
<1>1. /\ committed \in Int /\ started.committed \in Int
      /\ FirstVersion \in Int /\ LastVersion \in Int
      /\ FirstVersion <= committed
  BY Numbers DEF Inv
<1>2. started.committed <= committed /\ committed < LastVersion
  BY DEF Inv, WriterInv, PublishHint
<1>3. /\ committed' = committed + 1 /\ started' = started
      /\ hint' \in {committed', NoVersion} /\ writer' = "idle"
  BY DEF PublishHint
<1>4. committed' \in Version
  BY <1>1, <1>2, <1>3, VersionRange
<1>5. TypeOK'
  BY <1>3, <1>4, ZenonT(60) DEF Inv, TypeOK, PublishHint
<1>6. WriterInv'
  BY <1>1, <1>2, <1>3 DEF WriterInv
<1>7. \A version : CurrentInCall(version) => CurrentInCall(version)'
  BY <1>1, <1>2, <1>3 DEF CurrentInCall
<1>8. GlobIfGuessing' /\ FollowsHint'
  BY <1>7 DEF Inv, PublishHint, GlobIfGuessing, FollowsHint, CurrentInCall
<1>. QED
  BY <1>5, <1>6, <1>8 DEF Inv

\* A file that is removed changes neither the hint nor the call.
LEMMA RemoveOldInv == Inv /\ RemoveOld => Inv'
<1> SUFFICES ASSUME Inv, RemoveOld PROVE Inv'
  OBVIOUS
<1>0. /\ UNCHANGED <<hint, style, hinting, committed, writer, pc>>
      /\ UNCHANGED <<request, version_hint, format, url, guessed, started>>
      /\ files' \subseteq files
      /\ disturbed' \in BOOLEAN
  BY DEF RemoveOld
<1>1. TypeOK /\ WriterInv /\ GlobIfGuessing /\ FollowsHint
  BY DEF Inv
<1>2. TypeOK'
  <2>1. TableType'
    BY <1>0, <1>1, TypeParts DEF TableType
  <2>2. CallType'
    BY <1>0, <1>1, TypeParts DEF CallType
  <2>. QED
    BY <2>1, <2>2, TypePartsPrime
<1>3. WriterInv'
  BY <1>0, <1>1 DEF WriterInv
<1>4. GlobIfGuessing'
  BY <1>0, <1>1 DEF GlobIfGuessing
<1>5. FollowsHint'
  BY <1>0, <1>1 DEF FollowsHint, CurrentInCall
<1>. QED
  BY <1>2, <1>3, <1>4, <1>5 DEF Inv

-----------------------------------------------------------------------------
(* The call *)

\* A call that throws has opened nothing.
LEMMA FailInv == Inv /\ Fail => Inv'
BY DEF Inv, Fail, TypeOK, WriterInv, GlobIfGuessing, FollowsHint, CurrentInCall

\* The call starts with the version that is current then.
LEMMA GetMetaDataPathInv == Inv /\ GetMetaDataPath => Inv'
<1> SUFFICES ASSUME Inv, GetMetaDataPath PROVE Inv'
  OBVIOUS
<1> USE DEF Inv, GetMetaDataPath
<1>1. TypeOK'
  BY DEF TypeOK
<1>2. (WriterInv /\ GlobIfGuessing /\ FollowsHint)'
  BY Numbers DEF WriterInv, GlobIfGuessing, FollowsHint, CurrentInCall
<1>. QED
  BY <1>1, <1>2

\* Only a call that may guess goes on without a hint.
LEMMA HintFileExistsInv == Inv /\ HintFileExists => Inv'
<1> SUFFICES ASSUME Inv, HintFileExists PROVE Inv'
  OBVIOUS
<1>1. CASE Fail
  BY <1>1, FailInv
<1>2. CASE ~Fail
  BY <1>2 DEF Inv, HintFileExists, UnsafeVersionGuessingEnabled, TypeOK,
              WriterInv, GlobIfGuessing, FollowsHint, CurrentInCall
<1>. QED
  BY <1>1, <1>2

\* What the hint names when it is read is current at that moment.
LEMMA GetTableVersionFromHintInv == Inv /\ GetTableVersionFromHint => Inv'
<1> SUFFICES ASSUME Inv, GetTableVersionFromHint PROVE Inv'
  OBVIOUS
<1>1. CASE Fail
  BY <1>1, FailInv
<1>2. CASE ~Fail
  <2> USE <1>2 DEF Inv, GetTableVersionFromHint
  <2>1. TypeOK'
    BY DEF TypeOK
  <2>0. committed \in Int /\ started.committed \in Int
    BY Numbers
  <2>2. CurrentInCall(hint)
    BY <2>0 DEF WriterInv, CurrentInCall
  <2>3. (WriterInv /\ GlobIfGuessing /\ FollowsHint)'
    BY <2>2 DEF WriterInv, GlobIfGuessing, FollowsHint, CurrentInCall
  <2>. QED
    BY <2>1, <2>3
<1>. QED
  BY <1>1, <1>2

\* A round of the loop over the formats keeps the invariant if it chooses from
\* files of a version that the call may read.
LEMMA TryFormatInv ==
    ASSUME Inv, pc \in {"format", "glob"}, NEW found \in SUBSET files,
           TryFormat(found),
           ~request.guessing /\ request.table_version # "number" =>
              \A f \in found : CurrentInCall(f.version)
    PROVE  Inv'
<1>1. CASE Fail
  BY <1>1, FailInv
<1>2. CASE ~Fail
  <2> USE <1>2 DEF Inv, TryFormat
  <2>1. \/ url' \in files /\ pc' = "open"
        \/ url' = url /\ pc' = pc
    OBVIOUS
  <2>2. format' \in 1 .. Len(version_name_format) + 1
    <3>1. format \in 1 .. Len(version_name_format) + 1
      BY DEF TypeOK
    <3>2. \/ format' = format
          \/ format <= Len(version_name_format) /\ format' = format + 1
      OBVIOUS
    <3>. HIDE DEF Inv, TryFormat
    <3>. QED
      BY <3>1, <3>2, TwoFormats
  <2>3. TypeOK'
    BY <2>1, <2>2 DEF TypeOK
  <2>4. (WriterInv /\ GlobIfGuessing /\ FollowsHint)'
    BY DEF WriterInv, GlobIfGuessing, FollowsHint, CurrentInCall
  <2>. QED
    BY <2>3, <2>4
<1>. QED
  BY <1>1, <1>2

\* The file found is of the version that the hint named.
LEMMA GenerateMetaDataUrlInv == Inv /\ GenerateMetaDataUrl => Inv'
<1> SUFFICES ASSUME Inv, GenerateMetaDataUrl PROVE Inv'
  OBVIOUS
<1> DEFINE found == {f \in files : InFormat({f.style})
                                   /\ f.version = version_hint}
<1>1. pc = "format" /\ TryFormat(found)
  BY DEF GenerateMetaDataUrl
<1>2. ~request.guessing /\ request.table_version # "number" =>
          \A f \in found : CurrentInCall(f.version)
  BY <1>1 DEF Inv, FollowsHint
<1>. QED
  BY <1>1, <1>2, TryFormatInv

\* Whatever a guess finds, the call was allowed to guess.
LEMMA GuessTableVersionInv == Inv /\ GuessTableVersion => Inv'
<1> SUFFICES ASSUME Inv, GuessTableVersion PROVE Inv'
  OBVIOUS
<1> DEFINE found == PickTableVersion({f \in files : InFormat({"plain", f.style})})
<1>1. pc = "glob" /\ TryFormat(found)
  BY DEF GuessTableVersion
<1>2. found \subseteq files
  BY DEF PickTableVersion
<1>3. request.guessing
  BY <1>1 DEF Inv, GlobIfGuessing
<1>. QED
  BY <1>1, <1>2, <1>3, TryFormatInv

\* Reading the file changes nothing of the choice.
LEMMA ReadMetaDataInv == Inv /\ ReadMetaData => Inv'
<1> SUFFICES ASSUME Inv, ReadMetaData PROVE Inv'
  OBVIOUS
<1>1. CASE Fail
  BY <1>1, FailInv
<1>2. CASE ~Fail
  BY <1>2, ZenonT(60) DEF Inv, ReadMetaData, TypeOK, WriterInv, GlobIfGuessing,
              FollowsHint, CurrentInCall
<1>. QED
  BY <1>1, <1>2

-----------------------------------------------------------------------------

\* No step of the writer or of the call leaves the invariant.
LEMMA StepInv == Inv /\ [Next]_vars => Inv'
<1> SUFFICES ASSUME Inv, [Next]_vars PROVE Inv'
  OBVIOUS
<1>1. CASE Writer
  BY <1>1, WriteMetadataInv, DeleteHintInv, PublishHintInv, RemoveOldInv
     DEF Writer
<1>2. CASE Call
  BY <1>2, GetMetaDataPathInv, HintFileExistsInv, GetTableVersionFromHintInv,
     GenerateMetaDataUrlInv, GuessTableVersionInv, ReadMetaDataInv DEF Call
<1>3. CASE UNCHANGED vars
  <2>0. /\ UNCHANGED <<files, hint, style, hinting, committed, writer, pc>>
        /\ UNCHANGED <<request, version_hint, format, url, guessed>>
        /\ UNCHANGED <<started, disturbed>>
    BY <1>3 DEF vars
  <2> USE <2>0
  <2>1. TypeOK'
    <3>1. TableType'
      BY TypeParts DEF Inv, TableType
    <3>2. CallType'
      BY TypeParts DEF Inv, CallType
    <3>. QED
      BY <3>1, <3>2, TypePartsPrime
  <2>2. WriterInv'
    BY DEF Inv, WriterInv
  <2>3. GlobIfGuessing'
    BY DEF Inv, GlobIfGuessing
  <2>4. FollowsHint'
    BY DEF Inv, FollowsHint, CurrentInCall
  <2>. QED
    BY <2>1, <2>2, <2>3, <2>4 DEF Inv
<1>. QED
  BY <1>1, <1>2, <1>3 DEF Next

\* The invariant holds always.
LEMMA Invariance == Spec => []Inv
BY InitInv, StepInv, PTL DEF Spec

\* The state of a call and of the writer is well typed (GetMetaDataPath).
THEOREM TypeCorrect == Spec => []TypeOK
<1>1. Inv => TypeOK
  BY DEF Inv
<1>. QED
  BY <1>1, Invariance, PTL

\* A call that follows a hint reads a version that was current at some moment
\* of the call, whatever the writer does meanwhile (GetMetaDataPath,
\* GetTableVersionFromHint and GenerateMetaDataUrl).
THEOREM HintIsFollowed == Spec => []ReadsCurrentVersion
<1>1. Inv => ReadsCurrentVersion
  BY DEF Inv, FollowsHint, CurrentInCall, ReadsCurrentVersion
<1>. QED
  BY <1>1, Invariance, PTL

-----------------------------------------------------------------------------
(* The digits of a number *)

Less == {ss \in Nat \X Nat : ss[1] < ss[2]}

\* A nonempty set of natural numbers has a least element.
LEMMA LeastNatural ==
    ASSUME NEW S, S \subseteq Nat, S # {}
    PROVE  \E n \in S : \A m \in S : n <= m
<1>1. IsWellFoundedOn(Less, Nat)
  BY NatLessThanWellFounded, SMT DEF OpToRel, Less
<1>2. PICK n \in S : \A m \in Nat : <<m, n>> \in Less => m \notin S
  BY <1>1, WFMin, Zenon
<1>3. ASSUME NEW m \in S
      PROVE  n <= m
  <2>1. m \in Nat /\ n \in Nat /\ <<m, n>> \notin Less
    BY <1>2
  <2>2. ~(m < n)
    BY <2>1 DEF Less
  <2>. QED
    BY <2>1, <2>2
<1>. QED
  BY <1>3

\* A number is made of its last digit and of the others.
LEMMA Divided ==
    ASSUME NEW n \in Nat
    PROVE  /\ n \div 10 \in Nat /\ n \div 10 <= n
           /\ n % 10 \in 0 .. 9
           /\ n >= 10 => n \div 10 < n
           /\ n = 10 * (n \div 10) + (n % 10)
OBVIOUS

\* What the recursive definition makes of n, given what it makes of n \div 10.
DigitsStep(f, n) == IF n < 10 THEN <<n>> ELSE Append(f[n \div 10], n % 10)

AreDigits(f, max) == f = [n \in 0 .. max |-> DigitsStep(f, n)]

\* There is a function that gives the digits of the numbers up to a bound.
LEMMA DigitsExist ==
    ASSUME NEW max \in Nat
    PROVE  \E f : AreDigits(f, max)
<1> DEFINE Without == {m \in Nat : ~ \E f : AreDigits(f, m)}
<1>1. SUFFICES ASSUME Without # {} PROVE FALSE
  OBVIOUS
<1>2. PICK m \in Without : \A k \in Without : m <= k
  BY <1>1, LeastNatural
<1>3. PICK f : m # 0 => AreDigits(f, m - 1)
  <2>1. m # 0 => m - 1 \in Nat /\ m - 1 \notin Without
    BY <1>2
  <2>. QED
    BY <2>1
<1> DEFINE g == [n \in 0 .. m |-> DigitsStep(f, n)]
<1>4. \A n \in 0 .. m : n >= 10 => n \div 10 \in 0 .. m /\ n \div 10 < m
  BY <1>2, Divided
<1>5. \A n \in 0 .. m : n < m => f[n] = g[n]
  <2>1. \A n \in 0 .. m : n < m => m # 0 /\ n \in 0 .. m - 1
    BY <1>2
  <2>2. m # 0 => \A n \in 0 .. m - 1 : f[n] = DigitsStep(f, n)
    BY <1>3, Zenon DEF AreDigits
  <2>3. \A n \in 0 .. m : g[n] = DigitsStep(f, n)
    BY Zenon
  <2>. QED
    BY <2>1, <2>2, <2>3, Zenon
<1>6. \A n \in 0 .. m : DigitsStep(f, n) = DigitsStep(g, n)
  <2> HIDE DEF g
  <2>1. \A n \in 0 .. m : n < 10 \/ n >= 10
    BY <1>2
  <2>. QED
    BY <1>4, <1>5, <2>1, Zenon DEF DigitsStep
<1>7. AreDigits(g, m)
  <2>1. g = [n \in 0 .. m |-> DigitsStep(f, n)]
    OBVIOUS
  <2> HIDE DEF g
  <2>. QED
    BY <1>6, <2>1, Zenon DEF AreDigits
<1>. QED
  BY <1>2, <1>7

\* There is only one such function.
LEMMA DigitsAgree ==
    ASSUME NEW a \in Nat, NEW b \in Nat, NEW f, NEW g,
           AreDigits(f, a), AreDigits(g, b)
    PROVE  \A n \in Nat : n <= a /\ n <= b => f[n] = g[n]
<1> DEFINE Other == {n \in Nat : n <= a /\ n <= b /\ f[n] # g[n]}
<1>1. SUFFICES ASSUME Other # {} PROVE FALSE
  OBVIOUS
<1>2. PICK n \in Other : \A k \in Other : n <= k
  BY <1>1, LeastNatural
<1>3. n \in Nat /\ n <= a /\ n <= b /\ f[n] # g[n]
  BY <1>2
<1>4. f[n] = DigitsStep(f, n) /\ g[n] = DigitsStep(g, n)
  <2>1. n \in 0 .. a /\ n \in 0 .. b
    BY <1>3
  <2>. QED
    BY <2>1, Zenon DEF AreDigits
<1>5. n >= 10 => f[n \div 10] = g[n \div 10]
  BY <1>2, <1>3, Divided
<1>6. n < 10 \/ n >= 10
  BY <1>3
<1>. QED
  BY <1>3, <1>4, <1>5, <1>6, Zenon DEF DigitsStep

\* The definition of Digits defines it.
LEMMA DigitsDefined == \A n \in Nat : Digits[n] = DigitsStep(Digits, n)
<1> DEFINE Upto(n) == CHOOSE f : AreDigits(f, n)
           d == [n \in Nat |-> Upto(n)[n]]
<1>1. ASSUME NEW n \in Nat
      PROVE  AreDigits(Upto(n), n)
  BY DigitsExist, Zenon
<1>2. ASSUME NEW n \in Nat
      PROVE  d[n] = DigitsStep(d, n)
  <2>1. d[n] = Upto(n)[n]
    OBVIOUS
  <2>2. Upto(n)[n] = DigitsStep(Upto(n), n)
    <3>1. n \in 0 .. n
      OBVIOUS
    <3> HIDE DEF Upto
    <3>. QED
      BY <1>1, <3>1, Zenon DEF AreDigits
  <2>3. n < 10 \/ n >= 10
    OBVIOUS
  <2>4. CASE n >= 10
    <3>1. /\ n \div 10 \in Nat /\ n \div 10 <= n
          /\ n \div 10 <= n \div 10
      BY Divided
    <3>2. d[n \div 10] = Upto(n \div 10)[n \div 10]
      BY <3>1
    <3>3. PICK f : f = Upto(n)
      OBVIOUS
    <3>4. PICK k \in Nat : k = n \div 10
      BY <3>1
    <3>5. PICK g : g = Upto(k)
      OBVIOUS
    <3> HIDE DEF Upto, d
    <3>6. f[k] = g[k]
      BY <1>1, <3>1, <3>3, <3>4, <3>5, DigitsAgree
    <3>. QED
      BY <2>1, <2>2, <3>2, <3>3, <3>4, <3>5, <3>6, Zenon DEF DigitsStep
  <2>5. CASE n < 10
    <3> HIDE DEF Upto, d
    <3>. QED
      BY <2>1, <2>2, <2>5, Zenon DEF DigitsStep
  <2>. QED
    BY <2>3, <2>4, <2>5
<1>3. d = [n \in Nat |-> DigitsStep(d, n)]
  <2>1. d = [n \in Nat |-> d[n]]
    OBVIOUS
  <2> HIDE DEF d
  <2>. QED
    BY <1>2, <2>1, Zenon
<1>4. Digits = [n \in Nat |-> DigitsStep(Digits, n)]
  <2> HIDE DEF d
  <2>1. \E f : f = [n \in Nat |-> DigitsStep(f, n)]
    BY <1>3
  <2>. QED
    BY <2>1, Zenon DEF Digits, DigitsStep
<1>. QED
  BY <1>4, Zenon

\* The digits of a number, by the equation that defines them.
LEMMA DigitsCases ==
    ASSUME NEW n \in Nat
    PROVE  /\ n < 10 => Digits[n] = <<n>>
           /\ n >= 10 => Digits[n] = Append(Digits[n \div 10], n % 10)
<1>1. Digits[n] = DigitsStep(Digits, n)
  BY DigitsDefined
<1>2. n >= 10 => ~(n < 10)
  OBVIOUS
<1>. QED
  BY <1>1, <1>2, Zenon DEF DigitsStep

\* There are digits, and no others.
LEMMA DigitsType == \A n \in Nat : Digits[n] \in Seq(0 .. 9) /\ Digits[n] # <<>>
<1> DEFINE Bad == {n \in Nat : ~(Digits[n] \in Seq(0 .. 9) /\ Digits[n] # <<>>)}
<1>1. SUFFICES ASSUME Bad # {} PROVE FALSE
  OBVIOUS
<1>2. PICK n \in Bad : \A k \in Bad : n <= k
  BY <1>1, LeastNatural
<1>3. n \in Nat /\ ~(Digits[n] \in Seq(0 .. 9) /\ Digits[n] # <<>>)
  BY <1>2
<1>4. CASE n < 10
  <2>1. Digits[n] = <<n>> /\ n \in 0 .. 9
    BY <1>3, <1>4, DigitsCases
  <2>2. <<n>> \in Seq(0 .. 9) /\ <<n>> # <<>>
    BY <2>1
  <2>. QED
    BY <1>3, <2>1, <2>2
<1>5. CASE n >= 10
  <2>1. n \div 10 \in Nat /\ n \div 10 < n /\ n % 10 \in 0 .. 9
    BY <1>3, <1>5, Divided
  <2>2. Digits[n] = Append(Digits[n \div 10], n % 10)
    BY <1>3, <1>5, DigitsCases
  <2>3. Digits[n \div 10] \in Seq(0 .. 9)
    BY <1>2, <1>3, <2>1
  <2>. QED
    <3>1. PICK s \in Seq(0 .. 9) : s = Digits[n \div 10]
      BY <2>3
    <3>2. PICK a \in 0 .. 9 : a = n % 10
      BY <2>1
    <3>3. Digits[n] = Append(s, a)
      BY <2>2, <3>1, <3>2
    <3>4. Append(s, a) \in Seq(0 .. 9) /\ Append(s, a) # <<>>
      BY <3>1, <3>2, AppendProperties, SMTT(40)
    <3>. QED
      BY <1>3, <3>3, <3>4
<1>. QED
  BY <1>3, <1>4, <1>5

\* Append(s, a) determines s and a.
LEMMA AppendSame ==
    ASSUME NEW S, NEW s \in Seq(S), NEW t \in Seq(S), NEW a \in S, NEW b \in S,
           Append(s, a) = Append(t, b)
    PROVE  s = t /\ a = b
BY AppendInjective

\* Numbers with the same digits are the same.
LEMMA DigitsDiffer ==
    \A m, n \in Nat : Digits[m] = Digits[n] => m = n
<1> DEFINE Bad == {m \in Nat : \E n \in Nat : Digits[m] = Digits[n] /\ m # n}
<1>1. SUFFICES ASSUME Bad # {} PROVE FALSE
  OBVIOUS
<1>2. PICK m \in Bad : \A k \in Bad : m <= k
  BY <1>1, LeastNatural
<1>3. PICK n \in Nat : Digits[m] = Digits[n] /\ m # n
  BY <1>2
<1>4. m \in Nat
  BY <1>2
<1>5. \A k \in Nat : k >= 10 =>
          /\ k \div 10 \in Nat /\ k % 10 \in 0 .. 9
          /\ Digits[k] = Append(Digits[k \div 10], k % 10)
          /\ Digits[k \div 10] \in Seq(0 .. 9)
          /\ Len(Digits[k]) >= 2
  <2> SUFFICES ASSUME NEW k \in Nat, k >= 10
               PROVE /\ k \div 10 \in Nat /\ k % 10 \in 0 .. 9
                     /\ Digits[k] = Append(Digits[k \div 10], k % 10)
                     /\ Digits[k \div 10] \in Seq(0 .. 9)
                     /\ Len(Digits[k]) >= 2
    OBVIOUS
  <2>1. k \div 10 \in Nat /\ k % 10 \in 0 .. 9
    BY Divided
  <2>2. Digits[k] = Append(Digits[k \div 10], k % 10)
    BY DigitsCases
  <2>3. Digits[k \div 10] \in Seq(0 .. 9) /\ Digits[k \div 10] # <<>>
    BY <2>1, DigitsType
  <2>4. Len(Digits[k \div 10]) \in Nat \ {0}
    BY <2>3, EmptySeq
  <2>. QED
    BY <2>1, <2>2, <2>3, <2>4, AppendProperties
<1>6. \A k \in Nat : k < 10 => Digits[k] = <<k>>
  BY DigitsCases
<1>7. CASE m < 10 /\ n < 10
  <2>1. <<m>> = <<n>>
    BY <1>3, <1>4, <1>6, <1>7
  <2>. QED
    BY <1>3, <2>1
<1>8. CASE m < 10 /\ n >= 10
  <2>1. Digits[m] = <<m>> /\ Len(Digits[n]) >= 2
    BY <1>3, <1>4, <1>5, <1>6, <1>8
  <2>. QED
    BY <1>3, <2>1
<1>9. CASE m >= 10 /\ n < 10
  <2>1. Digits[n] = <<n>> /\ Len(Digits[m]) >= 2
    BY <1>3, <1>4, <1>5, <1>6, <1>9
  <2>. QED
    BY <1>3, <2>1
<1>10. CASE m >= 10 /\ n >= 10
  <2>1. Append(Digits[m \div 10], m % 10) = Append(Digits[n \div 10], n % 10)
    BY <1>3, <1>4, <1>5, <1>10
  <2>2. Digits[m \div 10] = Digits[n \div 10] /\ m % 10 = n % 10
    <3>1. /\ Digits[m \div 10] \in Seq(0 .. 9) /\ m % 10 \in 0 .. 9
          /\ Digits[n \div 10] \in Seq(0 .. 9) /\ n % 10 \in 0 .. 9
      BY <1>4, <1>5, <1>10
    <3>2. PICK s \in Seq(0 .. 9) : s = Digits[m \div 10]
      BY <3>1
    <3>3. PICK t \in Seq(0 .. 9) : t = Digits[n \div 10]
      BY <3>1
    <3>4. PICK a \in 0 .. 9 : a = m % 10
      BY <3>1
    <3>5. PICK b \in 0 .. 9 : b = n % 10
      BY <3>1
    <3>6. Append(s, a) = Append(t, b)
      BY <2>1, <3>2, <3>3, <3>4, <3>5
    <3>7. s = t /\ a = b
      BY <3>6, AppendSame
    <3>. QED
      BY <3>2, <3>3, <3>4, <3>5, <3>7
  <2>3. m \div 10 \in Nat /\ m \div 10 < m
    BY <1>4, <1>10, Divided
  <2>4. m \div 10 \notin Bad
    BY <1>2, <1>4, <2>3
  <2>5. m \div 10 = n \div 10
    BY <1>5, <1>10, <2>2, <2>3, <2>4
  <2>6. m = n
    BY <1>4, <2>2, <2>5, Divided
  <2>. QED
    BY <1>3, <2>6
<1>. QED
  BY <1>4, <1>7, <1>8, <1>9, <1>10

-----------------------------------------------------------------------------
(* The order of names *)

\* What a name looks like: only its last character is the period.
IsName(s) ==
    /\ s \in Seq(Int)
    /\ Len(s) # 0
    /\ \A k \in 1 .. Len(s) : s[k] = -1 <=> k = Len(s)

\* LexLess, with the common part by characters.
LessAt(s, t, k) ==
    /\ k \in 1 .. Len(s)
    /\ k \in 1 .. Len(t)
    /\ \A i \in 1 .. k - 1 : s[i] = t[i]
    /\ s[k] < t[k]

\* A name is less than another at the first character that differs.
LEMMA LexLessAt ==
    ASSUME NEW s \in Seq(Int), NEW t \in Seq(Int)
    PROVE  LexLess(s, t) <=> \E k \in Nat : LessAt(s, t, k)
<1>1. Len(s) \in Nat /\ Len(t) \in Nat
  OBVIOUS
<1>2. ASSUME NEW k \in 1 .. Len(s), k <= Len(t)
      PROVE  SubSeq(s, 1, k - 1) = SubSeq(t, 1, k - 1)
                 <=> \A i \in 1 .. k - 1 : s[i] = t[i]
  <2> DEFINE a == SubSeq(s, 1, k - 1)
             b == SubSeq(t, 1, k - 1)
  <2>1. /\ a \in Seq(Int) /\ b \in Seq(Int)
        /\ Len(a) = k - 1 /\ Len(b) = k - 1
        /\ \A i \in 1 .. k - 1 : a[i] = s[i] /\ b[i] = t[i]
    BY <1>1, <1>2
  <2> HIDE DEF a, b
  <2>2. (\A i \in 1 .. k - 1 : s[i] = t[i]) => a = b
    BY <2>1, SeqEqual
  <2>3. a = b => \A i \in 1 .. k - 1 : s[i] = t[i]
    BY <2>1
  <2>. QED
    BY <2>2, <2>3 DEF a, b
<1>3. ASSUME NEW k
      PROVE  (/\ k \in 1 .. Len(s) /\ k <= Len(t)
              /\ SubSeq(s, 1, k - 1) = SubSeq(t, 1, k - 1)
              /\ s[k] < t[k]) <=> (k \in Nat /\ LessAt(s, t, k))
  <2>1. k \in 1 .. Len(s) => (k <= Len(t) <=> k \in 1 .. Len(t)) /\ k \in Nat
    BY <1>1
  <2>2. k \in 1 .. Len(s) /\ k <= Len(t) =>
            (SubSeq(s, 1, k - 1) = SubSeq(t, 1, k - 1)
                 <=> \A i \in 1 .. k - 1 : s[i] = t[i])
    BY <1>2
  <2>. QED
    BY <2>1, <2>2, Zenon DEF LessAt
<1>. QED
  BY <1>3, Zenon DEF LexLess

\* Of two names only one comes before the other.
LEMMA LexAsymmetric ==
    ASSUME NEW s \in Seq(Int), NEW t \in Seq(Int), LexLess(s, t)
    PROVE  ~LexLess(t, s)
<1>1. SUFFICES ASSUME LexLess(t, s) PROVE FALSE
  OBVIOUS
<1>2. PICK j \in Nat : LessAt(s, t, j)
  BY LexLessAt
<1>3. PICK k \in Nat : LessAt(t, s, k)
  BY <1>1, LexLessAt
<1>4. /\ s[j] \in Int /\ t[j] \in Int /\ s[k] \in Int /\ t[k] \in Int
  BY <1>2, <1>3, SMTT(40) DEF LessAt
<1>5. j < k \/ j = k \/ k < j
  BY <1>2, <1>3
<1>6. CASE j < k
  <2>1. j \in 1 .. k - 1
    BY <1>2, <1>6 DEF LessAt
  <2>2. t[j] = s[j]
    BY <1>3, <2>1 DEF LessAt
  <2>3. s[j] < t[j]
    BY <1>2 DEF LessAt
  <2>. QED
    BY <1>4, <2>2, <2>3
<1>7. CASE j = k
  <2>1. s[j] < t[j] /\ t[j] < s[j]
    BY <1>2, <1>3, <1>7 DEF LessAt
  <2>. QED
    BY <1>4, <2>1
<1>8. CASE k < j
  <2>1. k \in 1 .. j - 1
    BY <1>3, <1>8 DEF LessAt
  <2>2. s[k] = t[k]
    BY <1>2, <2>1 DEF LessAt
  <2>3. t[k] < s[k]
    BY <1>3 DEF LessAt
  <2>. QED
    BY <1>4, <2>2, <2>3
<1>. QED
  BY <1>5, <1>6, <1>7, <1>8

\* Names are ordered transitively.
LEMMA LexTransitive ==
    ASSUME NEW s \in Seq(Int), NEW t \in Seq(Int), NEW u \in Seq(Int),
           LexLess(s, t), LexLess(t, u)
    PROVE  LexLess(s, u)
<1>1. PICK j \in Nat : LessAt(s, t, j)
  BY LexLessAt
<1>2. PICK k \in Nat : LessAt(t, u, k)
  BY LexLessAt
<1>3. PICK m \in Nat : m = IF j <= k THEN j ELSE k
  BY <1>1, <1>2
<1>4. /\ m \in 1 .. Len(s) /\ m \in 1 .. Len(t) /\ m \in 1 .. Len(u)
      /\ m <= j /\ m <= k
  BY <1>1, <1>2, <1>3, SMTT(40) DEF LessAt
<1>5. ASSUME NEW i \in 1 .. m - 1
      PROVE  s[i] = t[i] /\ t[i] = u[i]
  <2>1. i \in 1 .. j - 1 /\ i \in 1 .. k - 1
    BY <1>4
  <2>. QED
    BY <1>1, <1>2, <2>1 DEF LessAt
<1>6. s[m] \in Int /\ t[m] \in Int /\ u[m] \in Int
  BY <1>4
<1>7. s[m] <= t[m] /\ t[m] <= u[m] /\ (s[m] < t[m] \/ t[m] < u[m])
  <2>1. (m < j => s[m] = t[m]) /\ (m = j => s[m] < t[m])
    <3>1. m < j => m \in 1 .. j - 1
      BY <1>4
    <3>. QED
      BY <1>1, <3>1, Zenon DEF LessAt
  <2>2. (m < k => t[m] = u[m]) /\ (m = k => t[m] < u[m])
    <3>1. m < k => m \in 1 .. k - 1
      BY <1>4
    <3>. QED
      BY <1>2, <3>1, Zenon DEF LessAt
  <2>3. (m = j \/ m < j) /\ (m = k \/ m < k) /\ (m = j \/ m = k)
    BY <1>3, <1>4
  <2>. QED
    BY <1>6, <2>1, <2>2, <2>3
<1>8. LessAt(s, u, m)
  BY <1>4, <1>5, <1>6, <1>7, SMTT(40) DEF LessAt
<1>. QED
  BY <1>3, <1>8, LexLessAt

\* Of two names one comes before the other, or they are the same.
LEMMA LexTotal ==
    ASSUME NEW s, NEW t, IsName(s), IsName(t), s # t
    PROVE  LexLess(s, t) \/ LexLess(t, s)
<1> DEFINE Other == {k \in Nat : /\ k \in 1 .. Len(s)
                                 /\ k \in 1 .. Len(t)
                                 /\ s[k] # t[k]}
<1>1. /\ s \in Seq(Int) /\ t \in Seq(Int)
      /\ Len(s) \in Nat \ {0} /\ Len(t) \in Nat \ {0}
      /\ \A k \in 1 .. Len(s) : s[k] = -1 <=> k = Len(s)
      /\ \A k \in 1 .. Len(t) : t[k] = -1 <=> k = Len(t)
  BY DEF IsName
<1>2. Other # {}
  <2>1. SUFFICES ASSUME Other = {} PROVE FALSE
    OBVIOUS
  <2>2. \A k \in Nat : k \in 1 .. Len(s) /\ k \in 1 .. Len(t) => s[k] = t[k]
    BY <2>1
  <2>3. Len(s) = Len(t)
    <3>1. CASE Len(s) <= Len(t)
      <4>1. Len(s) \in 1 .. Len(s) /\ Len(s) \in 1 .. Len(t)
        BY <1>1, <3>1
      <4>2. t[Len(s)] = -1
        BY <1>1, <2>2, <4>1
      <4>. QED
        BY <1>1, <4>1, <4>2
    <3>2. CASE Len(t) <= Len(s)
      <4>1. Len(t) \in 1 .. Len(t) /\ Len(t) \in 1 .. Len(s)
        BY <1>1, <3>2
      <4>2. s[Len(t)] = -1
        BY <1>1, <2>2, <4>1
      <4>. QED
        BY <1>1, <4>1, <4>2
    <3>. QED
      BY <1>1, <3>1, <3>2
  <2>4. \A k \in 1 .. Len(s) : s[k] = t[k]
    BY <1>1, <2>2, <2>3
  <2>. QED
    BY <1>1, <2>3, <2>4, SeqEqual
<1>3. PICK k \in Other : \A j \in Other : k <= j
  BY <1>2, LeastNatural
<1>4. /\ k \in Nat /\ k \in 1 .. Len(s) /\ k \in 1 .. Len(t) /\ s[k] # t[k]
      /\ s[k] \in Int /\ t[k] \in Int
  BY <1>1, <1>3
<1>5. ASSUME NEW i \in 1 .. k - 1
      PROVE  s[i] = t[i]
  <2>1. i \in Nat /\ i \in 1 .. Len(s) /\ i \in 1 .. Len(t) /\ ~(k <= i)
    BY <1>1, <1>4, SMTT(40)
  <2>2. i \notin Other
    BY <1>3, <2>1
  <2>. QED
    BY <2>1, <2>2
<1>6. s[k] < t[k] \/ t[k] < s[k]
  BY <1>4
<1>7. LessAt(s, t, k) \/ LessAt(t, s, k)
  BY <1>4, <1>5, <1>6 DEF LessAt
<1>. QED
  BY <1>1, <1>4, <1>7, LexLessAt

\* Every metadata file has such a name.
LEMMA NameFacts ==
    ASSUME NEW f \in Metadata
    PROVE  IsName(Name(f))
<1>1. f.version \in Nat /\ f.style \in Style
  BY VersionsAssumption DEF Metadata, Version
<1>2. PICK d \in Seq(0 .. 9) : d = Digits[f.version]
  BY <1>1, DigitsType
<1>3. PICK p : p = IF f.style = "v" THEN <<10>> ELSE <<>>
  OBVIOUS
<1>4. /\ p \in Seq(Int) /\ Len(p) \in Nat
      /\ \A k \in 1 .. Len(p) : p[k] # -1
  BY <1>3
<1>5. /\ d \in Seq(Int) /\ Len(d) \in Nat
      /\ \A k \in 1 .. Len(d) : d[k] # -1
  <2>1. \A k \in 1 .. Len(d) : d[k] \in 0 .. 9
    BY <1>2
  <2>2. d \in Seq(Int)
    BY <1>2, SeqMonotonic
  <2>. QED
    BY <2>1, <2>2
<1>6. PICK q \in Seq(Int) : q = p \o d
  BY <1>4, <1>5, ConcatProperties
<1>7. Len(q) \in Nat /\ \A k \in 1 .. Len(q) : q[k] # -1
  BY <1>4, <1>5, <1>6
<1>8. Name(f) = q \o <<-1>>
  BY <1>2, <1>3, <1>6 DEF Name
<1>9. IsName(q \o <<-1>>)
  <2>1. /\ q \o <<-1>> \in Seq(Int) /\ Len(q \o <<-1>>) = Len(q) + 1
        /\ \A k \in 1 .. Len(q) : (q \o <<-1>>)[k] = q[k]
        /\ (q \o <<-1>>)[Len(q) + 1] = -1
    BY <1>6, <1>7
  <2>. QED
    BY <1>7, <2>1 DEF IsName
<1>. QED
  BY <1>8, <1>9

\* Two files of a style have different names.
LEMMA NamesDiffer ==
    ASSUME NEW f \in Metadata, NEW g \in Metadata,
           f.style = g.style, Name(f) = Name(g)
    PROVE  f = g
<1>1. f.version \in Nat /\ g.version \in Nat
  BY VersionsAssumption DEF Metadata, Version
<1>2. \A n \in Nat : Digits[n] \in Seq(Int)
  <2> TAKE n \in Nat
  <2>1. Digits[n] \in Seq(0 .. 9) /\ 0 .. 9 \subseteq Int
    BY DigitsType
  <2>. QED
    BY <2>1, SeqMonotonic
<1>3. PICK a \in Seq(Int), b \in Seq(Int) :
          a = Digits[f.version] /\ b = Digits[g.version]
  BY <1>1, <1>2
<1>4. PICK p \in Seq(Int) : p = IF f.style = "v" THEN <<10>> ELSE <<>>
  <2>1. <<10>> \in Seq(Int) /\ <<>> \in Seq(Int)
    OBVIOUS
  <2>. QED
    BY <2>1, Zenon
<1>5. (p \o a) \o <<-1>> = (p \o b) \o <<-1>>
  BY <1>3, <1>4 DEF Name
<1>6. p \o a = p \o b
  <2>1. PICK c \in Seq(Int), d \in Seq(Int) : c = p \o a /\ d = p \o b
    BY <1>3, <1>4, ConcatProperties
  <2>a. <<-1>> \in Seq(Int)
    OBVIOUS
  <2>2. PICK e \in Seq(Int) : e = <<-1>>
    BY <2>a, Zenon
  <2>3. \A s, t, v \in Seq(Int) : s \o v = t \o v => s = t
    BY ConcatSimplifications
  <2>4. c \o e = d \o e
    BY <1>5, <2>1, <2>2
  <2>. QED
    BY <2>1, <2>2, <2>3, <2>4, Zenon
<1>7. a = b
  <2>1. \A s, t, v \in Seq(Int) : s \o t = s \o v => t = v
    BY ConcatSimplifications
  <2>. QED
    BY <1>3, <1>4, <1>6, <2>1, Zenon
<1>8. f.version = g.version
  BY <1>1, <1>3, <1>7, DigitsDiffer
<1>. QED
  BY <1>8, SMTT(40) DEF Metadata

\* Every nonempty part of the files has a last name.
LastExists(set) == \A S \in SUBSET set : S # {} => PickTableVersion(S) # {}

\* A file that is added keeps it so.
LEMMA LastExistsAdded ==
    ASSUME NEW F, F \subseteq Metadata, NEW x \in Metadata,
           \A f \in F : f.style = x.style,
           LastExists(F)
    PROVE  LastExists(F \cup {x})
<1> SUFFICES ASSUME NEW S \in SUBSET (F \cup {x}), S # {}
             PROVE  PickTableVersion(S) # {}
  BY DEF LastExists
<1>1. CASE x \notin S
  BY <1>1 DEF LastExists
<1>2. CASE S = {x}
  BY <1>2 DEF PickTableVersion
<1>3. CASE x \in S /\ S # {x}
  <2>1. S \ {x} \in SUBSET F /\ S \ {x} # {}
    BY <1>3
  <2>2. PICK g \in PickTableVersion(S \ {x}) : TRUE
    BY <2>1 DEF LastExists
  <2>3. /\ g \in S /\ g # x /\ g \in F
        /\ \A h \in S : h # x /\ h # g => LexLess(Name(h), Name(g))
    BY <2>1, <2>2 DEF PickTableVersion
  <2>4. IsName(Name(g)) /\ IsName(Name(x)) /\ Name(g) # Name(x)
    BY <2>3, NameFacts, NamesDiffer
  <2>5. CASE LexLess(Name(x), Name(g))
    <3>1. g \in PickTableVersion(S)
      BY <2>3, <2>5 DEF PickTableVersion
    <3>. QED
      BY <3>1
  <2>6. CASE LexLess(Name(g), Name(x))
    <3>1. \A h \in S : h # x => LexLess(Name(h), Name(x))
      <4> SUFFICES ASSUME NEW h \in S, h # x, h # g
                   PROVE  LexLess(Name(h), Name(x))
        BY <2>6
      <4>1. LexLess(Name(h), Name(g))
        BY <2>3
      <4>2. h \in Metadata
        OBVIOUS
      <4>3. /\ Name(h) \in Seq(Int) /\ Name(g) \in Seq(Int)
            /\ Name(x) \in Seq(Int)
        BY <2>4, <4>2, NameFacts DEF IsName
      <4>. QED
        BY <2>6, <4>1, <4>3, LexTransitive
    <3>2. x \in PickTableVersion(S)
      BY <1>3, <3>1 DEF PickTableVersion
    <3>. QED
      BY <3>2
  <2>. QED
    BY <2>4, <2>5, <2>6, LexTotal
<1>. QED
  BY <1>1, <1>2, <1>3

-----------------------------------------------------------------------------
(* The files, and what a call that nothing disturbs finds *)

FileOf(version) == [style |-> style, version |-> version]

\* The round of the loops over the formats that matches the writer's files.
StyleFormat == IF style = "v" THEN 1 ELSE 2

\* What the writer leaves in the directory: files of one style, the current
\* version among them, and the next once it is written.
FilesInv ==
    /\ \A f \in files : f.style = style
    /\ FileOf(committed) \in files
    /\ writer # "idle" => FileOf(committed + 1) \in files
    /\ LastExists(files)
    /\ ~hinting => hint = NoVersion /\ started.hint = NoVersion

\* The version that a call looks for is one that was current.
LooksForCurrent ==
    request.table_version = "number" => version_hint = started.committed

\* Where a call stands, and why it may have failed.
CallInv ==
    /\ pc \in {"idle", "hint?", "hint"} => format = 1
    /\ pc = "idle" => ~guessed
    /\ pc = "hint?" => request.table_version = "?"
    /\ pc = "hint" => request.table_version # "number"
    /\ pc = "glob" => format <= StyleFormat
    /\ FailsOnlyIfDisturbed

\* What holds of a call as long as the writer has deleted nothing.
UndisturbedInv ==
    pc # "idle" /\ ~disturbed =>
        /\ FileOf(started.committed) \in files
        /\ started.hint # NoVersion => hint # NoVersion
        /\ pc = "hint" /\ request.table_version = "?" => hint # NoVersion
        /\ pc = "format" /\ LooksForCurrent =>
               FileOf(version_hint) \in files /\ format <= StyleFormat
        /\ pc = "open" => url \in files
        /\ pc \in {"open", "done"} /\ guessed =>
               ~LexLess(Name(url), Name(FileOf(started.committed)))

\* The format in which the writer names its files is one of the two.
LEMMA StyleFormatFacts ==
    ASSUME TypeOK
    PROVE  /\ StyleFormat \in 1 .. 2
           /\ Len(version_name_format) = 2
           /\ version_name_format[StyleFormat] = style
           /\ format \in Nat
<1>1. style = "v" \/ style = "plain"
  BY DEF TypeOK, Style
<1>2. version_name_format[1] = "v" /\ version_name_format[2] = "plain"
  BY DEF version_name_format
<1>3. format \in 1 .. Len(version_name_format) + 1
  BY DEF TypeOK
<1>4. StyleFormat \in 1 .. 2 /\ version_name_format[StyleFormat] = style
  BY <1>1, <1>2 DEF StyleFormat
<1>5. format \in Nat
  BY <1>3, TwoFormats
<1>. QED
  BY <1>4, <1>5, TwoFormats

\* The file of a version is a metadata file.
LEMMA FileIsMetadata ==
    ASSUME TypeOK, NEW version \in Version
    PROVE  FileOf(version) \in Metadata
BY DEF TypeOK, FileOf, Metadata

\* At first there is the file of the current version.
LEMMA FilesInvInit == Init => FilesInv
<1> SUFFICES ASSUME Init PROVE FilesInv
  OBVIOUS
<1>1. PICK x : x = FileOf(FirstVersion)
  OBVIOUS
<1>2. /\ files = {x} /\ committed = FirstVersion /\ writer = "idle"
      /\ x.style = style
  BY <1>1 DEF Init, FileOf
<1>3. LastExists(files)
  BY <1>2 DEF LastExists, PickTableVersion
<1>4. ~hinting => hint = NoVersion /\ started.hint = NoVersion
  BY DEF Init
<1>. QED
  BY <1>1, <1>2, <1>3, <1>4 DEF FilesInv

\* The writer adds the next version before it makes it current, and removes
\* none that is current or next.
LEMMA FilesInvNext ==
    ASSUME Inv, FilesInv, [Next]_vars
    PROVE  FilesInv'
<1>1. CASE WriteMetadata
  <2>1. PICK x : x = FileOf(committed + 1)
    OBVIOUS
  <2>2. /\ files' = files \cup {x} /\ x.style = style
        /\ UNCHANGED <<style, committed, hinting, hint, started>>
    BY <1>1, <2>1 DEF WriteMetadata, FileOf
  <2>3. x \in Metadata
    <3>1. committed + 1 \in Version
      BY <1>1, Numbers, VersionRange DEF Inv, WriteMetadata
    <3>. QED
      BY <2>1, <3>1, FileIsMetadata DEF Inv
  <2>4. files \subseteq Metadata /\ \A f \in files : f.style = x.style
    BY <2>2 DEF Inv, TypeOK, FilesInv
  <2>5. LastExists(files')
    BY <2>2, <2>3, <2>4, LastExistsAdded DEF FilesInv
  <2>. QED
    BY <2>1, <2>2, <2>5 DEF FilesInv, FileOf
<1>2. CASE DeleteHint
  BY <1>2 DEF DeleteHint, FilesInv, FileOf
<1>3. CASE PublishHint
  BY <1>3 DEF PublishHint, FilesInv, FileOf
<1>4. CASE RemoveOld
  <2>1. PICK f \in files : /\ f.version <= committed - Retained
                           /\ files' = files \ {f}
    BY <1>4 DEF RemoveOld
  <2>2. f # FileOf(committed) /\ f # FileOf(committed + 1)
    <3>1. committed \in Int /\ Retained \in Nat \ {0}
      BY Numbers, VersionsAssumption DEF Inv
    <3>. QED
      BY <2>1, <3>1 DEF FileOf
  <2>3. UNCHANGED <<style, committed, writer, hinting, hint, started>>
    BY <1>4 DEF RemoveOld
  <2>4. LastExists(files')
    BY <2>1 DEF FilesInv, LastExists
  <2>. QED
    BY <2>1, <2>2, <2>3, <2>4 DEF FilesInv, FileOf
<1>5. CASE Call \/ UNCHANGED vars
  <2>1. /\ UNCHANGED <<files, hint, style, hinting, committed, writer>>
        /\ started'.hint \in {started.hint, hint}
    BY <1>5 DEF Call, GetMetaDataPath, HintFileExists, Fail, TryFormat,
                GetTableVersionFromHint, GenerateMetaDataUrl,
                GuessTableVersion, ReadMetaData, vars
  <2>. QED
    BY <2>1 DEF FilesInv, FileOf
<1>. QED
  BY <1>1, <1>2, <1>3, <1>4, <1>5 DEF Next, Writer

ReaderInv == CallInv /\ UndisturbedInv

\* A call that has not begun has nothing to account for.
LEMMA ReaderInvInit == Init => ReaderInv
BY DEF Init, ReaderInv, CallInv, UndisturbedInv, FailsOnlyIfDisturbed

\* Only the deletion of a hint or of a file takes from the call what it was to
\* find.
LEMMA ReaderInvWriter ==
    ASSUME Inv, FilesInv, ReaderInv, Writer
    PROVE  ReaderInv'
<1>1. /\ UNCHANGED <<request, version_hint, format, url, guessed, pc>>
      /\ UNCHANGED <<style, hinting, started>>
      /\ disturbed => disturbed'
  <2>1. CASE WriteMetadata \/ PublishHint
    <3>1. /\ UNCHANGED <<request, version_hint, format, url, guessed, pc>>
          /\ UNCHANGED <<style, hinting, started>>
          /\ disturbed' = disturbed
      BY <2>1 DEF WriteMetadata, PublishHint, callVars, startVars
    <3>. QED
      BY <3>1, Zenon
  <2>2. CASE DeleteHint
    <3>1. disturbed' = (disturbed \/ hinting)
      BY <2>2 DEF DeleteHint
    <3>2. disturbed => disturbed'
      BY <3>1, Zenon
    <3>3. /\ UNCHANGED <<request, version_hint, format, url, guessed, pc>>
          /\ UNCHANGED <<style, hinting, started>>
      BY <2>2 DEF DeleteHint, callVars
    <3>. QED
      BY <3>2, <3>3, Zenon
  <2>3. CASE RemoveOld
    BY <2>3 DEF RemoveOld
  <2>. QED
    BY <2>1, <2>2, <2>3 DEF Writer
<1>2. CallInv'
  BY <1>1 DEF ReaderInv, CallInv, FailsOnlyIfDisturbed, StyleFormat
<1>3. ~disturbed' => /\ files \subseteq files'
                     /\ hint # NoVersion => hint' # NoVersion
                     /\ started.hint # NoVersion => hinting
                     /\ ~disturbed
  <2>1. committed + 1 \in Int /\ committed + 1 # NoVersion
    BY Numbers, VersionsAssumption DEF Inv, NoVersion
  <2>2. CASE WriteMetadata
    BY <2>2 DEF WriteMetadata, FilesInv
  <2>3. CASE DeleteHint
    BY <2>3 DEF DeleteHint, FilesInv
  <2>4. CASE PublishHint
    BY <2>1, <2>4 DEF PublishHint, FilesInv
  <2>5. CASE RemoveOld
    BY <2>5 DEF RemoveOld
  <2>. QED
    BY <2>2, <2>3, <2>4, <2>5 DEF Writer
<1>4. UndisturbedInv'
  <2>1. SUFFICES ASSUME pc' # "idle", ~disturbed'
                 PROVE  UndisturbedInv'
    BY DEF UndisturbedInv
  <2>2. \A v : FileOf(v)' = FileOf(v)
    BY <1>1 DEF FileOf
  <2>3. StyleFormat' = StyleFormat /\ LooksForCurrent' = LooksForCurrent
    BY <1>1 DEF StyleFormat, LooksForCurrent
  <2>. QED
    BY <1>1, <1>3, <2>1, <2>2, <2>3 DEF ReaderInv, UndisturbedInv, FileOf
<1>. QED
  BY <1>2, <1>4 DEF ReaderInv

\* Failing for a cause is all that can go wrong.
LEMMA ReaderInvFail ==
    ASSUME ReaderInv, pc # "idle", Fail, FailsOnlyIfDisturbed'
    PROVE  ReaderInv'
BY DEF ReaderInv, CallInv, UndisturbedInv, Fail, StyleFormat, LooksForCurrent,
       FileOf

\* The steps up to the version.
LEMMA ReaderInvStart ==
    ASSUME Inv, FilesInv, ReaderInv,
           GetMetaDataPath \/ HintFileExists \/ GetTableVersionFromHint
    PROVE  ReaderInv'
<1>1. StyleFormat \in 1 .. 2
  BY StyleFormatFacts DEF Inv
<1>2. CASE GetMetaDataPath
  <2>1. /\ UNCHANGED <<files, hint, style, request, format, guessed>>
        /\ started'.committed = committed /\ started'.hint = hint
        /\ pc = "idle" /\ pc' \in {"hint", "format", "hint?"}
        /\ pc' = "hint" => request.table_version = "version-hint.text"
        /\ pc' = "hint?" => request.table_version = "?"
        /\ pc' = "format" => request.table_version = "number"
    BY <1>2 DEF GetMetaDataPath
  <2>2. format = 1 /\ ~guessed /\ FileOf(committed) \in files
    BY <2>1 DEF ReaderInv, CallInv, FilesInv
  <2>3. StyleFormat' = StyleFormat /\ 1 <= StyleFormat
    BY <1>1, <2>1 DEF StyleFormat
  <2>4. CallInv'
    BY <2>1, <2>2 DEF CallInv, FailsOnlyIfDisturbed
  <2>5. UndisturbedInv'
    BY <2>1, <2>2, <2>3 DEF UndisturbedInv, LooksForCurrent, FileOf
  <2>. QED
    BY <2>4, <2>5 DEF ReaderInv
<1>3. CASE HintFileExists
  <2>1. CASE Fail
    <3>1. /\ hint = NoVersion /\ ~request.guessing /\ pc = "hint?"
      BY <1>3, <2>1 DEF HintFileExists, Fail, UnsafeVersionGuessingEnabled
    <3>2. disturbed \/ started.hint = NoVersion
      BY <3>1 DEF ReaderInv, UndisturbedInv
    <3>3. FailsOnlyIfDisturbed'
      BY <2>1, <3>1, <3>2 DEF FailsOnlyIfDisturbed, Fail
    <3>. QED
      BY <2>1, <3>1, <3>3, ReaderInvFail
  <2>2. CASE ~Fail
    BY <1>1, <1>3, <2>2
       DEF HintFileExists, ReaderInv, CallInv, UndisturbedInv, StyleFormat,
           LooksForCurrent, FileOf, FailsOnlyIfDisturbed
  <2>. QED
    BY <2>1, <2>2
<1>4. CASE GetTableVersionFromHint
  <2>1. CASE Fail
    <3>1. hint = NoVersion /\ pc = "hint"
      BY <1>4, <2>1 DEF GetTableVersionFromHint, Fail
    <3>2. \/ disturbed
          \/ started.hint = NoVersion /\ request.table_version # "?"
      BY <3>1 DEF ReaderInv, UndisturbedInv
    <3>3. FailsOnlyIfDisturbed'
      BY <2>1, <3>1, <3>2 DEF FailsOnlyIfDisturbed, Fail
    <3>. QED
      BY <2>1, <3>1, <3>3, ReaderInvFail
  <2>2. CASE ~Fail
    <3>1. /\ UNCHANGED <<files, hint, style, request, format, guessed, url>>
          /\ UNCHANGED <<started, disturbed>>
          /\ pc = "hint" /\ pc' = "format"
          /\ version_hint' = hint /\ hint # NoVersion
      BY <1>4, <2>2 DEF GetTableVersionFromHint
    <3>2. hint = committed /\ FileOf(committed) \in files /\ format = 1
      BY <3>1 DEF Inv, WriterInv, FilesInv, ReaderInv, CallInv
    <3>3. CallInv'
      BY <3>1, <3>2 DEF CallInv, FailsOnlyIfDisturbed
    <3>4. StyleFormat' = StyleFormat /\ 1 <= StyleFormat
      BY <1>1, <3>1 DEF StyleFormat
    <3>5. UndisturbedInv'
      BY <3>1, <3>2, <3>4 DEF ReaderInv, UndisturbedInv, FileOf
    <3>. QED
      BY <3>3, <3>5 DEF ReaderInv
  <2>. QED
    BY <2>1, <2>2
<1>. QED
  BY <1>2, <1>3, <1>4

\* The format of the writer's files finds the file of a version that is there.
LEMMA ReaderInvGenerate ==
    ASSUME Inv, FilesInv, ReaderInv, GenerateMetaDataUrl
    PROVE  ReaderInv'
<1> DEFINE found == {f \in files : InFormat({f.style})
                                   /\ f.version = version_hint}
<1>1. pc = "format" /\ TryFormat(found)
  BY DEF GenerateMetaDataUrl
<1>2. /\ StyleFormat \in 1 .. 2 /\ Len(version_name_format) = 2
      /\ version_name_format[StyleFormat] = style
      /\ format \in Nat
  BY StyleFormatFacts DEF Inv
<1>3. FileOf(version_hint) \in files /\ format = StyleFormat => found # {}
  BY <1>2 DEF InFormat, FileOf
<1> HIDE DEF found
<1>4. CASE Fail
  <2>1. format > 2
    BY <1>1, <1>2, <1>4 DEF TryFormat, Fail
  <2>2. disturbed \/ ~LooksForCurrent
    BY <1>1, <1>2, <2>1 DEF ReaderInv, UndisturbedInv
  <2>3. FailsOnlyIfDisturbed'
    BY <1>4, <2>2 DEF FailsOnlyIfDisturbed, LooksForCurrent, Fail
  <2>. QED
    BY <1>1, <1>4, <2>3, ReaderInvFail
<1>5. CASE ~Fail
  <2>1. /\ UNCHANGED <<files, hint, style, request, version_hint, started,
                       disturbed>>
        /\ \/ url' \in found /\ guessed' = FALSE /\ pc' = "open"
           \/ /\ found = {} /\ format' = format + 1
              /\ UNCHANGED <<url, guessed, pc>>
    BY <1>1, <1>5 DEF TryFormat
  <2>2. CallInv'
    BY <1>1, <2>1 DEF CallInv, FailsOnlyIfDisturbed
  <2>3. /\ StyleFormat' = StyleFormat /\ LooksForCurrent' = LooksForCurrent
        /\ FileOf(version_hint)' = FileOf(version_hint)
        /\ FileOf(started.committed)' = FileOf(started.committed)
    BY <2>1 DEF StyleFormat, LooksForCurrent, FileOf
  <2>4. CASE pc' = "open"
    <3>1. url' \in files' /\ guessed' = FALSE
      BY <1>1, <2>1, <2>4 DEF found
    <3>. QED
      BY <1>1, <2>1, <2>2, <2>3, <2>4, <3>1 DEF ReaderInv, UndisturbedInv
  <2>5. CASE pc' = "format"
    <3>1. found = {} /\ format' = format + 1
      BY <2>1, <2>5
    <3>2. FileOf(version_hint) \in files /\ format <= StyleFormat
              => format' <= StyleFormat
      BY <1>2, <1>3, <3>1
    <3>. QED
      BY <1>1, <2>1, <2>2, <2>3, <2>5, <3>2 DEF ReaderInv, UndisturbedInv
  <2>. QED
    BY <1>1, <2>1, <2>4, <2>5
<1>. QED
  BY <1>4, <1>5

\* A format matches all files of the writer or none, so that the last of those
\* that match does not come before the one that was current.
LEMMA ReaderInvGuess ==
    ASSUME Inv, FilesInv, ReaderInv, GuessTableVersion
    PROVE  ReaderInv'
<1> DEFINE matching == {f \in files : InFormat({"plain", f.style})}
           found == PickTableVersion(matching)
<1>1. pc = "glob" /\ TryFormat(found)
  BY DEF GuessTableVersion
<1>2. /\ StyleFormat \in 1 .. 2 /\ Len(version_name_format) = 2
      /\ version_name_format[StyleFormat] = style
      /\ format \in Nat /\ format <= StyleFormat
  <2>1. format <= StyleFormat
    BY <1>1 DEF ReaderInv, CallInv
  <2>. QED
    BY <2>1, StyleFormatFacts DEF Inv
<1>3. /\ \A f \in files : f.style = style
      /\ FileOf(committed) \in files
  BY DEF FilesInv
<1>4. matching = {} \/ matching = files
  BY <1>3
<1>5. found = {} => format # StyleFormat
  <2>1. format = StyleFormat => matching # {}
    BY <1>2, <1>3 DEF InFormat
  <2>2. matching # {} => found # {}
    <3>1. matching \in SUBSET files
      OBVIOUS
    <3> HIDE DEF matching
    <3>. QED
      BY <3>1 DEF FilesInv, LastExists
  <2>. QED
    BY <2>1, <2>2
<1>6. ASSUME NEW u \in found, NEW x \in files
      PROVE  u \in files /\ ~LexLess(Name(u), Name(x))
  <2>1. u \in files /\ x \in matching
    BY <1>4, <1>6 DEF PickTableVersion
  <2>2. Name(u) \in Seq(Int) /\ Name(x) \in Seq(Int)
    BY <2>1, NameFacts DEF Inv, TypeOK, IsName
  <2>3. u = x \/ LexLess(Name(x), Name(u))
    BY <2>1 DEF PickTableVersion
  <2>. QED
    BY <2>1, <2>2, <2>3, LexAsymmetric
<1> HIDE DEF found, matching
<1>7. ~Fail
  BY <1>1, <1>2 DEF TryFormat, Fail
<1>8. /\ UNCHANGED <<files, hint, style, request, version_hint, started,
                     disturbed>>
      /\ \/ url' \in found /\ guessed' = TRUE /\ pc' = "open"
         \/ /\ found = {} /\ format' = format + 1
            /\ UNCHANGED <<url, guessed, pc>>
  BY <1>1, <1>7 DEF TryFormat
<1>9. StyleFormat' = StyleFormat
  BY <1>8 DEF StyleFormat
<1>10. CASE pc' = "open"
  <2>1. CallInv'
    BY <1>10 DEF CallInv, FailsOnlyIfDisturbed
  <2>2. url' \in found
    BY <1>1, <1>8, <1>10
  <2>3. PICK u \in found : u = url'
    BY <2>2
  <2>4. UndisturbedInv'
    <3>1. SUFFICES ASSUME ~disturbed'
                   PROVE  UndisturbedInv'
      BY DEF UndisturbedInv
    <3>2. PICK x : x = FileOf(started.committed)
      OBVIOUS
    <3>3. x \in files /\ (started.hint # NoVersion => hint # NoVersion)
      BY <1>1, <1>8, <3>1, <3>2 DEF ReaderInv, UndisturbedInv
    <3>4. u \in files /\ ~LexLess(Name(u), Name(x))
      BY <1>6, <2>3, <3>3
    <3>5. FileOf(started.committed)' = x
      BY <1>8, <3>2 DEF FileOf
    <3>6. ~LexLess(Name(url), Name(FileOf(started.committed)))'
      BY <2>3, <3>4, <3>5
    <3>. QED
      BY <1>8, <1>10, <2>3, <3>3, <3>4, <3>5, <3>6 DEF UndisturbedInv
  <2>. QED
    BY <2>1, <2>4 DEF ReaderInv
<1>11. CASE pc' = "glob"
  <2>1. format' = format + 1 /\ format' <= StyleFormat
    BY <1>2, <1>5, <1>8, <1>11
  <2>. QED
    BY <1>1, <1>8, <1>9, <1>11, <2>1
       DEF ReaderInv, CallInv, UndisturbedInv, FailsOnlyIfDisturbed, FileOf
<1>. QED
  BY <1>1, <1>8, <1>10, <1>11

\* The file that was chosen is there, or the writer removed it meanwhile.
LEMMA ReaderInvRead ==
    ASSUME ReaderInv, ReadMetaData
    PROVE  ReaderInv'
<1>1. CASE Fail
  <2>1. pc = "open" /\ url \notin files
    BY <1>1 DEF ReadMetaData, Fail
  <2>2. disturbed
    BY <2>1 DEF ReaderInv, UndisturbedInv
  <2>3. FailsOnlyIfDisturbed'
    BY <1>1, <2>2 DEF FailsOnlyIfDisturbed, Fail
  <2>. QED
    BY <1>1, <2>1, <2>3, ReaderInvFail
<1>2. CASE ~Fail
  BY <1>2 DEF ReadMetaData, ReaderInv, CallInv, UndisturbedInv, FileOf,
              StyleFormat, LooksForCurrent, FailsOnlyIfDisturbed
<1>. QED
  BY <1>1, <1>2

\* Both invariants hold always.
LEMMA UndisturbedCall == Spec => [](FilesInv /\ ReaderInv)
<1>1. Init => FilesInv /\ ReaderInv
  BY FilesInvInit, ReaderInvInit
<1>2. ASSUME Inv, FilesInv, ReaderInv, [Next]_vars
      PROVE  FilesInv' /\ ReaderInv'
  <2>1. FilesInv'
    BY <1>2, FilesInvNext
  <2>2. CASE Writer
    BY <1>2, <2>1, <2>2, ReaderInvWriter
  <2>3. CASE Call
    BY <1>2, <2>1, <2>3, ReaderInvStart, ReaderInvGenerate, ReaderInvGuess,
       ReaderInvRead DEF Call
  <2>4. CASE UNCHANGED vars
    BY <1>2, <2>1, <2>4
       DEF vars, ReaderInv, CallInv, UndisturbedInv, FileOf, StyleFormat,
           LooksForCurrent, FailsOnlyIfDisturbed
  <2>. QED
    BY <1>2, <2>2, <2>3, <2>4 DEF Next
<1>. QED
  BY <1>1, <1>2, Invariance, PTL DEF Spec

\* A guess finds a file whose name comes no earlier than that of the version
\* that was current when the call began, unless the writer deletes files
\* meanwhile: for any number of digits and either style of names
\* (PickTableVersion).
THEOREM GuessIsGreatest == Spec => []GuessFindsGreatest
<1>1. UndisturbedInv => GuessFindsGreatest
  BY DEF UndisturbedInv, GuessFindsGreatest, FileOf
<1>. QED
  BY <1>1, UndisturbedCall, PTL DEF ReaderInv

\* A call that nothing disturbs fails only for want of a hint, or for a version
\* that was never current (GetMetaDataPath and what it calls).
THEOREM FailuresExplained == Spec => []FailsOnlyIfDisturbed
<1>1. CallInv => FailsOnlyIfDisturbed
  BY DEF CallInv
<1>. QED
  BY <1>1, UndisturbedCall, PTL DEF ReaderInv

=============================================================================
