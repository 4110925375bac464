-------------------------- MODULE TableSchemaProofs --------------------------
(***************************************************************************)
(* A query reads the snapshot that was asked for, in arrays of any length   *)
(* and numbers of any width, and the columns of the table's current schema, *)
(* with types nested to any depth.  The entry of a catalog, which is read by *)
(* another parser from another document, has the same columns or none.      *)
(***************************************************************************)
EXTENDS TableSchema, SequenceTheorems, FiniteSetTheorems,
        WellFoundedInduction, TLAPS

-----------------------------------------------------------------------------
(* The selection of a snapshot *)

Millis(k) == snapshots[k].timestamp_ms

\* What the loops for the latest snapshot know of the part they have seen.
LatestSoFar(limit) ==
    IF found = 0
    THEN /\ max_millis = 0
         /\ \A j \in 1 .. idx : Millis(j) > limit
    ELSE /\ max_millis = Millis(found)
         /\ Millis(found) <= limit
         /\ \A j \in 1 .. idx :
               Millis(j) <= limit => \/ Millis(j) < Millis(found)
                                     \/ Millis(j) = Millis(found) /\ j <= found

\* What the loop for an id knows.
IdSoFar ==
    /\ found # 0 => snapshots[found].snapshot_id = request.snapshot_id
    /\ found # 0 <=> pc = "done"
    /\ \A j \in 1 .. idx :
          snapshots[j].snapshot_id = request.snapshot_id => j = found

\* Only a request for a particular snapshot fails, when nothing is found.
Outcome ==
    /\ pc = "error" <=> /\ pc # "loop"
                        /\ found = 0
                        /\ request.snapshot_source # "LATEST"
    /\ pc = "loop" \/ idx = Len(snapshots) \/ request.snapshot_source = "FROM_ID"
    /\ pc = "error" => idx = Len(snapshots)

Inv ==
    /\ TypeOK
    /\ Outcome
    /\ request.snapshot_source = "LATEST" => LatestSoFar(2 * HalfRange - 1)
    /\ request.snapshot_source = "FROM_TIMESTAMP"
       => LatestSoFar(ToUnsigned(request.snapshot_timestamp))
    /\ request.snapshot_source = "FROM_ID" => IdSoFar

-----------------------------------------------------------------------------

\* What the assumption on Tables says of a single snapshot: its timestamp is a
\* signed number from 1970 on, which converting leaves as it is.
LEMMA SnapshotFields ==
    ASSUME TypeOK, NEW k \in 1 .. Len(snapshots)
    PROVE  Millis(k) \in 0 .. HalfRange - 1
<1>1. snapshots \in Seq(Snapshot)
  BY TablesAssumption DEF TypeOK
<1>2. snapshots[k] \in Snapshot
  BY <1>1
<1> QED
  BY <1>2 DEF Snapshot, Millis

\* The array is a sequence.
LEMMA SnapshotsLength ==
    ASSUME TypeOK
    PROVE  Len(snapshots) \in Nat
BY TablesAssumption DEF TypeOK

\* The bound of both loops is a number.
LEMMA UnsignedType ==
    ASSUME TypeOK
    PROVE  ToUnsigned(request.snapshot_timestamp) \in Int
<1>1. request.snapshot_timestamp \in Signed
  BY DEF TypeOK, Request
<1> QED
  BY <1>1, RangeAssumption DEF Signed, ToUnsigned

\* One round keeps the latest of the snapshots up to limit that were seen.
LEMMA KeepLatestStep ==
    ASSUME TypeOK, NEW CONSTANT limit \in Int, LatestSoFar(limit),
           KeepLatest(limit)
    PROVE  LatestSoFar(limit)'
<1> DEFINE k == idx + 1
<1>1. idx \in Nat /\ found \in 0 .. idx /\ k \in 1 .. Len(snapshots)
  BY SnapshotsLength DEF TypeOK, KeepLatest
<1>2. /\ \A j \in 1 .. k : Millis(j) \in 0 .. HalfRange - 1
      /\ max_millis \in Nat
  <2>1. ASSUME NEW j \in 1 .. k PROVE Millis(j) \in 0 .. HalfRange - 1
    BY <1>1, SnapshotFields, SnapshotsLength
  <2> QED
    BY <2>1, RangeAssumption DEF TypeOK, Unsigned
<1>3. /\ idx' = k
      /\ \A j : Millis(j)' = Millis(j)
      /\ Current.timestamp_ms = Millis(k)
  BY DEF KeepLatest, Advance, Millis, Current
<1>4. CASE Better(limit)
  <2>1. /\ found' = k
        /\ max_millis' = Millis(k)
        /\ Millis(k) <= limit
        /\ Millis(k) >= max_millis
    BY <1>3, <1>4 DEF KeepLatest, Better
  <2>2. ASSUME NEW j \in 1 .. k, Millis(j) <= limit
        PROVE  Millis(j) < Millis(k) \/ (Millis(j) = Millis(k) /\ j <= k)
    <3>1. CASE j = k
      BY <3>1, <1>1
    <3>2. CASE j # k
      <4>1. j \in 1 .. idx
        BY <3>2, <1>1
      <4>2. found # 0
        BY <4>1, <2>2, <1>1, <1>2, RangeAssumption DEF LatestSoFar
      <4>3. Millis(j) <= max_millis
        BY <4>1, <4>2, <2>2, <1>1, <1>2, RangeAssumption DEF LatestSoFar
      <4> QED
        BY <4>3, <2>1, <1>1, <1>2, RangeAssumption
    <3> QED
      BY <3>1, <3>2
  <2> QED
    BY <2>1, <2>2, <1>1, <1>3 DEF LatestSoFar
<1>5. CASE ~Better(limit)
  <2>1. found' = found /\ max_millis' = max_millis
    BY <1>5 DEF KeepLatest
  <2>2. Millis(k) > limit \/ Millis(k) < max_millis
    BY <1>1, <1>2, <1>3, <1>5, RangeAssumption DEF Better
  <2>3. CASE found = 0
    <3>1. Millis(k) > limit
      BY <2>2, <2>3, <1>1, <1>2, RangeAssumption DEF LatestSoFar
    <3> QED
      BY <3>1, <2>1, <2>3, <1>1, <1>3 DEF LatestSoFar
  <2>4. CASE found # 0
    <3>1. found \in 1 .. k /\ max_millis = Millis(found)
      BY <2>4, <1>1 DEF LatestSoFar
    <3>2. Millis(k) <= limit => Millis(k) < Millis(found)
      BY <3>1, <2>2, <1>1, <1>2, RangeAssumption
    <3>3. \A j \in 1 .. k : j \in 1 .. idx \/ j = k
      BY <1>1
    <3> QED
      BY <3>1, <3>2, <3>3, <2>1, <2>4, <1>1, <1>3 DEF LatestSoFar
  <2> QED
    BY <2>3, <2>4
<1> QED
  BY <1>4, <1>5

-----------------------------------------------------------------------------

\* The loop begins with nothing seen.
LEMMA InitInv == Init => Inv
<1> SUFFICES ASSUME Init PROVE Inv
  OBVIOUS
<1>1. TypeOK
  BY TablesAssumption, RangeAssumption DEF Init, TypeOK, Unsigned
<1>2. Outcome
  BY DEF Init, Outcome
<1>3. ASSUME NEW limit PROVE LatestSoFar(limit)
  BY DEF Init, LatestSoFar
<1>4. IdSoFar
  BY DEF Init, IdSoFar
<1> QED
  BY <1>1, <1>2, <1>3, <1>4 DEF Inv

\* A round of the loop for an id.
LEMMA FindByIdStep ==
    ASSUME TypeOK, IdSoFar, FindSnapshotByIdInternal
    PROVE  IdSoFar'
<1> DEFINE k == idx + 1
<1>1. idx \in Nat /\ k \in 1 .. Len(snapshots) /\ found = 0
  BY SnapshotsLength DEF TypeOK, FindSnapshotByIdInternal, IdSoFar
<1>2. idx' = k /\ snapshots' = snapshots /\ request' = request
  BY DEF FindSnapshotByIdInternal, Advance
<1>3. \A j \in 1 .. k : j = k \/ j \in 1 .. idx
  BY <1>1
<1>4. ASSUME NEW j \in 1 .. idx
      PROVE  snapshots[j].snapshot_id # request.snapshot_id
  BY <1>1, <1>4 DEF IdSoFar
<1>5. CASE snapshots[k].snapshot_id = request.snapshot_id
  <2>1. found' = k /\ pc' = "done"
    BY <1>5 DEF FindSnapshotByIdInternal, Current
  <2> QED
    BY <2>1, <1>1, <1>2, <1>3, <1>4, <1>5 DEF IdSoFar
<1>6. CASE snapshots[k].snapshot_id # request.snapshot_id
  <2>1. found' = 0 /\ pc' = "loop"
    BY <1>1, <1>6 DEF FindSnapshotByIdInternal, Current
  <2> QED
    BY <2>1, <1>1, <1>2, <1>3, <1>4, <1>6 DEF IdSoFar
<1> QED
  BY <1>5, <1>6

\* A round of either of the loops for the latest snapshot.
LEMMA KeepLatestInv ==
    ASSUME Inv, pc = "loop", NEW CONSTANT limit \in Int,
           LatestSoFar(limit), KeepLatest(limit)
    PROVE  TypeOK' /\ Outcome' /\ LatestSoFar(limit)' /\ pc' = "loop"
<1>1. LatestSoFar(limit)'
  BY KeepLatestStep DEF Inv
<1>2. /\ snapshots' = snapshots /\ request' = request /\ pc' = pc
      /\ idx' = idx + 1
      /\ idx < Len(snapshots)
      /\ \/ found' = idx + 1 /\ max_millis' = Current.timestamp_ms
         \/ found' = found /\ max_millis' = max_millis
  BY DEF KeepLatest, Advance
<1>3. Current.timestamp_ms \in Unsigned
  <2>1. idx + 1 \in 1 .. Len(snapshots)
    BY <1>2, SnapshotsLength DEF Inv, TypeOK
  <2>2. Millis(idx + 1) \in 0 .. HalfRange - 1
    BY <2>1, SnapshotFields DEF Inv
  <2> QED
    BY <2>2, RangeAssumption DEF Millis, Current, Unsigned
<1>4. TypeOK'
  BY <1>2, <1>3, SnapshotsLength DEF Inv, TypeOK
<1> QED
  BY <1>1, <1>2, <1>4 DEF Inv, Outcome

\* Each step of the loop keeps what is known of the part it has seen.
LEMMA NextInv == Inv /\ [Next]_vars => Inv'
<1> SUFFICES ASSUME Inv, [Next]_vars PROVE Inv'
  OBVIOUS
<1>1. CASE FindLatestSnapshotInternal
  <2> DEFINE limit == 2 * HalfRange - 1
  <2>1. limit \in Int
    BY RangeAssumption
  <2>2. pc = "loop" /\ request.snapshot_source = "LATEST"
    BY <1>1 DEF FindLatestSnapshotInternal
  <2>3. LatestSoFar(limit) /\ KeepLatest(limit)
    BY <1>1, <2>2 DEF FindLatestSnapshotInternal, Inv
  <2>4. request' = request
    BY <2>3 DEF KeepLatest, Advance
  <2> HIDE DEF limit
  <2>5. TypeOK' /\ Outcome' /\ LatestSoFar(limit)'
    BY <2>1, <2>2, <2>3, KeepLatestInv
  <2> QED
    BY <2>2, <2>4, <2>5 DEF Inv, limit
<1>2. CASE FindSnapshotByIdTimestampInternal
  <2>1. PICK limit \in Int : limit = ToUnsigned(request.snapshot_timestamp)
    BY UnsignedType DEF Inv
  <2>2. pc = "loop" /\ request.snapshot_source = "FROM_TIMESTAMP"
    BY <1>2 DEF FindSnapshotByIdTimestampInternal
  <2>3. LatestSoFar(limit) /\ KeepLatest(limit)
    BY <1>2, <2>1, <2>2 DEF FindSnapshotByIdTimestampInternal, Inv
  <2>4. request' = request
    BY <2>3 DEF KeepLatest, Advance
  <2>5. TypeOK' /\ Outcome' /\ LatestSoFar(limit)'
    BY <2>2, <2>3, KeepLatestInv
  <2>6. ToUnsigned(request'.snapshot_timestamp) = limit
    BY <2>1, <2>4
  <2> QED
    BY <2>2, <2>4, <2>5, <2>6 DEF Inv
<1>3. CASE FindSnapshotByIdInternal
  <2>1. pc = "loop" /\ request.snapshot_source = "FROM_ID" /\ IdSoFar
    BY <1>3 DEF FindSnapshotByIdInternal, Inv
  <2>2. request' = request
    BY <1>3 DEF FindSnapshotByIdInternal, Advance
  <2>3. TypeOK'
    BY <1>3, SnapshotsLength DEF Inv, TypeOK, FindSnapshotByIdInternal, Advance
  <2>4. IdSoFar'
    BY <1>3, <2>1, FindByIdStep DEF Inv
  <2>5. Outcome'
    BY <1>3, <2>1, <2>2, <2>4 DEF FindSnapshotByIdInternal, Outcome, IdSoFar
  <2> QED
    BY <2>1, <2>2, <2>3, <2>4, <2>5 DEF Inv
<1>4. CASE EndOfLoop
  <2>1. UNCHANGED <<snapshots, request, idx, max_millis, found>>
    BY <1>4 DEF EndOfLoop
  <2>2. TypeOK' /\ Outcome'
    BY <1>4, <2>1 DEF Inv, TypeOK, EndOfLoop, Outcome
  <2>3. ASSUME NEW CONSTANT limit, LatestSoFar(limit) PROVE LatestSoFar(limit)'
    BY <2>1, <2>3 DEF LatestSoFar, Millis
  <2> QED
    BY <1>4, <2>1, <2>2 DEF Inv, EndOfLoop, LatestSoFar, Millis, IdSoFar
<1>5. CASE UNCHANGED vars
  BY <1>5 DEF vars, Inv, TypeOK, Outcome, LatestSoFar, Millis, IdSoFar
<1> QED
  BY <1>1, <1>2, <1>3, <1>4, <1>5 DEF Next

\* The invariant holds in every reachable state.
THEOREM InvHolds == Spec => []Inv
BY InitInv, NextInv, PTL DEF Spec

\* The position of the loop stays in the array, what it found is behind it and
\* max_timestamp is an unsigned number of 64 bits, for all tables and requests.
THEOREM TypeCorrect == Spec => []TypeOK
<1>1. Inv => TypeOK
  BY DEF Inv
<1> QED
  BY <1>1, InvHolds, PTL

-----------------------------------------------------------------------------

\* A scan that names no snapshot reads the latest one.
THEOREM LatestSelected == Spec => []LatestIsLatest
<1>1. Inv => LatestIsLatest
  <2> SUFFICES ASSUME Inv, pc # "loop", request.snapshot_source = "LATEST"
               PROVE  /\ pc = "done"
                      /\ IF snapshots = <<>> THEN found = 0
                         ELSE /\ found # 0
                              /\ IsLatestUpTo(HalfRange - 1, found)
    BY DEF LatestIsLatest
  <2>1. pc = "done" /\ idx = Len(snapshots)
    BY DEF Inv, Outcome, TypeOK
  <2>2. LatestSoFar(2 * HalfRange - 1)
    BY DEF Inv
  <2>3. \A j \in 1 .. Len(snapshots) : Millis(j) \in 0 .. HalfRange - 1
    BY SnapshotFields DEF Inv
  <2>4. found \in 0 .. Len(snapshots) /\ Len(snapshots) \in Nat
    BY <2>1, SnapshotsLength DEF Inv, TypeOK
  <2>5. CASE snapshots = <<>>
    BY <2>1, <2>4, <2>5
  <2>6. CASE snapshots # <<>>
    <3>1. 1 \in 1 .. Len(snapshots)
      BY <2>4, <2>6, TablesAssumption DEF Inv, TypeOK
    <3>2. found # 0
      BY <3>1, <2>1, <2>2, <2>3, RangeAssumption DEF LatestSoFar
    <3>3. IsLatestUpTo(HalfRange - 1, found)
      BY <3>2, <2>1, <2>2, <2>3, <2>4, RangeAssumption
         DEF LatestSoFar, IsLatestUpTo, Millis
    <3> QED
      BY <2>1, <2>6, <3>2, <3>3
  <2> QED
    BY <2>5, <2>6
<1> QED
  BY <1>1, InvHolds, PTL

\* A scan as of a timestamp from 1970 on reads the latest snapshot up to it.
THEOREM AsOfSelected == Spec => []AsOfIsLatestBefore
<1>1. Inv => AsOfIsLatestBefore
  <2> DEFINE limit == request.snapshot_timestamp
  <2> SUFFICES ASSUME Inv, pc # "loop", limit >= 0,
                      request.snapshot_source = "FROM_TIMESTAMP"
               PROVE  \/ /\ pc = "done"
                         /\ found # 0
                         /\ IsLatestUpTo(limit, found)
                      \/ /\ pc = "error"
                         /\ \A j \in 1 .. Len(snapshots) :
                               snapshots[j].timestamp_ms > limit
    BY DEF AsOfIsLatestBefore
  <2>1. idx = Len(snapshots) /\ pc = (IF found = 0 THEN "error" ELSE "done")
    BY DEF Inv, Outcome, TypeOK
  <2>2. limit \in Signed
    BY DEF Inv, TypeOK, Request
  <2>3. ToUnsigned(limit) = limit
    BY <2>2, RangeAssumption DEF ToUnsigned, Signed
  <2>4. LatestSoFar(limit)
    BY <2>3 DEF Inv
  <2>5. \A j \in 1 .. Len(snapshots) : Millis(j) \in 0 .. HalfRange - 1
    BY SnapshotFields DEF Inv
  <2>6. found \in 0 .. Len(snapshots) /\ Len(snapshots) \in Nat
    BY <2>1, SnapshotsLength DEF Inv, TypeOK
  <2> HIDE DEF limit
  <2>7. CASE found = 0
    BY <2>1, <2>4, <2>7 DEF LatestSoFar, Millis
  <2>8. CASE found # 0
    <3>1. IsLatestUpTo(limit, found)
      BY <2>1, <2>4, <2>5, <2>6, <2>8 DEF LatestSoFar, IsLatestUpTo, Millis
    <3> QED
      BY <2>1, <2>8, <3>1
  <2> QED
    BY <2>7, <2>8
<1> QED
  BY <1>1, InvHolds, PTL

\* A scan of a snapshot id reads the first snapshot with this id.
THEOREM IdSelected == Spec => []IdIsFound
<1>1. Inv => IdIsFound
  <2> SUFFICES ASSUME Inv, pc # "loop", request.snapshot_source = "FROM_ID"
               PROVE  IdIsFound
    BY DEF IdIsFound
  <2>1. IdSoFar /\ Outcome /\ pc \in {"done", "error"} /\ idx \in 0 .. Len(snapshots)
        /\ found \in 0 .. idx /\ Len(snapshots) \in Nat
    BY SnapshotsLength DEF Inv, TypeOK
  <2>2. CASE pc = "done"
    <3>1. found # 0 /\ snapshots[found].snapshot_id = request.snapshot_id
      BY <2>1, <2>2 DEF IdSoFar
    <3>2. ASSUME NEW j \in 1 .. found - 1
          PROVE  snapshots[j].snapshot_id # request.snapshot_id
      <4>1. j \in 1 .. idx /\ j # found
        BY <2>1
      <4> QED
        BY <4>1, <2>1 DEF IdSoFar
    <3> QED
      BY <2>2, <3>1, <3>2 DEF IdIsFound
  <2>3. CASE pc = "error"
    <3>1. found = 0 /\ idx = Len(snapshots)
      BY <2>1, <2>3 DEF Outcome
    <3>2. ASSUME NEW j \in 1 .. Len(snapshots)
          PROVE  snapshots[j].snapshot_id # request.snapshot_id
      BY <3>1, <2>1 DEF IdSoFar
    <3> QED
      BY <2>3, <3>2 DEF IdIsFound
  <2> QED
    BY <2>1, <2>2, <2>3
<1> QED
  BY <1>1, InvHolds, PTL

-----------------------------------------------------------------------------
(* Recursion over types *)

Less == {ss \in Nat \X Nat : ss[1] < ss[2]}

\* A nonempty set of natural numbers has a least element.
LEMMA LeastNatural ==
    ASSUME NEW S, S \subseteq Nat, S # {}
    PROVE  \E n \in S : \A m \in S : n <= m
<1>1. IsWellFoundedOn(Less, Nat)
  BY NatLessThanWellFounded, SMT DEF OpToRel, Less
<1>2. PICK n \in S : \A m \in Nat : <<m, n>> \in Less => m \notin S
  BY <1>1, WFMin, Zenon
<1>3. ASSUME NEW m \in S
      PROVE  n <= m
  <2>1. m \in Nat /\ n \in Nat /\ <<m, n>> \notin Less
    BY <1>2
  <2>2. ~(m < n)
    BY <2>1 DEF Less
  <2>. QED
    BY <2>1, <2>2
<1>. QED
  BY <1>3

\* A sequence with an element before it.
LEMMA Prefixed ==
    ASSUME NEW S, NEW m \in Seq(S), NEW e, NEW s, s = <<e>> \o m
    PROVE  /\ Len(s) = Len(m) + 1 /\ DOMAIN s = 1 .. Len(m) + 1
           /\ s[1] = e
           /\ \A k \in 2 .. Len(m) + 1 : s[k] = m[k - 1]
           /\ s = [k \in 1 .. Len(m) + 1 |-> s[k]]
OBVIOUS

Member == Name \X ColumnTypes

IsList(type) ==
    \E c \in ColumnTypes : type = <<"LIST", c>> /\ Depth[c] < Depth[type]
IsMap(type) ==
    \E c, v \in ColumnTypes :
        type = <<"MAP", c, v>> /\ Depth[c] < Depth[type] /\ Depth[v] < Depth[type]
IsMembers(type) ==
    /\ type[1] = "STRUCT" /\ Len(type) \in Nat /\ Len(type) > 1
    /\ DOMAIN type = 1 .. Len(type)
    /\ type = [k \in 1 .. Len(type) |-> type[k]]
    /\ \A k \in 2 .. Len(type) :
          type[k] \in Member /\ Depth[type[k][2]] < Depth[type]

\* A type is simple, a decimal, or made of types that are less deep.
LEMMA TypeCases ==
    ASSUME NEW type \in ColumnTypes
    PROVE  \/ type \in SimpleTypes
           \/ type \in DecimalTypes
           \/ IsList(type)
           \/ IsMap(type)
           \/ IsMembers(type)
<1>1. \A part \in Inner(type) : Depth[part] < Depth[type]
  BY TypesAssumption
<1>2. CASE type \in {"LIST"} \X ColumnTypes
  <2>1. PICK c \in ColumnTypes : type = <<"LIST", c>>
    BY <1>2
  <2>2. type[1] = "LIST" /\ Len(type) = 2 /\ type[2] = c
    BY <2>1
  <2>3. c \in Inner(type)
    BY <2>2 DEF Inner, Nested
  <2>. QED
    BY <1>1, <2>1, <2>3 DEF IsList
<1>3. CASE type \in {"MAP"} \X ColumnTypes \X ColumnTypes
  <2>1. PICK c \in ColumnTypes, v \in ColumnTypes : type = <<"MAP", c, v>>
    BY <1>3
  <2>2. type[1] = "MAP" /\ Len(type) = 3 /\ type[2] = c /\ type[3] = v
    BY <2>1
  <2>3. c \in Inner(type) /\ v \in Inner(type)
    BY <2>2 DEF Inner, Nested
  <2>. QED
    BY <1>1, <2>1, <2>3 DEF IsMap
<1>4. CASE IsStruct(type)
  <2>1. PICK s \in Seq(Member) : type = <<"STRUCT">> \o s /\ Len(type) > 1
    BY <1>4 DEF IsStruct, Member
  <2>2. /\ type[1] = "STRUCT" /\ Len(type) = Len(s) + 1
        /\ DOMAIN type = 1 .. Len(type)
        /\ \A k \in 2 .. Len(type) : type[k] = s[k - 1]
    BY <2>1
  <2>3. type = [k \in 1 .. Len(type) |-> type[k]]
    BY <2>1
  <2>4. \A k \in 2 .. Len(type) : type[k] \in Member
    BY <2>2
  <2>5. \A k \in 2 .. Len(type) : type[k][2] \in Inner(type)
    BY <2>2 DEF Inner
  <2>. QED
    <3>1. Len(type) \in Nat
      BY <2>2
    <3>2. \A k \in 2 .. Len(type) :
             type[k] \in Member /\ Depth[type[k][2]] < Depth[type]
      BY <1>1, <2>4, <2>5, Zenon
    <3>3. type[1] = "STRUCT" /\ Len(type) > 1 /\ DOMAIN type = 1 .. Len(type)
      BY <2>1, <2>2, Zenon
    <3>4. IsMembers(type)
      BY <2>3, <3>1, <3>2, <3>3, ZenonT(60) DEF IsMembers
    <3>. QED
      BY <3>4, Zenon
<1>5. CASE type \in SimpleTypes \union DecimalTypes
  BY <1>5
<1>6. \/ type \in SimpleTypes \union DecimalTypes
      \/ type \in {"LIST"} \X ColumnTypes
      \/ type \in {"MAP"} \X ColumnTypes \X ColumnTypes
      \/ IsStruct(type)
  BY TypesAssumption, Zenon
<1>. QED
  BY <1>2, <1>3, <1>4, <1>5, <1>6, Zenon

\* What a type starts with, and what it is made of.
LEMMA TypeFacts ==
    ASSUME NEW type \in ColumnTypes
    PROVE  /\ type \in SimpleTypes =>
                  /\ Len(type) = 1 /\ type = <<type[1]>>
                  /\ type[1] \in DOMAIN IcebergNames
                  /\ type[1] \notin {"LIST", "MAP", "STRUCT", "DECIMAL"}
           /\ type \in DecimalTypes =>
                  /\ Len(type) = 3 /\ type = <<"DECIMAL", type[2], type[3]>>
                  /\ type[2] \in 0 .. 38 /\ type[3] \in 0 .. 38
                  /\ type[1] = "DECIMAL"
           /\ IsList(type) => type[1] = "LIST" /\ Inner(type) = {type[2]}
           /\ IsMap(type) =>
                  type[1] = "MAP" /\ Inner(type) = {type[2], type[3]}
           /\ IsMembers(type) =>
                  /\ type[1] = "STRUCT"
                  /\ Inner(type) = {type[k][2] : k \in 2 .. Len(type)}
           /\ Depth[type] \in 0 .. MaxDepth
<1>1. type \in SimpleTypes =>
          /\ Len(type) = 1 /\ type = <<type[1]>>
          /\ type[1] \in DOMAIN IcebergNames
          /\ type[1] \notin {"LIST", "MAP", "STRUCT", "DECIMAL"}
  BY DEF SimpleTypes, IcebergNames
<1>2. type \in DecimalTypes =>
          /\ Len(type) = 3 /\ type = <<"DECIMAL", type[2], type[3]>>
          /\ type[2] \in 0 .. 38 /\ type[3] \in 0 .. 38
          /\ type[1] = "DECIMAL"
  BY DEF DecimalTypes
<1>3. IsList(type) => type[1] = "LIST" /\ Inner(type) = {type[2]}
  BY DEF IsList, Inner, Nested
<1>4. IsMap(type) => type[1] = "MAP" /\ Inner(type) = {type[2], type[3]}
  BY DEF IsMap, Inner, Nested
<1>5. IsMembers(type) =>
          /\ type[1] = "STRUCT"
          /\ Inner(type) = {type[k][2] : k \in 2 .. Len(type)}
  BY DEF IsMembers, Inner
<1>. QED
  BY <1>1, <1>2, <1>3, <1>4, <1>5, TypesAssumption

\* What a type is made of is less deep.
LEMMA InnerFacts ==
    ASSUME NEW type \in ColumnTypes, NEW part \in Inner(type)
    PROVE  part \in ColumnTypes /\ Depth[part] < Depth[type]
<1>1. CASE type \in SimpleTypes \/ type \in DecimalTypes
  BY <1>1, TypeFacts DEF Inner, Nested
<1>2. CASE IsList(type)
  BY <1>2, TypeFacts DEF IsList
<1>3. CASE IsMap(type)
  BY <1>3, TypeFacts DEF IsMap
<1>4. CASE IsMembers(type)
  BY <1>4, TypeFacts DEF IsMembers, Member
<1>. QED
  BY <1>1, <1>2, <1>3, <1>4, TypeCases

UpTo(d) == {type \in ColumnTypes : Depth[type] <= d}

\* No type is deeper than MaxDepth.
LEMMA UpToAll == UpTo(MaxDepth) = ColumnTypes
BY TypesAssumption DEF UpTo

-----------------------------------------------------------------------------
(* Types as JSON *)

ObjectStep(names, object, type) ==
    CASE type[1] = "LIST" ->
           [type |-> "list", element |-> object[type[2]]]
      [] type[1] = "MAP" ->
           [type |-> "map", key |-> object[type[2]],
            value |-> object[type[3]]]
      [] type[1] = "STRUCT" ->
           [type |-> "struct",
            fields |-> [k \in 1 .. Len(type) - 1 |->
                           [name |-> type[k + 1][1],
                            type |-> object[type[k + 1][2]]]]]
      [] OTHER -> [text |-> NameText(names, type)]

\* A step looks only at what is inside a type.
LEMMA ObjectStepInner ==
    ASSUME NEW names, NEW type \in ColumnTypes, NEW f, NEW g,
           \A part \in Inner(type) : f[part] = g[part]
    PROVE  ObjectStep(names, f, type) = ObjectStep(names, g, type)
<1>1. CASE type \in SimpleTypes \/ type \in DecimalTypes
  BY <1>1, TypeFacts DEF ObjectStep
<1>2. CASE IsList(type)
  BY <1>2, TypeFacts DEF ObjectStep
<1>3. CASE IsMap(type)
  BY <1>3, TypeFacts DEF ObjectStep
<1>4. CASE IsMembers(type)
  <2>1. \A k \in 1 .. Len(type) - 1 : f[type[k + 1][2]] = g[type[k + 1][2]]
    BY <1>4, TypeFacts, SMTT(40) DEF IsMembers
  <2>. QED
    BY <1>4, <2>1, TypeFacts DEF ObjectStep
<1>. QED
  BY <1>1, <1>2, <1>3, <1>4, TypeCases

AreObjects(names, f, d) == f = [type \in UpTo(d) |-> ObjectStep(names, f, type)]

\* The recursion has a solution for types up to any depth.
LEMMA ObjectsExist ==
    ASSUME NEW names, NEW d \in Nat
    PROVE  \E f : AreObjects(names, f, d)
<1> DEFINE Without == {n \in Nat : ~ \E f : AreObjects(names, f, n)}
<1>1. SUFFICES ASSUME Without # {} PROVE FALSE
  OBVIOUS
<1>2. PICK n \in Without : \A k \in Without : n <= k
  BY <1>1, LeastNatural
<1>3. PICK f : n # 0 => AreObjects(names, f, n - 1)
  <2>1. n # 0 => n - 1 \in Nat /\ n - 1 \notin Without
    BY <1>2
  <2>. QED
    BY <2>1
<1> DEFINE g == [type \in UpTo(n) |-> ObjectStep(names, f, type)]
<1>4. ASSUME NEW type \in UpTo(n)
      PROVE  \A part \in Inner(type) : g[part] = f[part]
  <2>1. SUFFICES ASSUME NEW part \in Inner(type) PROVE g[part] = f[part]
    OBVIOUS
  <2>2. part \in ColumnTypes /\ Depth[part] < Depth[type]
    BY InnerFacts DEF UpTo
  <2>3. n # 0 /\ part \in UpTo(n - 1) /\ part \in UpTo(n)
    BY <1>2, <2>2, TypesAssumption DEF UpTo
  <2>4. f[part] = ObjectStep(names, f, part)
    BY <1>3, <2>3, Zenon DEF AreObjects
  <2>. QED
    BY <2>3, <2>4
<1>5. \A type \in UpTo(n) : ObjectStep(names, f, type) = ObjectStep(names, g, type)
  <2> HIDE DEF g
  <2>1. UpTo(n) \subseteq ColumnTypes
    BY DEF UpTo
  <2>. QED
    BY <1>4, <2>1, ObjectStepInner
<1>6. AreObjects(names, g, n)
  <2>1. g = [type \in UpTo(n) |-> ObjectStep(names, f, type)]
    OBVIOUS
  <2> HIDE DEF g
  <2>. QED
    BY <1>5, <2>1, Zenon DEF AreObjects
<1>. QED
  BY <1>2, <1>6

\* The definition of AsObject defines it.
LEMMA ObjectsDefined ==
    ASSUME NEW names, NEW type \in ColumnTypes
    PROVE  AsObject(names)[type] = ObjectStep(names, AsObject(names), type)
<1>1. \E f : f = [t \in ColumnTypes |-> ObjectStep(names, f, t)]
  <2>1. MaxDepth \in Nat
    BY TypesAssumption
  <2>2. \E f : AreObjects(names, f, MaxDepth)
    BY <2>1, ObjectsExist
  <2>. QED
    BY <2>2, UpToAll, Zenon DEF AreObjects
<1>2. AsObject(names) = CHOOSE f : f = [t \in ColumnTypes |-> ObjectStep(names, f, t)]
  BY DEF AsObject, ObjectStep
<1>3. AsObject(names) = [t \in ColumnTypes |-> ObjectStep(names, AsObject(names), t)]
  BY <1>1, <1>2, Zenon
<1>. QED
  BY <1>3, Zenon

-----------------------------------------------------------------------------
(* The parser of a scan *)

ParseStep(val, parsed) ==
    IF "text" \in DOMAIN val THEN ParseName(val.text)
    ELSE ParseComplexType(val, parsed)

\* The JSON of each kind of type.
LEMMA ObjectOfUnnested ==
    ASSUME NEW names, NEW type \in ColumnTypes, NEW object,
           object = AsObject(names), type \in SimpleTypes \union DecimalTypes
    PROVE  object[type] = [text |-> NameText(names, type)]
<1>1. object[type] = ObjectStep(names, object, type)
  BY ObjectsDefined
<1>. QED
  BY <1>1, TypeFacts DEF ObjectStep

\* A list is an object with its element.
LEMMA ObjectOfList ==
    ASSUME NEW names, NEW type \in ColumnTypes, NEW object,
           object = AsObject(names), IsList(type)
    PROVE  object[type] = [type |-> "list", element |-> object[type[2]]]
<1>1. object[type] = ObjectStep(names, object, type)
  BY ObjectsDefined
<1>. QED
  BY <1>1, TypeFacts DEF ObjectStep

\* A map is an object with its key and its value.
LEMMA ObjectOfMap ==
    ASSUME NEW names, NEW type \in ColumnTypes, NEW object,
           object = AsObject(names), IsMap(type)
    PROVE  object[type] = [type |-> "map", key |-> object[type[2]],
                           value |-> object[type[3]]]
<1>1. object[type] = ObjectStep(names, object, type)
  BY ObjectsDefined
<1>. QED
  BY <1>1, TypeFacts DEF ObjectStep

\* A struct is an object with its fields.
LEMMA ObjectOfStruct ==
    ASSUME NEW names, NEW type \in ColumnTypes, NEW object,
           object = AsObject(names), IsMembers(type)
    PROVE  object[type] = [type |-> "struct",
                           fields |-> [k \in 1 .. Len(type) - 1 |->
                                          [name |-> type[k + 1][1],
                                           type |-> object[type[k + 1][2]]]]]
<1>1. object[type] = ObjectStep(names, object, type)
  BY ObjectsDefined
<1>. QED
  BY <1>1, TypeFacts DEF ObjectStep

\* The parser looks only at the values inside.
LEMMA ParseStepInner ==
    ASSUME NEW names, NEW type \in ColumnTypes, NEW object,
           object = AsObject(names), NEW f, NEW g,
           \A part \in Inner(type) : f[object[part]] = g[object[part]]
    PROVE  ParseStep(object[type], f) = ParseStep(object[type], g)
<1>1. CASE type \in SimpleTypes \union DecimalTypes
  <2>1. object[type] = [text |-> NameText(names, type)]
    BY <1>1, ObjectOfUnnested
  <2>. QED
    BY <2>1 DEF ParseStep
<1>2. CASE IsList(type)
  <2>1. object[type] = [type |-> "list", element |-> object[type[2]]]
    BY <1>2, ObjectOfList
  <2>2. f[object[type[2]]] = g[object[type[2]]]
    BY <1>2, TypeFacts
  <2>. QED
    BY <2>1, <2>2 DEF ParseStep, ParseComplexType, ParseList
<1>3. CASE IsMap(type)
  <2>1. object[type] = [type |-> "map", key |-> object[type[2]],
                        value |-> object[type[3]]]
    BY <1>3, ObjectOfMap
  <2>2. /\ f[object[type[2]]] = g[object[type[2]]]
        /\ f[object[type[3]]] = g[object[type[3]]]
    BY <1>3, TypeFacts
  <2>. QED
    BY <2>1, <2>2 DEF ParseStep, ParseComplexType, ParseMap
<1>4. CASE IsMembers(type)
  <2>1. PICK fields : fields = [k \in 1 .. Len(type) - 1 |->
                                   [name |-> type[k + 1][1],
                                    type |-> object[type[k + 1][2]]]]
    OBVIOUS
  <2>2. object[type] = [type |-> "struct", fields |-> fields]
    BY <1>4, <2>1, ObjectOfStruct
  <2>3. \A k \in DOMAIN fields : f[fields[k].type] = g[fields[k].type]
    BY <1>4, <2>1, TypeFacts, SMTT(40) DEF IsMembers
  <2>4. PICK val : val = object[type]
    OBVIOUS
  <2>5. val.fields = fields
    BY <2>2, <2>4
  <2>6. [k \in DOMAIN val.fields |-> f[val.fields[k].type]]
        = [k \in DOMAIN val.fields |-> g[val.fields[k].type]]
    BY <2>3, <2>5
  <2>7. ParseStruct(val, f) = ParseStruct(val, g)
    BY <2>6, Zenon DEF ParseStruct
  <2>. QED
    BY <2>2, <2>4, <2>7 DEF ParseStep, ParseComplexType
<1>. QED
  BY <1>1, <1>2, <1>3, <1>4, TypeCases

ValuesUpTo(d) == {AsObject(names)[type] : names \in FileNames, type \in UpTo(d)}

AreParsed(f, d) == f = [val \in ValuesUpTo(d) |-> ParseStep(val, f)]

\* The recursion has a solution for the values of types up to any depth.
LEMMA ParsedExist ==
    ASSUME NEW d \in Nat
    PROVE  \E f : AreParsed(f, d)
<1> DEFINE Without == {n \in Nat : ~ \E f : AreParsed(f, n)}
<1>1. SUFFICES ASSUME Without # {} PROVE FALSE
  OBVIOUS
<1>2. PICK n \in Without : \A k \in Without : n <= k
  BY <1>1, LeastNatural
<1>3. PICK f : n # 0 => AreParsed(f, n - 1)
  <2>1. n # 0 => n - 1 \in Nat /\ n - 1 \notin Without
    BY <1>2
  <2>. QED
    BY <2>1
<1> DEFINE g == [val \in ValuesUpTo(n) |-> ParseStep(val, f)]
<1>4. ASSUME NEW names \in FileNames, NEW type \in UpTo(n), NEW object,
             object = AsObject(names), NEW part \in Inner(type)
      PROVE  g[object[part]] = f[object[part]]
  <2>1. part \in ColumnTypes /\ Depth[part] < Depth[type]
    BY InnerFacts DEF UpTo
  <2>2. n # 0 /\ part \in UpTo(n - 1) /\ part \in UpTo(n)
    BY <1>2, <2>1, TypesAssumption DEF UpTo
  <2>3. /\ object[part] \in ValuesUpTo(n)
        /\ n # 0 => object[part] \in ValuesUpTo(n - 1)
    BY <1>4, <2>2 DEF ValuesUpTo
  <2>4. f[object[part]] = ParseStep(object[part], f)
    BY <1>3, <2>2, <2>3, Zenon DEF AreParsed
  <2>. QED
    BY <2>3, <2>4, Zenon
<1>5. \A val \in ValuesUpTo(n) : ParseStep(val, f) = ParseStep(val, g)
  <2> HIDE DEF g
  <2>1. SUFFICES ASSUME NEW names \in FileNames, NEW type \in UpTo(n)
                 PROVE  ParseStep(AsObject(names)[type], f)
                        = ParseStep(AsObject(names)[type], g)
    BY DEF ValuesUpTo
  <2>2. PICK object : object = AsObject(names)
    OBVIOUS
  <2>3. type \in ColumnTypes
    BY DEF UpTo
  <2>4. \A part \in Inner(type) : f[object[part]] = g[object[part]]
    BY <1>4, <2>2
  <2>. QED
    BY <2>2, <2>3, <2>4, ParseStepInner
<1>6. AreParsed(g, n)
  <2>1. g = [val \in ValuesUpTo(n) |-> ParseStep(val, f)]
    OBVIOUS
  <2> HIDE DEF g
  <2>. QED
    BY <1>5, <2>1, Zenon DEF AreParsed
<1>. QED
  BY <1>2, <1>6

\* The definition of ParseTypeValue defines it.
LEMMA ParsedDefined ==
    \A val \in TypeValue : ParseTypeValue[val] = ParseStep(val, ParseTypeValue)
<1>1. ValuesUpTo(MaxDepth) = TypeValue
  BY UpToAll DEF ValuesUpTo, TypeValue
<1>2. \E f : f = [val \in TypeValue |-> ParseStep(val, f)]
  <2>1. MaxDepth \in Nat
    BY TypesAssumption
  <2>2. \E f : AreParsed(f, MaxDepth)
    BY <2>1, ParsedExist
  <2>. QED
    BY <1>1, <2>2, Zenon DEF AreParsed
<1>3. ParseTypeValue = CHOOSE f : f = [val \in TypeValue |-> ParseStep(val, f)]
  BY DEF ParseTypeValue, ParseStep
<1>4. ParseTypeValue = [val \in TypeValue |-> ParseStep(val, ParseTypeValue)]
  BY <1>2, <1>3, Zenon
<1>. QED
  BY <1>4, Zenon

\* A number is read as it was written.
LEMMA NumberRead == \A n \in 0 .. 38 : Number(Numeral[n]) = n
BY NumeralAssumption DEF Number

\* A type that is not nested is read from any of its names.
LEMMA NameRead ==
    ASSUME NEW names \in FileNames, NEW type \in SimpleTypes \union DecimalTypes
    PROVE  ParseName(NameText(names, type)) = type
<1>1. CASE type \in SimpleTypes
  <2>1. PICK name \in DOMAIN IcebergNames : type = <<name>>
    BY <1>1 DEF SimpleTypes
  <2>2. NameText(names, type) = names[name]
    BY <2>1 DEF NameText, Simple
  <2>3. \/ names[name] = IcebergNames[name]
        \/ name = "BLOB" /\ names[name] = FixedName
    BY <2>1 DEF FileNames, IcebergNames
  <2>4. CASE names[name] = IcebergNames[name]
    <3>1. PICK word \in DOMAIN ScanNames :
              IcebergNames[name] = <<word>> /\ ScanNames[word] = name
      BY <2>1 DEF IcebergNames, ScanNames
    <3>2. ParseName(<<word>>) = <<ScanNames[word]>>
      <4>1. Len(<<word>>) = 1 /\ <<word>>[1] = word
        OBVIOUS
      <4>2. word # "fixed[" /\ word # "decimal("
        BY DEF ScanNames
      <4>. QED
        BY <3>1, <4>1, <4>2 DEF ParseName, StartsWith
    <3>. QED
      BY <2>1, <2>2, <2>4, <3>1, <3>2
  <2>5. CASE name = "BLOB" /\ names[name] = FixedName
    <3>1. /\ Len(FixedName) = 3 /\ FixedName # <<>> /\ FixedName[1] = "fixed["
      BY DEF FixedName
    <3>. QED
      BY <2>1, <2>2, <2>5, <3>1 DEF ParseName, StartsWith
  <2>. QED
    BY <2>3, <2>4, <2>5
<1>2. CASE type \in DecimalTypes
  <2>1. PICK m \in 0 .. 38, n \in 0 .. 38 : type = <<"DECIMAL", m, n>>
    BY <1>2 DEF DecimalTypes
  <2>2. NameText(names, type) = <<"decimal(", Numeral[m], ",", Numeral[n], ")">>
    <3>1. Len(type) = 3 /\ type[2] = m /\ type[3] = n
      BY <2>1
    <3>. QED
      BY <3>1 DEF NameText, Simple
  <2>3. PICK text : text = <<"decimal(", Numeral[m], ",", Numeral[n], ")">>
    OBVIOUS
  <2>4. /\ Len(text) = 5 /\ text # <<>> /\ text[1] = "decimal("
        /\ text[2] = Numeral[m] /\ text[4] = Numeral[n]
    BY <2>3
  <2>5. ParseName(text) = <<"DECIMAL", Number(text[2]), Number(text[4])>>
    BY <2>4 DEF ParseName, StartsWith
  <2>. QED
    BY <2>1, <2>2, <2>3, <2>4, <2>5, NumberRead
<1>. QED
  BY <1>1, <1>2

\* No type is what a parser that throws returns.
LEMMA TypeNotThrown ==
    ASSUME NEW type \in ColumnTypes
    PROVE  type # Thrown
<1>1. CASE type \in SimpleTypes
  BY <1>1 DEF SimpleTypes, IcebergNames, Thrown
<1>2. CASE type \notin SimpleTypes
  <2>1. type[1] \in {"LIST", "MAP", "STRUCT", "DECIMAL"}
    BY <1>2, TypeCases, TypeFacts
  <2>2. Thrown[1] = "throws"
    BY DEF Thrown
  <2>. QED
    BY <2>1, <2>2
<1>. QED
  BY <1>1, <1>2

\* A value is read as the type it stands for if the values inside are.
LEMMA ParseStepRead ==
    ASSUME NEW names \in FileNames, NEW type \in ColumnTypes, NEW object,
           object = AsObject(names), NEW parsed,
           \A part \in Inner(type) : parsed[object[part]] = part
    PROVE  ParseStep(object[type], parsed) = type
<1>1. CASE type \in SimpleTypes \union DecimalTypes
  <2>1. object[type] = [text |-> NameText(names, type)]
    BY <1>1, ObjectOfUnnested
  <2>. QED
    BY <1>1, <2>1, NameRead DEF ParseStep
<1>2. CASE IsList(type)
  <2>1. object[type] = [type |-> "list", element |-> object[type[2]]]
    BY <1>2, ObjectOfList
  <2>2. PICK c \in ColumnTypes : type = <<"LIST", c>>
    BY <1>2 DEF IsList
  <2>3. parsed[object[c]] = c
    BY <1>2, <2>2, TypeFacts
  <2>4. c # Thrown
    BY TypeNotThrown
  <2>5. ParseList(object[type], parsed) = type
    <3>1. Thrown \notin Range(<<c>>)
      BY <2>4 DEF Range
    <3>. QED
      BY <2>1, <2>2, <2>3, <3>1 DEF ParseList, Made
  <2>. QED
    BY <2>1, <2>5 DEF ParseStep, ParseComplexType
<1>3. CASE IsMap(type)
  <2>1. object[type] = [type |-> "map", key |-> object[type[2]],
                        value |-> object[type[3]]]
    BY <1>3, ObjectOfMap
  <2>2. PICK c \in ColumnTypes, v \in ColumnTypes : type = <<"MAP", c, v>>
    BY <1>3 DEF IsMap
  <2>3. parsed[object[c]] = c /\ parsed[object[v]] = v
    BY <1>3, <2>2, TypeFacts
  <2>4. c # Thrown /\ v # Thrown
    BY TypeNotThrown
  <2>5. ParseMap(object[type], parsed) = type
    <3>1. Thrown \notin Range(<<c, v>>)
      BY <2>4 DEF Range
    <3>. QED
      BY <2>1, <2>2, <2>3, <3>1 DEF ParseMap, Made
  <2>. QED
    BY <2>1, <2>5 DEF ParseStep, ParseComplexType
<1>4. CASE IsMembers(type)
  <2>1. PICK fields : fields = [k \in 1 .. Len(type) - 1 |->
                                   [name |-> type[k + 1][1],
                                    type |-> object[type[k + 1][2]]]]
    OBVIOUS
  <2>2. object[type] = [type |-> "struct", fields |-> fields]
    BY <1>4, <2>1, ObjectOfStruct
  <2>3. PICK types : types = [k \in DOMAIN fields |-> parsed[fields[k].type]]
    OBVIOUS
  <2>4. DOMAIN types = 1 .. Len(type) - 1 /\ DOMAIN fields = 1 .. Len(type) - 1
    BY <2>1, <2>3
  <2>5. \A k \in 1 .. Len(type) - 1 :
            /\ type[k + 1] = <<type[k + 1][1], type[k + 1][2]>>
            /\ type[k + 1][2] \in ColumnTypes
            /\ parsed[object[type[k + 1][2]]] = type[k + 1][2]
    <3>1. SUFFICES ASSUME NEW k \in 1 .. Len(type) - 1
                   PROVE  /\ type[k + 1] = <<type[k + 1][1], type[k + 1][2]>>
                          /\ type[k + 1][2] \in ColumnTypes
                          /\ parsed[object[type[k + 1][2]]] = type[k + 1][2]
      OBVIOUS
    <3>2. PICK i \in 2 .. Len(type) : i = k + 1
      BY <1>4 DEF IsMembers
    <3>3. type[i] \in Member /\ type[i][2] \in Inner(type)
      BY <1>4, TypeFacts DEF IsMembers
    <3>4. type[i] = <<type[i][1], type[i][2]>> /\ type[i][2] \in ColumnTypes
      BY <3>3 DEF Member
    <3>. QED
      BY <3>2, <3>3, <3>4
  <2>6. \A k \in 1 .. Len(type) - 1 :
            /\ fields[k].name = type[k + 1][1]
            /\ types[k] = type[k + 1][2]
            /\ types[k] # Thrown
    BY <2>1, <2>3, <2>5, TypeNotThrown
  <2>7. Thrown \notin Range(types)
    BY <2>4, <2>6 DEF Range
  <2>12. PICK names2 : names2 = [k \in DOMAIN fields |-> fields[k].name]
    OBVIOUS
  <2>8. PICK members : members = [k \in DOMAIN types |-> <<names2[k], types[k]>>]
    BY Zenon
  <2>9. members = [k \in 1 .. Len(type) - 1 |-> type[k + 1]]
    BY <2>4, <2>5, <2>6, <2>8, <2>12
  <2>10. <<"STRUCT">> \o members = type
    <3>1. members \in Seq(Member) /\ Len(members) = Len(type) - 1
      BY <1>4, <2>9 DEF IsMembers
    <3>2. PICK s : s = <<"STRUCT">> \o members
      OBVIOUS
    <3>3. /\ DOMAIN s = 1 .. Len(type) /\ s[1] = "STRUCT"
          /\ \A k \in 2 .. Len(type) : s[k] = members[k - 1]
          /\ s = [k \in 1 .. Len(type) |-> s[k]]
      <4>1. Len(members) + 1 = Len(type)
        BY <1>4, <3>1 DEF IsMembers
      <4>. QED
        BY <3>1, <3>2, <4>1, Prefixed
    <3>4. \A k \in 1 .. Len(type) : s[k] = type[k]
      <4>1. SUFFICES ASSUME NEW k \in 1 .. Len(type), k # 1
                     PROVE  s[k] = type[k]
        BY <1>4, <3>3 DEF IsMembers
      <4>2. k \in 2 .. Len(type) /\ k - 1 \in 1 .. Len(type) - 1
            /\ (k - 1) + 1 = k
        BY <1>4, <4>1 DEF IsMembers
      <4>. QED
        BY <2>9, <3>3, <4>2
    <3>. QED
      BY <1>4, <3>2, <3>3, <3>4, Zenon DEF IsMembers
  <2>11. PICK val : val = object[type]
    OBVIOUS
  <2>13. val.fields = fields
    BY <2>2, <2>11
  <2>14. ParseStruct(val, parsed) = MadeStruct(names2, types)
    BY <2>3, <2>12, <2>13, Zenon DEF ParseStruct
  <2>15. MadeStruct(names2, types) = type
    BY <2>7, <2>8, <2>10, Zenon DEF MadeStruct, Made
  <2>. QED
    BY <2>2, <2>11, <2>14, <2>15 DEF ParseStep, ParseComplexType
<1>. QED
  BY <1>1, <1>2, <1>3, <1>4, TypeCases

\* The scan reads each type as it was meant, however deep it is nested.
LEMMA TypesRead ==
    ASSUME NEW names \in FileNames, NEW type \in ColumnTypes
    PROVE  ParseTypeValue[AsObject(names)[type]] = type
<1>1. PICK object : object = AsObject(names)
  OBVIOUS
<1> DEFINE Misread == {t \in ColumnTypes : ParseTypeValue[object[t]] # t}
           Depths == {Depth[t] : t \in Misread}
<1>2. SUFFICES ASSUME Misread # {} PROVE FALSE
  BY <1>1
<1>3. Depths \subseteq Nat /\ Depths # {}
  BY <1>2, TypesAssumption
<1>4. PICK n \in Depths : \A m \in Depths : n <= m
  BY <1>3, LeastNatural
<1>5. PICK t \in Misread : n = Depth[t]
  BY <1>4
<1>6. \A part \in Inner(t) : ParseTypeValue[object[part]] = part
  <2>1. SUFFICES ASSUME NEW part \in Inner(t), part \in Misread PROVE FALSE
    BY <1>5, InnerFacts
  <2>2. part \in ColumnTypes /\ Depth[part] < Depth[t]
    BY <1>5, InnerFacts
  <2>3. Depth[part] \in Depths
    BY <2>1
  <2>4. Depth[t] <= Depth[part]
    BY <1>4, <1>5, <2>3
  <2>. QED
    BY <1>5, <2>2, <2>4, TypesAssumption
<1>7. object[t] \in TypeValue
  BY <1>1, <1>5 DEF TypeValue
<1>8. ParseTypeValue[object[t]] = ParseStep(object[t], ParseTypeValue)
  BY <1>7, ParsedDefined
<1>9. ParseStep(object[t], ParseTypeValue) = t
  BY <1>1, <1>5, <1>6, ParseStepRead
<1>. QED
  BY <1>5, <1>8, <1>9

-----------------------------------------------------------------------------
(* The schema of a scan *)

\* Of schemas with different ids the one with an id is found.
LEMMA SchemaFound ==
    ASSUME NEW schemas, NEW c \in 1 .. Len(schemas),
           \A r, s \in 1 .. Len(schemas) :
              schemas[r].schema_id = schemas[s].schema_id => r = s
    PROVE  SchemaWithId(schemas, schemas[c].schema_id) = schemas[c]
<1>1. PICK id : id = schemas[c].schema_id
  OBVIOUS
<1>2. {i \in 1 .. Len(schemas) : schemas[i].schema_id = id} = {c}
  BY <1>1
<1>3. Min({c}) = c
  BY DEF Min
<1>4. SchemaWithId(schemas, id) = schemas[c]
  BY <1>2, <1>3 DEF SchemaWithId, SelectInSeq
<1>. QED
  BY <1>1, <1>4

\* What a table of Written is.
LEMMA TableFacts ==
    ASSUME table \in Written
    PROVE  /\ Len(table.schemas) \in Nat
           /\ DOMAIN table.schemas = 1 .. Len(table.schemas)
           /\ table.current \in 1 .. Len(table.schemas)
           /\ \A r, s \in 1 .. Len(table.schemas) :
                 table.schemas[r].schema_id = table.schemas[s].schema_id => r = s
           /\ \A s \in 1 .. Len(table.schemas) :
                 table.schemas[s].fields \in Seq(Field)
           /\ Meant \in Seq(Field)
           /\ table.layout \in {"list", "single", "both"}
           /\ table.file_names \in FileNames
           /\ table.answer_names \in AnswerNames
<1>1. table.schemas \in Seq([schema_id : Nat, fields : Seq(Field)])
  BY WrittenAssumption
<1>2. /\ Len(table.schemas) \in Nat
      /\ DOMAIN table.schemas = 1 .. Len(table.schemas)
      /\ \A s \in 1 .. Len(table.schemas) :
            table.schemas[s].fields \in Seq(Field)
  <2>1. PICK S : S = [schema_id : Nat, fields : Seq(Field)]
    OBVIOUS
  <2>2. PICK schemas \in Seq(S) : schemas = table.schemas
    BY <1>1, <2>1
  <2>3. /\ Len(schemas) \in Nat /\ DOMAIN schemas = 1 .. Len(schemas)
        /\ \A s \in 1 .. Len(schemas) : schemas[s] \in S
    OBVIOUS
  <2>4. \A one \in S : one.fields \in Seq(Field)
    BY <2>1
  <2>. QED
    BY <2>2, <2>3, <2>4
<1>3. /\ \A r, s \in DOMAIN table.schemas :
            table.schemas[r].schema_id = table.schemas[s].schema_id => r = s
      /\ table.current \in DOMAIN table.schemas
      /\ table.layout \in {"list", "single", "both"}
      /\ table.file_names \in FileNames
      /\ table.answer_names \in AnswerNames
  BY WrittenAssumption
<1>. QED
  BY <1>2, <1>3 DEF Meant

\* The current schema in a document.
LEMMA CurrentInDocument ==
    ASSUME table \in Written, NEW place, NEW schemas, schemas = SchemasJson(place)
    PROVE  /\ SchemaWithId(schemas, schemas[table.current].schema_id)
              = schemas[table.current]
           /\ schemas[table.current].fields
              = [f \in DOMAIN Meant |->
                    [id |-> Meant[f].id, name |-> Meant[f].name,
                     type |-> TypeJson(place, Meant[f].type)]]
<1>1. /\ Len(schemas) = Len(table.schemas)
      /\ \A s \in 1 .. Len(table.schemas) :
            schemas[s].schema_id = table.schemas[s].schema_id
  <2>1. PICK l \in Nat : l = Len(table.schemas) /\ DOMAIN table.schemas = 1 .. l
    BY TableFacts
  <2>2. DOMAIN schemas = 1 .. l
    BY <2>1, Zenon DEF SchemasJson
  <2>3. schemas = [s \in 1 .. l |-> schemas[s]]
    BY <2>1, Zenon DEF SchemasJson
  <2>4. Len(schemas) = l
    BY <2>2, <2>3
  <2>5. ASSUME NEW s \in 1 .. l
        PROVE  schemas[s].schema_id = table.schemas[s].schema_id
    <3>1. PICK fields : fields =
              [f \in DOMAIN table.schemas[s].fields |->
                  [id |-> table.schemas[s].fields[f].id,
                   name |-> table.schemas[s].fields[f].name,
                   type |-> TypeJson(place, table.schemas[s].fields[f].type)]]
      OBVIOUS
    <3>2. schemas[s] = [schema_id |-> table.schemas[s].schema_id,
                        fields |-> fields]
      BY <2>1, <3>1, Zenon DEF SchemasJson
    <3>. QED
      BY <3>2
  <2>. QED
    BY <2>1, <2>4, <2>5
<1>2. schemas[table.current].fields
      = [f \in DOMAIN Meant |->
            [id |-> Meant[f].id, name |-> Meant[f].name,
             type |-> TypeJson(place, Meant[f].type)]]
  BY TableFacts DEF SchemasJson, Meant
<1>3. SchemaWithId(schemas, schemas[table.current].schema_id)
      = schemas[table.current]
  <2>1. /\ table.current \in 1 .. Len(schemas)
        /\ \A r, s \in 1 .. Len(schemas) :
              schemas[r].schema_id = schemas[s].schema_id => r = s
    BY <1>1, TableFacts
  <2>. QED
    BY <2>1, SchemaFound
<1>. QED
  BY <1>2, <1>3

\* The scan reads the columns of the current schema from the metadata file.
LEMMA SchemaRead ==
    ASSUME table \in Written, NEW i, i = ParseInfo(File)
    PROVE  ParseSchema(i.schemas, i.schema_id) = Meant
<1>1. PICK schemas : schemas = SchemasJson("file")
  OBVIOUS
<1>2. PICK current : current = schemas[table.current]
  OBVIOUS
<1>3. /\ SchemaWithId(schemas, current.schema_id) = current
      /\ current.fields
         = [f \in DOMAIN Meant |->
               [id |-> Meant[f].id, name |-> Meant[f].name,
                type |-> TypeJson("file", Meant[f].type)]]
  BY <1>1, <1>2, CurrentInDocument
<1>4. SchemaWithId(<<current>>, current.schema_id) = current
  <2>1. PICK single : single = <<current>>
    OBVIOUS
  <2>2. Len(single) = 1 /\ single[1] = current
    BY <2>1
  <2>3. /\ 1 \in 1 .. Len(single)
        /\ \A r, s \in 1 .. Len(single) :
              single[r].schema_id = single[s].schema_id => r = s
    BY <2>2
  <2>4. SchemaWithId(single, single[1].schema_id) = single[1]
    BY <2>3, SchemaFound
  <2>. QED
    BY <2>1, <2>2, <2>4
<1>5. SchemaWithId(i.schemas, i.schema_id) = current
  <2>1. CASE table.layout = "single"
    <3>1. File = [schema |-> current]
      BY <1>1, <1>2, <2>1 DEF File, Document
    <3>. QED
      BY <1>4, <3>1 DEF ParseInfo
  <2>2. CASE table.layout = "list"
    <3>1. File = [schemas |-> schemas, current_schema_id |-> current.schema_id]
      BY <1>1, <1>2, <2>2 DEF File, Document
    <3>. QED
      BY <1>3, <3>1 DEF ParseInfo
  <2>3. CASE table.layout = "both"
    <3>1. File = [schema |-> current, schemas |-> schemas,
                  current_schema_id |-> current.schema_id]
      BY <1>1, <1>2, <2>3 DEF File, Document
    <3>. QED
      BY <1>3, <3>1 DEF ParseInfo
  <2>. QED
    BY <2>1, <2>2, <2>3, TableFacts
<1>6. \A f \in DOMAIN Meant :
          /\ Meant[f] \in Field
          /\ ParseTypeValue[TypeJson("file", Meant[f].type)] = Meant[f].type
  <2>1. \A f \in DOMAIN Meant : Meant[f] \in Field
    BY TableFacts
  <2>. QED
    BY <2>1, TableFacts, TypesRead DEF TypeJson, Field
<1>7. ParseSchemaFromJson(current)
      = [f \in DOMAIN Meant |->
            [id |-> Meant[f].id, name |-> Meant[f].name, type |-> Meant[f].type]]
  BY <1>3, <1>6 DEF ParseSchemaFromJson
<1>8. Meant = [f \in DOMAIN Meant |->
                  [id |-> Meant[f].id, name |-> Meant[f].name,
                   type |-> Meant[f].type]]
  <2>1. Meant = [f \in DOMAIN Meant |-> Meant[f]]
    BY TableFacts
  <2>. QED
    BY <1>6, <2>1 DEF Field
<1>. QED
  BY <1>5, <1>7, <1>8 DEF ParseSchema

\* None of the meant columns is one that could not be parsed.
LEMMA MeantNotThrown == table \in Written => ~SomeThrown(Meant)
<1>. SUFFICES ASSUME table \in Written, NEW f \in DOMAIN Meant
              PROVE  Meant[f].type # Thrown
  BY DEF SomeThrown
<1>1. Meant[f].type \in ColumnTypes
  <2>1. Meant[f] \in Field
    BY TableFacts
  <2>. QED
    BY <2>1 DEF Field
<1>. QED
  BY <1>1, TypeNotThrown

-----------------------------------------------------------------------------
(* Brackets and commas *)

Words == Seq(Token)

\* What a token does to nested_opens.
Change(token) ==
    IF token \in Opening THEN 1 ELSE IF token = ">" THEN -1 ELSE 0

\* Texts have lengths.
LEMMA WordLength == \A w \in Words : Len(w) \in Nat
BY DEF Words

\* The text of one token.
LEMMA OneToken ==
    ASSUME NEW o \in Token, NEW w, w = <<o>>
    PROVE  w \in Words /\ Len(w) = 1 /\ w[1] = o
BY DEF Words

\* Brackets and commas are different tokens.
LEMMA OpeningFacts ==
    /\ Opening \subseteq Token /\ ">" \in Token /\ "," \in Token
    /\ ">" \notin Opening /\ "," \notin Opening
BY DEF Opening, Token, Punctuation

\* The number of some positions up to one more.
LEMMA CountStep ==
    ASSUME NEW w, NEW T, NEW i \in Nat, i # 0, NEW S, NEW R,
           S = {j \in 1 .. i - 1 : w[j] \in T}, R = {j \in 1 .. i : w[j] \in T}
    PROVE  /\ Cardinality(S) \in Nat
           /\ Cardinality(R) = Cardinality(S) + (IF w[i] \in T THEN 1 ELSE 0)
<1>1. IsFiniteSet(1 .. i - 1) /\ S \in SUBSET (1 .. i - 1)
  BY FS_Interval
<1>2. IsFiniteSet(S)
  BY <1>1, FS_Subset
<1>3. Cardinality(S) \in Nat
  BY <1>2, FS_CardinalityType
<1>4. CASE w[i] \in T
  <2>1. R = S \cup {i} /\ i \notin S
    BY <1>4
  <2>2. Cardinality(S \cup {i}) = Cardinality(S) + 1
    <3>1. i \notin S
      BY <2>1
    <3>2. Cardinality(S \cup {i})
          = IF i \in S THEN Cardinality(S) ELSE Cardinality(S) + 1
      BY <1>2, FS_AddElement, Zenon
    <3>. QED
      BY <3>1, <3>2, Zenon
  <2>3. Cardinality(R) = Cardinality(S) + 1
    BY <2>1, <2>2, Zenon
  <2>. QED
    BY <1>3, <1>4, <2>3
<1>5. CASE w[i] \notin T
  <2>1. R = S
    BY <1>5
  <2>. QED
    BY <1>3, <1>5, <2>1
<1>. QED
  BY <1>4, <1>5

\* Nothing is open before the first token.
LEMMA NestingFirst == \A w : Nesting(w, 1) = 0
<1>. SUFFICES ASSUME NEW w PROVE Nesting(w, 1) = 0
  OBVIOUS
<1>1. /\ {j \in 1 .. 1 - 1 : w[j] \in Opening} = {}
      /\ {j \in 1 .. 1 - 1 : w[j] = ">"} = {}
  OBVIOUS
<1>2. Nesting(w, 1) = Cardinality({}) - Cardinality({})
  BY <1>1, Zenon DEF Nesting
<1>. QED
  BY <1>2, FS_EmptySet

\* Each token changes what is open.
LEMMA NestingStep ==
    ASSUME NEW w, NEW i \in Nat, i # 0, NEW k, k = i + 1
    PROVE  /\ Nesting(w, i) \in Int
           /\ Nesting(w, k) = Nesting(w, i) + Change(w[i])
<1>1. PICK opens : opens = {j \in 1 .. i - 1 : w[j] \in Opening}
  OBVIOUS
<1>2. PICK closes : closes = {j \in 1 .. i - 1 : w[j] = ">"}
  OBVIOUS
<1>3. PICK opened : opened = {j \in 1 .. i : w[j] \in Opening}
  OBVIOUS
<1>4. PICK closed : closed = {j \in 1 .. i : w[j] = ">"}
  OBVIOUS
<1>5. /\ Cardinality(opens) \in Nat
      /\ Cardinality(opened)
         = Cardinality(opens) + (IF w[i] \in Opening THEN 1 ELSE 0)
  BY <1>1, <1>3, CountStep
<1>6. /\ Cardinality(closes) \in Nat
      /\ Cardinality(closed) = Cardinality(closes) + (IF w[i] = ">" THEN 1 ELSE 0)
  <2>1. PICK T : T = {">"}
    OBVIOUS
  <2>2. /\ closes = {j \in 1 .. i - 1 : w[j] \in T}
        /\ closed = {j \in 1 .. i : w[j] \in T}
    BY <1>2, <1>4, <2>1
  <2>3. /\ Cardinality(closes) \in Nat
        /\ Cardinality(closed) = Cardinality(closes) + (IF w[i] \in T THEN 1 ELSE 0)
    BY <2>2, CountStep
  <2>. QED
    BY <2>1, <2>3
<1>7. Nesting(w, i) = Cardinality(opens) - Cardinality(closes)
  BY <1>1, <1>2, Zenon DEF Nesting
<1>8. Nesting(w, k) = Cardinality(opened) - Cardinality(closed)
  <2>1. k - 1 = i
    OBVIOUS
  <2>. QED
    BY <1>3, <1>4, <2>1, Zenon DEF Nesting
<1>10. ">" \notin Opening
  BY DEF Opening
<1>. QED
  BY <1>5, <1>6, <1>7, <1>8, <1>10 DEF Change

\* The text v stands in w behind n tokens.
Stands(v, n, w) ==
    /\ v \in Words /\ w \in Words /\ n \in Nat /\ n + Len(v) <= Len(w)
    /\ \A j \in 1 .. Len(v) : w[n + j] = v[j]

\* A text within another nests as by itself, on top of what is open before it.
LEMMA NestingStands ==
    ASSUME NEW v, NEW n, NEW w, Stands(v, n, w), NEW i \in 1 .. Len(v) + 1,
           NEW k, k = n + i, NEW b, b = n + 1
    PROVE  Nesting(w, k) = Nesting(w, b) + Nesting(v, i)
<1> DEFINE Other == {m \in Nat : /\ m \in 1 .. Len(v) + 1
                                 /\ Nesting(w, n + m) # Nesting(w, b) + Nesting(v, m)}
<1>. SUFFICES ASSUME Other # {} PROVE FALSE
  BY SMTT(40) DEF Stands, Words
<1>1. Other \subseteq Nat /\ Other # {}
  OBVIOUS
<1>2. PICK m \in Other : \A l \in Other : m <= l
  <2> HIDE DEF Other
  <2>. QED
    BY <1>1, LeastNatural
<1>3. /\ m \in 1 .. Len(v) + 1 /\ n \in Nat /\ Len(v) \in Nat
      /\ Nesting(w, n + m) # Nesting(w, b) + Nesting(v, m)
  BY <1>2 DEF Stands, Words
<1>4. Nesting(w, b) \in Int
  BY <1>3, NestingStep
<1>5. m # 1
  BY <1>3, <1>4, NestingFirst
<1>6. PICK l \in Nat : l # 0 /\ m = l + 1 /\ l \in 1 .. Len(v)
  <2>1. m - 1 \in Nat /\ m - 1 # 0 /\ m = (m - 1) + 1 /\ m - 1 \in 1 .. Len(v)
    BY <1>3, <1>5
  <2>. QED
    BY <2>1
<1>7. Nesting(w, n + l) = Nesting(w, b) + Nesting(v, l)
  <2>1. l \notin Other
    BY <1>2, <1>6
  <2>. QED
    BY <1>6, <2>1
<1>8. PICK p \in Nat : p # 0 /\ p = n + l
  BY <1>3, <1>6
<1>9. /\ Nesting(w, p) \in Int
      /\ Nesting(w, n + m) = Nesting(w, p) + Change(w[p])
  <2>1. n + m = p + 1
    BY <1>3, <1>6, <1>8
  <2>. QED
    BY <1>8, <2>1, NestingStep
<1>10. Nesting(v, l) \in Int /\ Nesting(v, m) = Nesting(v, l) + Change(v[l])
  BY <1>6, NestingStep
<1>11. w[p] = v[l] /\ Change(v[l]) \in Int
  BY <1>6, <1>8 DEF Stands, Change
<1>. QED
  BY <1>3, <1>4, <1>7, <1>8, <1>9, <1>10, <1>11, SMTT(40)

\* A text can be taken out of another.
LEMMA StandsSubSeq ==
    ASSUME NEW v, NEW n, NEW w, Stands(v, n, w), NEW a, a = n + 1, NEW b, b = n + Len(v)
    PROVE  SubSeq(w, a, b) = v
<1>1. /\ v \in Seq(Token) /\ n \in Nat /\ Len(v) \in Nat
      /\ \A j \in 1 .. Len(v) : w[n + j] = v[j] /\ v[j] \in Token
  BY DEF Stands, Words
<1>2. \A i \in a .. b : w[i] \in Token
  <2>1. SUFFICES ASSUME NEW i \in a .. b PROVE w[i] \in Token
    OBVIOUS
  <2>2. PICK j \in 1 .. Len(v) : i = n + j
    <3>1. i - n \in 1 .. Len(v) /\ i = n + (i - n)
      BY <1>1
    <3>. QED
      BY <3>1
  <2>. QED
    BY <1>1, <2>2
<1>3. PICK s : s = SubSeq(w, a, b)
  OBVIOUS
<1>4. /\ s \in Seq(Token) /\ Len(s) = IF a <= b THEN b - a + 1 ELSE 0
      /\ \A i \in 1 .. b - a + 1 : s[i] = w[a + i - 1]
  <2>1. PICK T : T = Token
    OBVIOUS
  <2>2. a \in Int /\ b \in Int /\ \A i \in a .. b : w[i] \in T
    BY <1>1, <1>2, <2>1
  <2>3. /\ s \in Seq(T) /\ Len(s) = IF a <= b THEN b - a + 1 ELSE 0
        /\ \A i \in 1 .. b - a + 1 : s[i] = w[a + i - 1]
    BY <1>3, <2>2, SubSeqProperties
  <2>. QED
    BY <2>1, <2>3
<1>5. Len(s) = Len(v)
  BY <1>1, <1>4
<1>6. \A i \in 1 .. Len(s) : s[i] = v[i]
  <2>1. SUFFICES ASSUME NEW i \in 1 .. Len(s) PROVE s[i] = v[i]
    OBVIOUS
  <2>2. i \in 1 .. b - a + 1 /\ a + i - 1 = n + i
    BY <1>1, <1>5
  <2>. QED
    BY <1>1, <1>4, <1>5, <2>2
<1>. QED
  BY <1>1, <1>3, <1>4, <1>5, <1>6, SeqEqual

\* Two texts in a row.
LEMMA ConcatStands ==
    ASSUME NEW u \in Words, NEW v \in Words, NEW w, w = u \o v
    PROVE  /\ w \in Words /\ Len(w) = Len(u) + Len(v)
           /\ Stands(u, 0, w) /\ Stands(v, Len(u), w)
BY DEF Stands, Words

\* A text within a text within a text.
LEMMA StandsStands ==
    ASSUME NEW u, NEW m, NEW v, NEW n, NEW w, Stands(u, m, v), Stands(v, n, w),
           NEW k, k = n + m
    PROVE  Stands(u, k, w)
<1>1. /\ u \in Words /\ w \in Words /\ m \in Nat /\ n \in Nat
      /\ Len(u) \in Nat /\ Len(v) \in Nat /\ Len(w) \in Nat
      /\ m + Len(u) <= Len(v) /\ n + Len(v) <= Len(w)
  BY DEF Stands, Words
<1>2. ASSUME NEW j \in 1 .. Len(u)
      PROVE  w[k + j] = u[j]
  <2>1. PICK i \in 1 .. Len(v) : i = m + j
    BY <1>1
  <2>2. v[i] = u[j] /\ w[n + i] = v[i] /\ n + i = k + j
    BY <1>1, <2>1 DEF Stands
  <2>. QED
    BY <2>2
<1>. QED
  BY <1>1, <1>2 DEF Stands

\* Every bracket of a text is closed.
Closed(w) ==
    /\ w \in Words
    /\ Nesting(w, Len(w) + 1) = 0
    /\ \A i \in 1 .. Len(w) : Nesting(w, i) >= 0

\* The commas of a text that are not nested.
TopCommas(w) == {i \in 1 .. Len(w) : w[i] = "," /\ Nesting(w, i) <= 0}

\* A text without brackets.
LEMMA PlainClosed ==
    ASSUME NEW w \in Words, \A i \in 1 .. Len(w) : Change(w[i]) = 0
    PROVE  Closed(w) /\ \A i \in 1 .. Len(w) + 1 : Nesting(w, i) = 0
<1> DEFINE Other == {i \in Nat : i \in 1 .. Len(w) + 1 /\ Nesting(w, i) # 0}
<1>1. SUFFICES ASSUME Other # {} PROVE FALSE
  BY DEF Closed, Words
<1>2. PICK i \in Other : \A l \in Other : i <= l
  <2>1. Other \subseteq Nat
    OBVIOUS
  <2> HIDE DEF Other
  <2>. QED
    BY <1>1, <2>1, LeastNatural
<1>3. i \in 1 .. Len(w) + 1 /\ Nesting(w, i) # 0 /\ Len(w) \in Nat
  BY <1>2 DEF Words
<1>4. PICK l \in Nat : l # 0 /\ i = l + 1 /\ l \in 1 .. Len(w)
  <2>1. i # 1
    BY <1>3, NestingFirst
  <2>2. i - 1 \in Nat /\ i - 1 # 0 /\ i = (i - 1) + 1 /\ i - 1 \in 1 .. Len(w)
    BY <1>3, <2>1
  <2>. QED
    BY <2>2
<1>5. Nesting(w, l) = 0
  BY <1>2, <1>3, <1>4
<1>. QED
  BY <1>3, <1>4, <1>5, NestingStep

\* The brackets and commas of two texts in a row.
LEMMA ConcatClosed ==
    ASSUME NEW u, NEW v, Closed(u), Closed(v), NEW w, w = u \o v
    PROVE  /\ Closed(w) /\ Len(w) = Len(u) + Len(v)
           /\ \A i \in 1 .. Len(u) : i \in TopCommas(w) <=> i \in TopCommas(u)
           /\ \A i \in 1 .. Len(v) :
                 Len(u) + i \in TopCommas(w) <=> i \in TopCommas(v)
<1>1. /\ u \in Words /\ v \in Words /\ w \in Words
      /\ Len(u) \in Nat /\ Len(v) \in Nat /\ Len(w) = Len(u) + Len(v)
      /\ Stands(u, 0, w) /\ Stands(v, Len(u), w)
  <2>1. u \in Words /\ v \in Words
    BY DEF Closed
  <2>. QED
    BY <2>1, ConcatStands, WordLength
<1>2. \A i \in 1 .. Len(u) + 1 : Nesting(w, i) = Nesting(u, i)
  <2>1. SUFFICES ASSUME NEW i \in 1 .. Len(u) + 1
                 PROVE  Nesting(w, i) = Nesting(u, i)
    OBVIOUS
  <2>2. Nesting(w, i) = Nesting(w, 1) + Nesting(u, i)
    <3>1. i = 0 + i /\ 1 = 0 + 1
      BY <1>1
    <3>. QED
      BY <1>1, <3>1, NestingStands
  <2>3. Nesting(u, i) \in Int
    <3>1. i \in Nat /\ i # 0
      BY <1>1
    <3>. QED
      BY <3>1, NestingStep
  <2>. QED
    BY <2>2, <2>3, NestingFirst
<1>3. PICK b \in Nat : b = Len(u) + 1
  BY <1>1
<1>4. Nesting(w, b) = 0
  BY <1>1, <1>2, <1>3 DEF Closed
<1>5. ASSUME NEW i \in 1 .. Len(v) + 1, NEW k, k = Len(u) + i
      PROVE  Nesting(w, k) = Nesting(v, i)
  <2>1. Nesting(w, k) = Nesting(w, b) + Nesting(v, i)
    BY <1>1, <1>3, <1>5, NestingStands
  <2>2. Nesting(v, i) \in Int
    <3>1. i \in Nat /\ i # 0
      BY <1>1
    <3>. QED
      BY <3>1, NestingStep
  <2>. QED
    BY <1>4, <2>1, <2>2
<1>6. Nesting(w, Len(w) + 1) = 0
  <2>1. PICK i \in Nat : i = Len(v) + 1
    BY <1>1
  <2>2. Len(w) + 1 = Len(u) + i /\ i \in 1 .. Len(v) + 1
    BY <1>1, <2>1
  <2>. QED
    BY <1>5, <2>1, <2>2 DEF Closed
<1>7. ASSUME NEW k \in 1 .. Len(w)
      PROVE  Nesting(w, k) >= 0
  <2>1. CASE k <= Len(u)
    BY <1>1, <1>2, <2>1 DEF Closed
  <2>2. CASE k > Len(u)
    <3>1. PICK i \in 1 .. Len(v) : k = Len(u) + i
      <4>1. k - Len(u) \in 1 .. Len(v) /\ k = Len(u) + (k - Len(u))
        BY <1>1, <2>2
      <4>. QED
        BY <4>1
    <3>2. Nesting(w, k) = Nesting(v, i)
      BY <1>1, <1>5, <3>1
    <3>. QED
      BY <3>2 DEF Closed
  <2>. QED
    BY <1>1, <2>1, <2>2
<1>8. \A i \in 1 .. Len(u) : i \in TopCommas(w) <=> i \in TopCommas(u)
  <2>1. SUFFICES ASSUME NEW i \in 1 .. Len(u)
                 PROVE  i \in TopCommas(w) <=> i \in TopCommas(u)
    OBVIOUS
  <2>2. w[i] = u[i] /\ Nesting(w, i) = Nesting(u, i) /\ i \in 1 .. Len(w)
    BY <1>1, <1>2 DEF Stands
  <2>. QED
    BY <2>2 DEF TopCommas
<1>9. \A i \in 1 .. Len(v) : Len(u) + i \in TopCommas(w) <=> i \in TopCommas(v)
  <2>1. SUFFICES ASSUME NEW i \in 1 .. Len(v), NEW k, k = Len(u) + i
                 PROVE  k \in TopCommas(w) <=> i \in TopCommas(v)
    OBVIOUS
  <2>2. w[k] = v[i] /\ Nesting(w, k) = Nesting(v, i) /\ k \in 1 .. Len(w)
    BY <1>1, <1>5, <2>1 DEF Stands
  <2>. QED
    BY <2>2 DEF TopCommas
<1>. QED
  BY <1>1, <1>6, <1>7, <1>8, <1>9 DEF Closed

\* A text with one token before it, or behind it.
LEMMA TokenBefore ==
    ASSUME NEW o \in Token, NEW u \in Words, NEW w, w = <<o>> \o u
    PROVE  w \in Words /\ Len(w) = Len(u) + 1 /\ w[1] = o /\ Stands(u, 1, w)
<1>1. PICK s : s = <<o>>
  OBVIOUS
<1>2. s \in Words /\ Len(s) = 1 /\ s[1] = o
  BY <1>1, OneToken
<1>3. w = s \o u
  BY <1>1
<1>4. w \in Words /\ Len(w) = Len(s) + Len(u) /\ Stands(s, 0, w) /\ Stands(u, Len(s), w)
  BY <1>2, <1>3, ConcatStands
<1>5. w[0 + 1] = s[1]
  BY <1>2, <1>4 DEF Stands
<1>. QED
  BY <1>2, <1>4, <1>5, WordLength

\* A text with one more token behind it.
LEMMA TokenBehind ==
    ASSUME NEW o \in Token, NEW u \in Words, NEW w, w = u \o <<o>>
    PROVE  /\ w \in Words /\ Len(w) = Len(u) + 1 /\ w[Len(w)] = o
           /\ Stands(u, 0, w)
<1>1. PICK s : s = <<o>>
  OBVIOUS
<1>2. s \in Words /\ Len(s) = 1 /\ s[1] = o
  BY <1>1, OneToken
<1>3. w = u \o s
  BY <1>1
<1>4. w \in Words /\ Len(w) = Len(u) + Len(s) /\ Stands(u, 0, w) /\ Stands(s, Len(u), w)
  BY <1>2, <1>3, ConcatStands
<1>5. w[Len(u) + 1] = s[1]
  BY <1>2, <1>4 DEF Stands
<1>. QED
  BY <1>2, <1>4, <1>5, WordLength

IsWrapped(w, o, u) ==
    /\ u \in Words /\ w \in Words /\ Len(w) = Len(u) + 2
    /\ w[1] = o /\ w[Len(w)] = ">" /\ Stands(u, 1, w)

\* What stands where in a text between two brackets.
LEMMA Wrapped ==
    ASSUME NEW o \in Opening, NEW u \in Words, NEW w, w = <<o>> \o u \o <<">">>
    PROVE  IsWrapped(w, o, u)
<1>1. PICK v : v = <<o>> \o u
  OBVIOUS
<1>2. o \in Token /\ ">" \in Token
  BY OpeningFacts
<1>3. v \in Words /\ Len(v) = Len(u) + 1 /\ v[1] = o /\ Stands(u, 1, v)
  BY <1>1, <1>2, TokenBefore
<1>4. PICK x \in Token : x = ">"
  BY <1>2
<1>5. w = v \o <<x>>
  BY <1>1, <1>4
<1>6. w \in Words /\ Len(w) = Len(v) + 1 /\ w[Len(w)] = x /\ Stands(v, 0, w)
  BY <1>3, <1>5, TokenBehind
<1>7. Len(u) \in Nat
  BY WordLength
<1>8. w[0 + 1] = v[1]
  BY <1>3, <1>6, <1>7 DEF Stands
<1>9. Stands(u, 1, w)
  <2>1. 1 = 0 + 1
    OBVIOUS
  <2>. QED
    BY <1>3, <1>6, <2>1, StandsStands, ZenonT(60)
<1>10. Len(w) = Len(u) + 2 /\ w[1] = o
  BY <1>3, <1>6, <1>7, <1>8
<1>. QED
  BY <1>4, <1>6, <1>9, <1>10, Zenon DEF IsWrapped

\* A text in brackets.
LEMMA WrappedClosed ==
    ASSUME NEW o \in Opening, NEW u, Closed(u), NEW w, IsWrapped(w, o, u)
    PROVE  Closed(w) /\ TopCommas(w) = {}
<1>1. /\ u \in Words /\ Len(u) \in Nat /\ Len(w) = Len(u) + 2
      /\ w \in Words /\ Stands(u, 1, w)
  BY WordLength DEF IsWrapped
<1>2. Change(w[1]) = 1
  BY OpeningFacts DEF IsWrapped, Change
<1>3. Change(w[Len(w)]) = -1
  BY OpeningFacts DEF IsWrapped, Change
<1>4. w[1] # ","
  BY OpeningFacts DEF IsWrapped
<1>5. Nesting(w, 1) = 0 /\ Nesting(w, 2) = 1
  <2>1. 2 = 1 + 1 /\ 1 \in Nat /\ 1 # 0
    OBVIOUS
  <2>2. Nesting(w, 2) = Nesting(w, 1) + Change(w[1])
    BY <2>1, NestingStep
  <2>. QED
    BY <1>2, <2>2, NestingFirst
<1>6. ASSUME NEW i \in 1 .. Len(u) + 1, NEW k, k = 1 + i
      PROVE  Nesting(w, k) = 1 + Nesting(u, i)
  <2>1. 2 = 1 + 1
    OBVIOUS
  <2>2. Nesting(w, k) = Nesting(w, 2) + Nesting(u, i)
    BY <1>1, <1>6, <2>1, NestingStands
  <2>. QED
    BY <1>5, <2>2
<1>7. Nesting(w, Len(w) + 1) = 0
  <2>1. PICK i \in Nat : i = Len(u) + 1
    BY <1>1
  <2>2. PICK k \in Nat : k = 1 + i
    BY <2>1
  <2>3. Nesting(w, k) = 1
    <3>1. Nesting(w, k) = 1 + Nesting(u, i)
      BY <1>6, <2>1, <2>2
    <3>. QED
      BY <2>1, <3>1 DEF Closed
  <2>4. k = Len(w) /\ k # 0
    BY <1>1, <2>1, <2>2
  <2>5. PICK l : l = k + 1
    OBVIOUS
  <2>6. Nesting(w, l) = Nesting(w, k) + Change(w[k])
    BY <2>4, <2>5, NestingStep
  <2>. QED
    BY <1>1, <1>3, <2>3, <2>4, <2>5, <2>6
<1>8. ASSUME NEW k \in 1 .. Len(w)
      PROVE  Nesting(w, k) >= 0 /\ k \notin TopCommas(w)
  <2>1. CASE k = 1
    <3>1. k \notin TopCommas(w)
      BY <1>4, <2>1 DEF TopCommas
    <3>. QED
      BY <1>5, <2>1, <3>1
  <2>2. CASE k # 1
    <3>1. PICK i \in 1 .. Len(u) + 1 : k = 1 + i
      <4>1. k - 1 \in 1 .. Len(u) + 1 /\ k = 1 + (k - 1)
        BY <1>1, <2>2
      <4>. QED
        BY <4>1
    <3>2. Nesting(w, k) = 1 + Nesting(u, i)
      BY <1>6, <3>1
    <3>3. Nesting(u, i) \in Int /\ Nesting(u, i) >= 0
      <4>1. i \in Nat /\ i # 0
        BY <1>1
      <4>2. Nesting(u, i) \in Int
        BY <4>1, NestingStep
      <4>3. i \in 1 .. Len(u) \/ i = Len(u) + 1
        BY <1>1
      <4>. QED
        BY <4>2, <4>3 DEF Closed
    <3>4. ~(Nesting(w, k) <= 0) /\ Nesting(w, k) >= 0
      BY <3>2, <3>3
    <3>. QED
      BY <3>4 DEF TopCommas
  <2>. QED
    BY <2>1, <2>2
<1>9. TopCommas(w) = {}
  <2>1. TopCommas(w) \subseteq 1 .. Len(w)
    BY DEF TopCommas
  <2>. QED
    BY <1>8, <2>1
<1>. QED
  BY <1>1, <1>7, <1>8, <1>9 DEF Closed

-----------------------------------------------------------------------------
(* Splitting at positions *)

\* The positions 0 = e[0] < e[1] < ... < e[n] = l, those between being of S.
SplitsAt(e, n, S, l) ==
    /\ n \in Nat /\ n # 0 /\ l \in Nat
    /\ e \in [0 .. n -> 0 .. l]
    /\ e[0] = 0 /\ e[n] = l
    /\ \A j, k \in 0 .. n : j < k => e[j] < e[k]
    /\ \A j \in 1 .. n - 1 : e[j] \in S
    /\ \A x \in S : \E j \in 1 .. n - 1 : e[j] = x

\* Two splits at the same positions have the same ends.
LEMMA SplitRange ==
    ASSUME NEW S, NEW l, NEW e, NEW n, SplitsAt(e, n, S, l),
           NEW f, NEW m, SplitsAt(f, m, S, l), NEW j \in 0 .. n
    PROVE  \E k \in 0 .. m : f[k] = e[j]
<1>1. CASE j = 0
  BY <1>1 DEF SplitsAt
<1>2. CASE j = n
  BY <1>2 DEF SplitsAt
<1>3. CASE j # 0 /\ j # n
  <2>1. j \in 1 .. n - 1
    BY <1>3 DEF SplitsAt
  <2>2. PICK x \in S : x = e[j]
    BY <2>1 DEF SplitsAt
  <2>3. PICK k \in 1 .. m - 1 : f[k] = x
    BY <2>2 DEF SplitsAt
  <2>. QED
    BY <2>2, <2>3 DEF SplitsAt
<1>. QED
  BY <1>1, <1>2, <1>3

\* Where two splits have agreed, the next end of one is not before the other's.
LEMMA SplitNotLess ==
    ASSUME NEW S, NEW l, NEW e, NEW n, SplitsAt(e, n, S, l),
           NEW f, NEW m, SplitsAt(f, m, S, l),
           NEW j \in Nat, j <= n, j <= m, \A k \in 0 .. j - 1 : e[k] = f[k]
    PROVE  e[j] >= f[j]
<1>. SUFFICES ASSUME e[j] < f[j] PROVE FALSE
  BY DEF SplitsAt
<1>1. j \in 0 .. n /\ j \in 0 .. m
  BY DEF SplitsAt
<1>2. PICK k \in 0 .. m : f[k] = e[j]
  BY <1>1, SplitRange
<1>3. k < j
  <2>1. f[k] \in Nat /\ f[j] \in Nat /\ f[k] < f[j]
    BY <1>1, <1>2 DEF SplitsAt
  <2>2. ~(j < k)
    <3>1. j < k => f[j] < f[k]
      BY <1>1, <1>2 DEF SplitsAt
    <3>. QED
      BY <2>1, <3>1
  <2>3. k # j
    BY <2>1
  <2>. QED
    BY <1>1, <1>2, <2>2, <2>3
<1>4. e[k] = e[j]
  BY <1>1, <1>2, <1>3
<1>. QED
  BY <1>1, <1>3, <1>4 DEF SplitsAt

\* There is one way to split at given positions.
LEMMA SplitUnique ==
    ASSUME NEW S, NEW l, NEW e, NEW n, SplitsAt(e, n, S, l),
           NEW f, NEW m, SplitsAt(f, m, S, l)
    PROVE  n = m /\ e = f
<1>1. n \in Nat /\ m \in Nat
  BY DEF SplitsAt
<1> DEFINE Other == {j \in Nat : j <= n /\ j <= m /\ e[j] # f[j]}
<1>2. Other = {}
  <2>1. SUFFICES ASSUME Other # {} PROVE FALSE
    OBVIOUS
  <2>2. Other \subseteq Nat
    OBVIOUS
  <2>3. PICK j \in Other : \A k \in Other : j <= k
    <3> HIDE DEF Other
    <3>. QED
      BY <2>1, <2>2, LeastNatural
  <2>4. \A k \in 0 .. j - 1 : e[k] = f[k]
    <3>1. SUFFICES ASSUME NEW k \in 0 .. j - 1 PROVE e[k] = f[k]
      OBVIOUS
    <3>2. j \in Nat /\ j <= n /\ j <= m
      BY <2>3
    <3>3. k \in Nat /\ k <= n /\ k <= m /\ ~(j <= k)
      BY <1>1, <3>1, <3>2
    <3>4. k \notin Other
      BY <2>3, <3>3
    <3>. QED
      BY <3>3, <3>4
  <2>5. e[j] >= f[j] /\ f[j] >= e[j]
    BY <2>3, <2>4, SplitNotLess
  <2>6. e[j] \in Nat /\ f[j] \in Nat
    BY <1>1, <2>3 DEF SplitsAt
  <2>. QED
    BY <2>3, <2>5, <2>6
<1>3. \A j \in Nat : j <= n /\ j <= m => e[j] = f[j]
  BY <1>2
<1>4. n = m
  <2>1. CASE n < m
    BY <1>1, <1>3, <2>1 DEF SplitsAt
  <2>2. CASE m < n
    BY <1>1, <1>3, <2>2 DEF SplitsAt
  <2>. QED
    BY <1>1, <2>1, <2>2
<1>5. \A j \in 0 .. n : e[j] = f[j]
  BY <1>1, <1>3, <1>4
<1>6. e \in [0 .. n -> 0 .. l] /\ f \in [0 .. n -> 0 .. l]
  BY <1>4 DEF SplitsAt
<1>7. e = [j \in 0 .. n |-> e[j]] /\ f = [j \in 0 .. n |-> f[j]]
  BY <1>6
<1>8. e = f
  BY <1>5, <1>7
<1>. QED
  BY <1>4, <1>8

Ascends(s, S) ==
    /\ s \in [1 .. Cardinality(S) -> S]
    /\ \A j, k \in 1 .. Cardinality(S) : j < k => s[j] < s[k]

\* Finitely many positions can be put in order.
LEMMA AscendingExists ==
    ASSUME NEW n \in Nat, NEW S \in SUBSET (1 .. n)
    PROVE  \E s : Ascends(s, S)
<1> DEFINE Without == {m \in Nat : \E R \in SUBSET (1 .. m) : ~ \E s : Ascends(s, R)}
<1>1. SUFFICES ASSUME Without # {} PROVE FALSE
  OBVIOUS
<1>2. PICK m \in Without : \A k \in Without : m <= k
  <2>1. Without \subseteq Nat
    OBVIOUS
  <2> HIDE DEF Without
  <2>. QED
    BY <1>1, <2>1, LeastNatural
<1>3. m \in Nat
  OBVIOUS
<1>4. PICK R \in SUBSET (1 .. m) : ~ \E s : Ascends(s, R)
  OBVIOUS
<1>5. m # 0
  <2>1. SUFFICES ASSUME m = 0 PROVE FALSE
    OBVIOUS
  <2>2. R = {}
    BY <2>1
  <2>3. Cardinality(R) = 0
    BY <2>2, FS_EmptySet
  <2>4. PICK s : s = [j \in 1 .. 0 |-> 0]
    OBVIOUS
  <2>5. s \in [1 .. 0 -> R]
    BY <2>4
  <2>6. 1 .. Cardinality(R) = {}
    BY <2>3
  <2>7. Ascends(s, R)
    BY <2>3, <2>5, <2>6 DEF Ascends
  <2>. QED
    BY <1>4, <2>7
<1>6. PICK l \in Nat : m = l + 1
  BY <1>3, <1>5
<1>7. \A T \in SUBSET (1 .. l) : \E s : Ascends(s, T)
  BY <1>2, <1>6
<1>8. m \in R
  <2>1. m \notin R => R \in SUBSET (1 .. l)
    BY <1>6
  <2>. QED
    BY <1>4, <1>7, <2>1
<1>9. PICK T : T = R \ {m}
  OBVIOUS
<1>10. T \in SUBSET (1 .. l) /\ R = T \cup {m} /\ m \notin T
  BY <1>6, <1>8, <1>9
<1>11. PICK s : Ascends(s, T)
  BY <1>7, <1>10
<1>12. IsFiniteSet(T)
  <2>1. IsFiniteSet(1 .. l)
    BY FS_Interval
  <2>. QED
    BY <1>10, <2>1, FS_Subset
<1>13. PICK c \in Nat : c = Cardinality(T)
  BY <1>12, FS_CardinalityType
<1>14. Cardinality(R) = c + 1
  <2>1. Cardinality(T \cup {m})
        = IF m \in T THEN Cardinality(T) ELSE Cardinality(T) + 1
    BY <1>12, FS_AddElement, Zenon
  <2>. QED
    BY <1>10, <1>13, <2>1, Zenon
<1>15. PICK r : r = [j \in 1 .. c + 1 |-> IF j = c + 1 THEN m ELSE s[j]]
  OBVIOUS
<1>16. /\ s \in [1 .. c -> T]
       /\ \A j, k \in 1 .. c : j < k => s[j] < s[k]
  BY <1>11, <1>13 DEF Ascends
<1>17. r \in [1 .. c + 1 -> R]
  BY <1>10, <1>15, <1>16
<1>18. ASSUME NEW j \in 1 .. c + 1, NEW k \in 1 .. c + 1, j < k
       PROVE  r[j] < r[k]
  <2>1. j \in 1 .. c /\ r[j] = s[j] /\ s[j] \in 1 .. l
    <3>1. j \in 1 .. c /\ j # c + 1
      BY <1>18
    <3>2. r[j] = s[j]
      BY <1>15, <1>18, <3>1
    <3>3. s[j] \in T
      BY <1>16, <3>1
    <3>. QED
      BY <1>10, <3>1, <3>2, <3>3
  <2>2. CASE k = c + 1
    BY <1>6, <1>15, <2>1, <2>2
  <2>3. CASE k # c + 1
    BY <1>15, <1>16, <1>18, <2>1, <2>3
  <2>. QED
    BY <2>2, <2>3
<1>19. Ascends(r, R)
  BY <1>14, <1>17, <1>18 DEF Ascends
<1>. QED
  BY <1>4, <1>19

InOrder(s, c, S) ==
    /\ c \in Nat
    /\ s \in [1 .. c -> S]
    /\ \A j, k \in 1 .. c : j < k => s[j] < s[k]
    /\ \A x \in S : \E j \in 1 .. c : s[j] = x

\* The positions of a set in their order are all of the set.
LEMMA AscendingFacts ==
    ASSUME NEW n \in Nat, NEW S \in SUBSET (1 .. n)
    PROVE  InOrder(Ascending(S), Cardinality(S), S)
<1> DEFINE c == Cardinality(S)
           s == Ascending(S)
<1> HIDE DEF c, s
<1>1. IsFiniteSet(S)
  <2>1. IsFiniteSet(1 .. n)
    BY FS_Interval
  <2>. QED
    BY <2>1, FS_Subset
<1>2. c \in Nat
  BY <1>1, FS_CardinalityType DEF c
<1>3. PICK r : Ascends(r, S)
  BY AscendingExists
<1>4. \E q \in [1 .. Cardinality(S) -> S] :
          \A j, k \in 1 .. Cardinality(S) : j < k => q[j] < q[k]
  BY <1>3, Zenon DEF Ascends
<1>5. Ascends(s, S)
  BY <1>4, Zenon DEF Ascending, Ascends, s
<1>6. /\ s \in [1 .. c -> S]
      /\ \A j, k \in 1 .. c : j < k => s[j] < s[k]
  BY <1>5 DEF Ascends, c
<1>7. s \in Injection(1 .. c, S)
  <2>1. ASSUME NEW j \in 1 .. c, NEW k \in 1 .. c, s[j] = s[k]
        PROVE  j = k
    <3>1. s[j] \in 1 .. n /\ s[k] \in 1 .. n
      BY <1>6
    <3>2. ~(j < k) /\ ~(k < j)
      BY <1>6, <2>1, <3>1
    <3>. QED
      BY <1>2, <3>2
  <2>. QED
    BY <1>6, <2>1 DEF Injection, IsInjective
<1>8. IsFiniteSet(1 .. c) /\ Cardinality(1 .. c) = c
  BY <1>2, FS_Interval
<1>9. s \in Surjection(1 .. c, S)
  BY <1>1, <1>7, <1>8, FS_Injection DEF c
<1>. QED
  BY <1>2, <1>6, <1>9 DEF Surjection, InOrder, c, s

\* The pieces of a text between the ends e.
IsSplit(text, inside, n, e) ==
    /\ SplitsAt(e, n, TopCommas(inside), Len(inside) + 1)
    /\ Children(text) = [k \in 1 .. n |-> SubSeq(inside, e[k - 1] + 1, e[k] - 1)]

\* The places where Children splits, and what it cuts out between them.
LEMMA ChildrenSplit ==
    ASSUME NEW text, NEW inside \in Words, inside = Inside(text)
    PROVE  \E n, e : IsSplit(text, inside, n, e)
<1>1. PICK l \in Nat : l = Len(inside)
  BY WordLength
<1>2. PICK S : S = TopCommas(inside)
  OBVIOUS
<1>3. S \in SUBSET (1 .. l)
  BY <1>1, <1>2 DEF TopCommas
<1>4. PICK c : c = Cardinality(S)
  OBVIOUS
<1>5. PICK s : s = Ascending(S)
  OBVIOUS
<1>6. /\ c \in Nat
      /\ s \in [1 .. c -> S]
      /\ \A j, k \in 1 .. c : j < k => s[j] < s[k]
      /\ \A x \in S : \E j \in 1 .. c : s[j] = x
  <2>1. InOrder(Ascending(S), Cardinality(S), S)
    BY <1>3, AscendingFacts
  <2>2. InOrder(s, c, S)
    BY <1>4, <1>5, <2>1, Zenon
  <2>. QED
    BY <2>2 DEF InOrder
<1>7. PICK ends : ends = <<0>> \o s \o <<l + 1>>
  OBVIOUS
<1>8. /\ Len(ends) = c + 2 /\ ends[1] = 0 /\ ends[c + 2] = l + 1
      /\ \A j \in 1 .. c : ends[j + 1] = s[j]
  <2>1. s \in Seq(Nat) /\ Len(s) = c
    <3>1. S \subseteq Nat
      BY <1>3
    <3>2. s \in [1 .. c -> Nat]
      BY <1>6, <3>1
    <3>. QED
      BY <1>6, <3>2
  <2>2. PICK q : q \in Seq(Nat) /\ q = <<0>> \o s
    <3>1. 0 \in Nat
      OBVIOUS
    <3>2. <<0>> \in Seq(Nat)
      BY <3>1
    <3>3. <<0>> \o s \in Seq(Nat)
      BY <2>1, <3>2, ConcatProperties
    <3>. QED
      BY <3>3
  <2>3. Len(q) = c + 1 /\ q[1] = 0 /\ \A j \in 1 .. c : q[j + 1] = s[j]
    BY <2>1, <2>2
  <2>4. ends = q \o <<l + 1>>
    BY <1>7, <2>2
  <2>5. l + 1 \in Nat
    OBVIOUS
  <2>6. /\ Len(ends) = Len(q) + 1 /\ ends[Len(q) + 1] = l + 1
        /\ \A j \in 1 .. Len(q) : ends[j] = q[j]
    BY <2>2, <2>4, <2>5
  <2>7. \A j \in 1 .. c : j + 1 \in 1 .. Len(q)
    BY <1>6, <2>3
  <2>8. 1 \in 1 .. Len(q)
    BY <1>6, <2>3
  <2>. QED
    BY <1>6, <2>3, <2>6, <2>7, <2>8
<1>9. PICK n : n = c + 1
  OBVIOUS
<1>10. PICK e : e = [k \in 0 .. n |-> ends[k + 1]]
  OBVIOUS
<1>11. /\ e[0] = 0 /\ e[n] = l + 1
       /\ \A j \in 1 .. c : e[j] = s[j] /\ s[j] \in S /\ s[j] \in 1 .. l
  <2>1. e[0] = 0 /\ e[n] = l + 1
    BY <1>6, <1>8, <1>9, <1>10
  <2>2. \A j \in 1 .. c : e[j] = s[j]
    BY <1>6, <1>8, <1>9, <1>10
  <2>3. \A j \in 1 .. c : s[j] \in S
    BY <1>6
  <2>. QED
    BY <1>3, <2>1, <2>2, <2>3
<1>12. \A j \in 0 .. n : j = 0 \/ j = n \/ j \in 1 .. c
  BY <1>6, <1>9
<1>13. e \in [0 .. n -> 0 .. l + 1]
  <2>1. \A j \in 0 .. n : e[j] \in 0 .. l + 1
    BY <1>11, <1>12
  <2>. QED
    BY <1>10, <2>1
<1>14. ASSUME NEW j \in 0 .. n, NEW k \in 0 .. n, j < k
       PROVE  e[j] < e[k]
  <2>1. CASE j \in 1 .. c /\ k \in 1 .. c
    BY <1>6, <1>11, <1>14, <2>1
  <2>2. CASE j = 0
    <3>1. k \in 1 .. c \/ k = n
      BY <1>6, <1>9, <1>14, <2>2
    <3>. QED
      BY <1>11, <2>2, <3>1
  <2>3. CASE k = n
    <3>1. j \in 1 .. c \/ j = 0
      BY <1>6, <1>9, <1>14, <2>3
    <3>. QED
      BY <1>11, <2>3, <3>1
  <2>. QED
    BY <1>6, <1>9, <1>14, <2>1, <2>2, <2>3
<1>15. SplitsAt(e, n, S, l + 1)
  <2>1. n \in Nat /\ n # 0 /\ l + 1 \in Nat /\ 1 .. n - 1 = 1 .. c
    BY <1>6, <1>9
  <2>2. \A j \in 1 .. n - 1 : e[j] \in S
    BY <1>11, <2>1
  <2>3. \A x \in S : \E j \in 1 .. n - 1 : e[j] = x
    BY <1>6, <1>11, <2>1
  <2>. QED
    BY <1>11, <1>13, <1>14, <2>1, <2>2, <2>3 DEF SplitsAt
<1>16. Children(text) = [k \in 1 .. n |-> SubSeq(inside, e[k - 1] + 1, e[k] - 1)]
  <2>1. {i \in DOMAIN inside : inside[i] = "," /\ Nesting(inside, i) <= 0} = S
    <3>1. DOMAIN inside = 1 .. Len(inside)
      BY DEF Words
    <3>. QED
      BY <1>2, <3>1 DEF TopCommas
  <2>2. Children(text)
        = [k \in 1 .. Len(ends) - 1 |-> SubSeq(inside, ends[k] + 1, ends[k + 1] - 1)]
    BY <1>1, <1>5, <1>7, <2>1, Zenon DEF Children
  <2>3. 1 .. Len(ends) - 1 = 1 .. n
    BY <1>6, <1>8, <1>9
  <2>4. \A k \in 1 .. n : ends[k] = e[k - 1] /\ ends[k + 1] = e[k]
    <3>1. SUFFICES ASSUME NEW k \in 1 .. n
                   PROVE  ends[k] = e[k - 1] /\ ends[k + 1] = e[k]
      OBVIOUS
    <3>2. k - 1 \in 0 .. n /\ (k - 1) + 1 = k /\ k \in 0 .. n
      BY <1>6, <1>9
    <3>. QED
      BY <1>10, <3>2
  <2>5. [k \in 1 .. n |-> SubSeq(inside, ends[k] + 1, ends[k + 1] - 1)]
        = [k \in 1 .. n |-> SubSeq(inside, e[k - 1] + 1, e[k] - 1)]
    BY <2>4
  <2>. QED
    BY <2>2, <2>3, <2>5, Zenon
<1>17. SplitsAt(e, n, TopCommas(inside), Len(inside) + 1)
  BY <1>1, <1>2, <1>15
<1>18. IsSplit(text, inside, n, e)
  BY <1>16, <1>17, Zenon DEF IsSplit
<1>. QED
  BY <1>18, Zenon

\* The ends e of the pieces of what is inside a text.
CommaSplit(text, inside, n, e) ==
    /\ inside \in Words /\ inside = Inside(text)
    /\ SplitsAt(e, n, TopCommas(inside), Len(inside) + 1)

\* A text is split at its commas that are not nested, in one way only.
LEMMA ChildrenAre ==
    ASSUME NEW text, NEW inside, NEW n, NEW e, CommaSplit(text, inside, n, e)
    PROVE  IsSplit(text, inside, n, e)
<1>0. /\ inside \in Words /\ inside = Inside(text)
      /\ SplitsAt(e, n, TopCommas(inside), Len(inside) + 1)
  BY DEF CommaSplit
<1>1. PICK m, f : /\ SplitsAt(f, m, TopCommas(inside), Len(inside) + 1)
                  /\ Children(text)
                     = [k \in 1 .. m |-> SubSeq(inside, f[k - 1] + 1, f[k] - 1)]
  <2>1. \E m, f : IsSplit(text, inside, m, f)
    BY <1>0, ChildrenSplit
  <2>. QED
    BY <2>1, Zenon DEF IsSplit
<1>2. m = n /\ f = e
  BY <1>0, <1>1, SplitUnique
<1>. QED
  BY <1>0, <1>1, <1>2, Zenon DEF IsSplit

\* The last position of a token.
LEMMA LastPosition ==
    ASSUME NEW text \in Words, Contains(text, ">"),
           NEW x, x = SelectLastInSeq(text, LAMBDA t : t = ">")
    PROVE  /\ x \in 1 .. Len(text) /\ text[x] = ">"
           /\ \A i \in 1 .. Len(text) : text[i] = ">" => i <= x
<1>1. PICK l \in Nat : l = Len(text)
  BY WordLength
<1>2. PICK I : I = {i \in 1 .. l : text[i] = ">"}
  OBVIOUS
<1>3. I # {} /\ I \subseteq 1 .. l
  BY <1>1, <1>2 DEF Contains
<1>4. PICK R : R = {l - i : i \in I}
  OBVIOUS
<1>5. R \subseteq Nat /\ R # {}
  BY <1>3, <1>4
<1>6. PICK r \in R : \A m \in R : r <= m
  BY <1>5, LeastNatural
<1>7. PICK y \in I : r = l - y
  BY <1>4
<1>8. \A i \in I : i <= y
  <2>1. SUFFICES ASSUME NEW i \in I PROVE i <= y
    OBVIOUS
  <2>2. l - i \in R
    BY <1>4
  <2>3. r <= l - i
    BY <1>6, <2>2
  <2>. QED
    BY <1>3, <1>7, <2>3
<1>9. Max(I) \in I /\ \A i \in I : Max(I) >= i
  <2>1. \E z \in I : \A i \in I : z >= i
    BY <1>3, <1>8
  <2>. QED
    BY <2>1, Zenon DEF Max
<1>10. x = Max(I)
  BY <1>1, <1>2, <1>3, Zenon DEF SelectLastInSeq
<1>. QED
  BY <1>1, <1>2, <1>3, <1>9, <1>10

\* The inside of a text is shorter.
LEMMA InsideShorter ==
    ASSUME NEW text \in Words, Contains(text, ">"), text[1] # ">"
    PROVE  Inside(text) \in Words /\ Len(Inside(text)) < Len(text)
<1>1. PICK x : x = SelectLastInSeq(text, LAMBDA t : t = ">")
  OBVIOUS
<1>2. x \in 1 .. Len(text) /\ text[x] = ">" /\ Len(text) \in Nat
  BY <1>1, LastPosition, WordLength
<1>3. x \in 2 .. Len(text)
  BY <1>2
<1>4. \A i \in 2 .. x - 1 : text[i] \in Token
  BY <1>3 DEF Words
<1>5. PICK T, s : T = Token /\ s = SubSeq(text, 2, x - 1)
  OBVIOUS
<1>6. s \in Seq(T) /\ Len(s) = IF 2 <= x - 1 THEN (x - 1) - 2 + 1 ELSE 0
  BY <1>2, <1>4, <1>5, SubSeqProperties
<1>7. Inside(text) = s
  BY <1>1, <1>5, Zenon DEF Inside
<1>. QED
  BY <1>2, <1>3, <1>5, <1>6, <1>7 DEF Words

\* The inside of a text in brackets.
LEMMA InsideWrapped ==
    ASSUME NEW w, NEW o, NEW u, IsWrapped(w, o, u)
    PROVE  Contains(w, ">") /\ Inside(w) = u
<1>1. /\ w \in Words /\ Len(w) = Len(u) + 2 /\ Len(u) \in Nat
      /\ w[Len(w)] = ">" /\ Stands(u, 1, w)
  BY WordLength DEF IsWrapped
<1>2. Contains(w, ">")
  <2>1. Len(w) \in 1 .. Len(w)
    BY <1>1
  <2>. QED
    BY <1>1, <2>1, Zenon DEF Contains
<1>3. PICK x : x = SelectLastInSeq(w, LAMBDA t : t = ">")
  OBVIOUS
<1>4. x \in 1 .. Len(w) /\ \A i \in 1 .. Len(w) : w[i] = ">" => i <= x
  BY <1>1, <1>2, <1>3, LastPosition
<1>5. x = Len(w)
  BY <1>1, <1>4
<1>6. PICK a, b, n : a = 2 /\ b = x - 1 /\ n = 1
  OBVIOUS
<1>7. Stands(u, n, w) /\ a = n + 1 /\ b = n + Len(u)
  BY <1>1, <1>5, <1>6
<1>8. SubSeq(w, a, b) = u
  BY <1>7, StandsSubSeq
<1>9. Inside(w) = u
  BY <1>3, <1>6, <1>8, Zenon DEF Inside
<1>. QED
  BY <1>2, <1>9

-----------------------------------------------------------------------------
(* Recursion over texts *)

\* A piece of a text is no longer.
LEMMA PieceOfWord ==
    ASSUME NEW w \in Words, NEW a \in Nat, a # 0, NEW b \in Int, b <= Len(w),
           NEW s, s = SubSeq(w, a, b)
    PROVE  /\ s \in Words /\ Len(s) \in Nat /\ Len(s) <= Len(w)
           /\ Len(s) = IF a <= b THEN b - a + 1 ELSE 0
           /\ \A i \in 1 .. b - a + 1 : s[i] = w[a + i - 1]
<1>1. PICK T : T = Token
  OBVIOUS
<1>2. Len(w) \in Nat /\ \A i \in a .. b : w[i] \in T
  BY <1>1 DEF Words
<1>3. /\ s \in Seq(T) /\ Len(s) = IF a <= b THEN b - a + 1 ELSE 0
      /\ \A i \in 1 .. b - a + 1 : s[i] = w[a + i - 1]
  BY <1>2, SubSeqProperties
<1>. QED
  BY <1>1, <1>2, <1>3 DEF Words

IsPiece(s, w, x, y) == s = SubSeq(w, x + 1, y - 1)

\* What stands between two positions.
LEMMA PieceBetween ==
    ASSUME NEW w \in Words, NEW x \in Nat, NEW y \in Nat,
           x < y, y <= Len(w) + 1,
           NEW s, IsPiece(s, w, x, y)
    PROVE  Stands(s, x, w) /\ Len(s) = y - x - 1
<1>1. PICK T : T = Token
  OBVIOUS
<1>2. PICK a \in Nat, b \in Int : a = x + 1 /\ b = y - 1
  OBVIOUS
<1>3. s = SubSeq(w, a, b)
  BY <1>2 DEF IsPiece
<1>4. Len(w) \in Nat
  BY WordLength
<1>5. \A i \in a .. b : w[i] \in T
  BY <1>1, <1>4, <1>2 DEF Words
<1>6. /\ s \in Seq(T) /\ Len(s) = IF a <= b THEN b - a + 1 ELSE 0
      /\ \A i \in 1 .. b - a + 1 : s[i] = w[a + i - 1]
  BY <1>5, <1>3, SubSeqProperties
<1>7. s \in Words
  BY <1>1, <1>6 DEF Words
<1>8. Len(s) = y - x - 1 /\ b - a + 1 = Len(s)
  BY <1>4, <1>6, <1>2
<1>9. \A i \in 1 .. Len(s) : w[x + i] = s[i]
  <2>1. SUFFICES ASSUME NEW i \in 1 .. Len(s) PROVE w[x + i] = s[i]
    OBVIOUS
  <2>2. i \in 1 .. b - a + 1 /\ i \in Int
    BY <1>4, <1>8
  <2>3. s[i] = w[a + i - 1]
    BY <1>6, <2>2
  <2>4. a + i - 1 = x + i
    BY <1>2, <2>2
  <2>. QED
    BY <2>3, <2>4
<1>. QED
  BY <1>4, <1>7, <1>8, <1>9 DEF Stands

\* What stands between two places of a split.
LEMMA SplitPiece ==
    ASSUME NEW w \in Words, NEW S, NEW e, NEW n,
           SplitsAt(e, n, S, Len(w) + 1), NEW k \in 1 .. n,
           NEW s, s = SubSeq(w, e[k - 1] + 1, e[k] - 1)
    PROVE  Stands(s, e[k - 1], w) /\ Len(s) = e[k] - e[k - 1] - 1
<1>1. Len(w) \in Nat
  BY WordLength
<1>2. /\ e[k - 1] \in Nat /\ e[k] \in Nat
      /\ e[k] <= Len(w) + 1 /\ e[k - 1] < e[k]
  <2>1. k - 1 \in 0 .. n /\ k \in 0 .. n /\ k - 1 < k
    BY DEF SplitsAt
  <2>. QED
    BY <1>1, <2>1 DEF SplitsAt
<1>3. PICK x \in Nat, y \in Nat : x = e[k - 1] /\ y = e[k]
  BY <1>2
<1>4. IsPiece(s, w, x, y)
  BY <1>3 DEF IsPiece
<1>5. x < y /\ y <= Len(w) + 1
  BY <1>2, <1>3
<1>6. Stands(s, x, w) /\ Len(s) = y - x - 1
  BY <1>4, <1>5, PieceBetween
<1>. QED
  BY <1>3, <1>6

\* The children of a text are shorter than the text.
LEMMA ChildrenShorter ==
    ASSUME NEW text \in Words, Contains(text, ">"), text[1] # ">",
           NEW k \in DOMAIN Children(text), NEW s, s = Children(text)[k]
    PROVE  s \in Words /\ Len(s) < Len(text)
<1>1. PICK inside \in Words : inside = Inside(text) /\ Len(inside) < Len(text)
  BY InsideShorter
<1>a. PICK n, e : IsSplit(text, inside, n, e)
  BY <1>1, ChildrenSplit
<1>2. /\ SplitsAt(e, n, TopCommas(inside), Len(inside) + 1)
      /\ Children(text)
         = [j \in 1 .. n |-> SubSeq(inside, e[j - 1] + 1, e[j] - 1)]
  BY <1>a, Zenon DEF IsSplit
<1>3. k \in 1 .. n /\ s = SubSeq(inside, e[k - 1] + 1, e[k] - 1)
  BY <1>2
<1>4. Stands(s, e[k - 1], inside)
  BY <1>2, <1>3, SplitPiece
<1>5. Len(inside) \in Nat /\ Len(text) \in Nat /\ Len(s) \in Nat
  BY <1>4, WordLength DEF Stands
<1>. QED
  BY <1>1, <1>4, <1>5 DEF Stands

\* The parser looks only at shorter texts.
LEMMA TypeOfTextShorter ==
    ASSUME NEW text \in Words, NEW f, NEW g,
           \A v \in Words : Len(v) < Len(text) => f[v] = g[v]
    PROVE  TypeOfText(text, f) = TypeOfText(text, g)
<1>1. ASSUME Contains(text, ">"), text[1] # ">"
      PROVE  /\ ArrayType(text, f) = ArrayType(text, g)
             /\ MapType(text, f) = MapType(text, g)
             /\ StructType(text, f) = StructType(text, g)
  <2>1. f[Inside(text)] = g[Inside(text)]
    BY <1>1, InsideShorter
  <2>2. ArrayType(text, f) = ArrayType(text, g)
    BY <2>1, Zenon DEF ArrayType
  <2>3. PICK children : children = Children(text)
    OBVIOUS
  <2>4. \A k \in DOMAIN children :
            children[k] \in Words /\ Len(children[k]) < Len(text)
    BY <1>1, <2>3, ChildrenShorter
  <2>5. [k \in DOMAIN children |-> f[children[k]]]
        = [k \in DOMAIN children |-> g[children[k]]]
    BY <2>4
  <2>6. MapType(text, f) = MapType(text, g)
    BY <2>3, <2>5, Zenon DEF MapType
  <2>7. ASSUME NEW k \in DOMAIN children, NEW s, s = SubSeq(children[k], 3, Len(children[k]))
        PROVE  f[s] = g[s]
    <3>1. PICK child \in Words : child = children[k] /\ Len(child) < Len(text)
      BY <2>4
    <3>2. PICK a \in Nat : a = 3 /\ a # 0
      OBVIOUS
    <3>3. PICK b \in Int : b = Len(child) /\ b <= Len(child)
      BY WordLength
    <3>4. s = SubSeq(child, a, b)
      BY <2>7, <3>1, <3>2, <3>3
    <3>5. s \in Words /\ Len(s) <= Len(child) /\ Len(s) \in Nat
      BY <3>2, <3>3, <3>4, PieceOfWord, ZenonT(60)
    <3>6. Len(s) < Len(text)
      BY <3>1, <3>5, WordLength
    <3>. QED
      BY <3>5, <3>6
  <2>8. [k \in DOMAIN children |->
            IF Contains(children[k], ":")
            THEN f[SubSeq(children[k], 3, Len(children[k]))] ELSE Thrown]
        = [k \in DOMAIN children |->
            IF Contains(children[k], ":")
            THEN g[SubSeq(children[k], 3, Len(children[k]))] ELSE Thrown]
    <3>1. \A k \in DOMAIN children :
              f[SubSeq(children[k], 3, Len(children[k]))]
              = g[SubSeq(children[k], 3, Len(children[k]))]
      BY <2>7
    <3>. QED
      BY <3>1
  <2>9. StructType(text, f) = StructType(text, g)
    BY <2>3, <2>8, Zenon DEF StructType
  <2>. QED
    BY <2>2, <2>6, <2>9
<1>2. CASE Contains(text, ">") /\ text[1] # ">"
  <2>1. /\ ArrayType(text, f) = ArrayType(text, g)
        /\ MapType(text, f) = MapType(text, g)
        /\ StructType(text, f) = StructType(text, g)
    BY <1>1, <1>2
  <2>. QED
    BY <2>1, Zenon DEF TypeOfText
<1>3. CASE ~(Contains(text, ">") /\ text[1] # ">")
  <2>1. ASSUME NEW o \in Opening
        PROVE  ~(StartsWith(text, o) /\ Contains(text, ">"))
    BY <1>3, OpeningFacts DEF StartsWith
  <2>2. /\ ~(StartsWith(text, "array<") /\ Contains(text, ">"))
        /\ ~(StartsWith(text, "map<") /\ Contains(text, ">"))
        /\ ~(StartsWith(text, "struct<") /\ Contains(text, ">"))
    BY <2>1 DEF Opening
  <2>. QED
    BY <2>2 DEF TypeOfText
<1>. QED
  BY <1>2, <1>3

WordsUpTo(d) == {v \in Words : Len(v) <= d}

AreRead(f, d) == f = [v \in WordsUpTo(d) |-> TypeOfText(v, f)]

\* The recursion has a solution for texts of any length.
LEMMA ReadExist ==
    ASSUME NEW d \in Nat
    PROVE  \E f : AreRead(f, d)
<1> DEFINE Without == {n \in Nat : ~ \E f : AreRead(f, n)}
<1>1. SUFFICES ASSUME Without # {} PROVE FALSE
  OBVIOUS
<1>2. PICK n \in Without : \A k \in Without : n <= k
  <2>1. Without \subseteq Nat
    OBVIOUS
  <2> HIDE DEF Without
  <2>. QED
    BY <1>1, <2>1, LeastNatural
<1>3. PICK f : n # 0 => AreRead(f, n - 1)
  <2>1. n # 0 => n - 1 \in Nat /\ n - 1 \notin Without
    BY <1>2
  <2>. QED
    BY <2>1
<1> DEFINE g == [v \in WordsUpTo(n) |-> TypeOfText(v, f)]
<1>4. ASSUME NEW v \in WordsUpTo(n), NEW u \in Words, Len(u) < Len(v)
      PROVE  g[u] = f[u]
  <2>1. Len(u) \in Nat /\ Len(v) \in Nat /\ Len(v) <= n /\ n \in Nat
    BY <1>2, WordLength DEF WordsUpTo
  <2>2. n # 0 /\ u \in WordsUpTo(n - 1) /\ u \in WordsUpTo(n)
    BY <1>4, <2>1 DEF WordsUpTo
  <2>3. f[u] = TypeOfText(u, f)
    BY <1>3, <2>2, Zenon DEF AreRead
  <2>. QED
    BY <2>2, <2>3, Zenon
<1>5. \A v \in WordsUpTo(n) : TypeOfText(v, f) = TypeOfText(v, g)
  <2> HIDE DEF g
  <2>1. SUFFICES ASSUME NEW v \in WordsUpTo(n)
                 PROVE  TypeOfText(v, f) = TypeOfText(v, g)
    OBVIOUS
  <2>2. v \in Words
    BY DEF WordsUpTo
  <2>3. \A u \in Words : Len(u) < Len(v) => f[u] = g[u]
    BY <1>4
  <2>. QED
    BY <2>2, <2>3, TypeOfTextShorter
<1>6. AreRead(g, n)
  <2>1. g = [v \in WordsUpTo(n) |-> TypeOfText(v, f)]
    OBVIOUS
  <2> HIDE DEF g
  <2>. QED
    BY <1>5, <2>1, Zenon DEF AreRead
<1>. QED
  BY <1>2, <1>6

\* Solutions agree.
LEMMA ReadAgree ==
    ASSUME NEW d \in Nat, NEW f, AreRead(f, d), NEW c \in Nat, NEW g, AreRead(g, c),
           NEW v \in Words, Len(v) <= d, Len(v) <= c
    PROVE  f[v] = g[v]
<1> DEFINE Lengths == {Len(w) : w \in {w \in Words : /\ Len(w) <= d /\ Len(w) <= c
                                                     /\ f[w] # g[w]}}
<1>1. SUFFICES ASSUME f[v] # g[v] PROVE FALSE
  OBVIOUS
<1>2. Lengths \subseteq Nat /\ Lengths # {}
  BY <1>1, WordLength
<1>3. PICK n \in Lengths : \A m \in Lengths : n <= m
  <2> HIDE DEF Lengths
  <2>. QED
    BY <1>2, LeastNatural
<1>4. PICK w \in Words : n = Len(w) /\ Len(w) <= d /\ Len(w) <= c /\ f[w] # g[w]
  OBVIOUS
<1>5. \A u \in Words : Len(u) < Len(w) => f[u] = g[u]
  <2>1. SUFFICES ASSUME NEW u \in Words, Len(u) < Len(w), f[u] # g[u] PROVE FALSE
    OBVIOUS
  <2>2. Len(u) \in Nat /\ Len(w) \in Nat
    BY WordLength
  <2>3. Len(u) \in Lengths
    BY <1>4, <2>1, <2>2
  <2>. QED
    BY <1>3, <1>4, <2>1, <2>2, <2>3
<1>6. TypeOfText(w, f) = TypeOfText(w, g)
  BY <1>5, TypeOfTextShorter
<1>7. w \in WordsUpTo(d) /\ w \in WordsUpTo(c)
  BY <1>4 DEF WordsUpTo
<1>8. f[w] = TypeOfText(w, f)
  BY <1>7, Zenon DEF AreRead
<1>9. g[w] = TypeOfText(w, g)
  BY <1>7, Zenon DEF AreRead
<1>. QED
  BY <1>4, <1>6, <1>8, <1>9

\* The definition of TypeToLogicalType defines it.
LEMMA CatalogDefined ==
    \A v \in Words : TypeToLogicalType[v] = TypeOfText(v, TypeToLogicalType)
<1> DEFINE Solution(d) == CHOOSE f : AreRead(f, d)
           all == [v \in Words |-> Solution(Len(v))[v]]
<1>1. \A d \in Nat : AreRead(Solution(d), d)
  BY ReadExist
<1>2. ASSUME NEW v \in Words
      PROVE  all[v] = TypeOfText(v, all)
  <2>1. PICK d \in Nat : d = Len(v)
    BY WordLength
  <2>2. PICK f : f = Solution(d)
    OBVIOUS
  <2>3. AreRead(f, d)
    BY <1>1, <2>2
  <2>4. \A u \in Words : Len(u) < Len(v) => f[u] = all[u]
    <3>1. SUFFICES ASSUME NEW u \in Words, Len(u) < Len(v) PROVE f[u] = all[u]
      OBVIOUS
    <3>2. PICK c \in Nat : c = Len(u)
      BY WordLength
    <3>3. PICK g : g = Solution(c)
      OBVIOUS
    <3>4. AreRead(g, c)
      BY <1>1, <3>3
    <3>5. f[u] = g[u]
      BY <2>1, <2>3, <3>1, <3>2, <3>4, ReadAgree
    <3>6. all[u] = g[u]
      BY <3>2, <3>3, Zenon
    <3>. QED
      BY <3>5, <3>6
  <2>5. TypeOfText(v, f) = TypeOfText(v, all)
    <3> HIDE DEF all
    <3>. QED
      BY <2>4, TypeOfTextShorter
  <2>6. v \in WordsUpTo(d)
    BY <2>1 DEF WordsUpTo
  <2>7. f[v] = TypeOfText(v, f)
    BY <2>3, <2>6, Zenon DEF AreRead
  <2>8. all[v] = f[v]
    BY <2>1, <2>2, Zenon
  <2>. QED
    BY <2>5, <2>7, <2>8, Zenon
<1>3. \E f : f = [v \in Words |-> TypeOfText(v, f)]
  <2>1. all = [v \in Words |-> all[v]]
    OBVIOUS
  <2> HIDE DEF all
  <2>2. all = [v \in Words |-> TypeOfText(v, all)]
    BY <1>2, <2>1, Zenon
  <2>. QED
    BY <2>2, Zenon
<1>4. TypeToLogicalType = CHOOSE f : f = [v \in Words |-> TypeOfText(v, f)]
  BY Zenon DEF TypeToLogicalType, Words
<1>5. TypeToLogicalType = [v \in Words |-> TypeOfText(v, TypeToLogicalType)]
  BY <1>3, <1>4, Zenon
<1>. QED
  BY <1>5, Zenon

-----------------------------------------------------------------------------
(* Texts with commas between them *)

\* A text, a comma and another text.
CommaBetween(u, t, w) ==
    /\ Closed(w) /\ Len(w) = Len(u) + 1 + Len(t)
    /\ Stands(u, 0, w) /\ Stands(t, Len(u) + 1, w)
    /\ \A i \in 1 .. Len(u) : i \in TopCommas(w) <=> i \in TopCommas(u)
    /\ Len(u) + 1 \in TopCommas(w)
    /\ \A i \in 1 .. Len(t) :
          Len(u) + 1 + i \in TopCommas(w) <=> i \in TopCommas(t)

IsComma(w) == Closed(w) /\ Len(w) = 1 /\ 1 \in TopCommas(w)

\* A comma alone is closed, and separates.
LEMMA CommaClosed ==
    \A w : w = <<",">> => IsComma(w)
<1>1. SUFFICES ASSUME NEW w, w = <<",">> PROVE IsComma(w)
  OBVIOUS
<1>2. PICK c \in Token : c = ","
  BY OpeningFacts
<1>3. Change(c) = 0
  BY <1>2, OpeningFacts DEF Change
<1>4. w \in Words /\ Len(w) = 1 /\ w[1] = c
  BY <1>1, <1>2, OneToken
<1>5. \A i \in 1 .. Len(w) : Change(w[i]) = 0
  <2>1. SUFFICES ASSUME NEW i \in 1 .. Len(w) PROVE Change(w[i]) = 0
    OBVIOUS
  <2>2. i = 1
    BY <1>4
  <2>. QED
    BY <1>3, <1>4, <2>2, Zenon
<1>6. Closed(w)
  BY <1>4, <1>5, PlainClosed
<1>7. PICK n \in 1 .. Len(w) : n = 1
  BY <1>4
<1>8. Nesting(w, n) <= 0
  BY <1>7, NestingFirst
<1>9. w[n] = ","
  BY <1>2, <1>4, <1>7, Zenon
<1>10. n \in TopCommas(w)
  BY <1>8, <1>9, Zenon DEF TopCommas
<1>. QED
  BY <1>4, <1>6, <1>7, <1>10, Zenon DEF IsComma

\* Two closed texts with a comma between them are closed.
LEMMA CommaBetweenClosed ==
    ASSUME NEW u, NEW t, Closed(u), Closed(t), NEW c, IsComma(c),
           NEW w, w = u \o c \o t
    PROVE  CommaBetween(u, t, w)
<1>1. Closed(c) /\ Len(c) = 1 /\ 1 \in TopCommas(c)
  BY DEF IsComma
<1>2. PICK v : v = u \o c
  OBVIOUS
<1>3. /\ Closed(v) /\ Len(v) = Len(u) + Len(c)
      /\ \A i \in 1 .. Len(u) : i \in TopCommas(v) <=> i \in TopCommas(u)
      /\ \A i \in 1 .. Len(c) : Len(u) + i \in TopCommas(v) <=> i \in TopCommas(c)
  BY <1>1, <1>2, ConcatClosed, ZenonT(60)
<1>4. w = v \o t
  BY <1>2
<1>5. /\ Closed(w) /\ Len(w) = Len(v) + Len(t)
      /\ \A i \in 1 .. Len(v) : i \in TopCommas(w) <=> i \in TopCommas(v)
      /\ \A i \in 1 .. Len(t) : Len(v) + i \in TopCommas(w) <=> i \in TopCommas(t)
  BY <1>3, <1>4, ConcatClosed, ZenonT(60)
<1>6. u \in Words /\ c \in Words /\ v \in Words /\ t \in Words
  BY <1>1, <1>3 DEF Closed
<1>7. Stands(u, 0, v)
  BY <1>2, <1>6, ConcatStands
<1>8. Stands(v, 0, w) /\ Stands(t, Len(v), w)
  BY <1>4, <1>6, ConcatStands
<1>9. Stands(u, 0, w)
  <2>1. PICK z \in Nat : z = 0 /\ z = z + z
    OBVIOUS
  <2>2. Stands(u, z, v) /\ Stands(v, z, w)
    BY <1>7, <1>8, <2>1
  <2>. QED
    BY <2>1, <2>2, StandsStands
<1>10. Len(u) \in Nat /\ Len(t) \in Nat /\ Len(v) = Len(u) + 1
  BY <1>1, <1>3, <1>6, WordLength
<1>11. Len(w) = Len(u) + 1 + Len(t) /\ Stands(t, Len(u) + 1, w)
  BY <1>5, <1>8, <1>10
<1>12. ASSUME NEW i \in 1 .. Len(u)
       PROVE  i \in TopCommas(w) <=> i \in TopCommas(u)
  <2>1. i \in 1 .. Len(v)
    BY <1>10
  <2>. QED
    BY <1>3, <1>5, <2>1
<1>13. Len(u) + 1 \in TopCommas(w)
  <2>1. PICK n \in 1 .. Len(c) : n = 1
    BY <1>1
  <2>2. Len(u) + n \in TopCommas(v)
    BY <1>1, <1>3, <2>1
  <2>3. PICK i \in 1 .. Len(v) : i = Len(u) + n
    BY <1>10, <2>1
  <2>4. i \in TopCommas(w)
    BY <1>5, <2>2, <2>3
  <2>. QED
    BY <2>1, <2>3, <2>4
<1>14. \A i \in 1 .. Len(t) :
           Len(u) + 1 + i \in TopCommas(w) <=> i \in TopCommas(t)
  BY <1>5, <1>10
<1>. QED
  BY <1>5, <1>9, <1>11, <1>12, <1>13, <1>14 DEF CommaBetween

JoinStep(texts, f, k) ==
    IF k = 1 THEN texts[1] ELSE f[k - 1] \o <<",">> \o texts[k]

AreJoined(texts, f, n) == f = [k \in 1 .. n |-> JoinStep(texts, f, k)]

\* The recursion of Joined has a solution.
LEMMA JoinedExist ==
    ASSUME NEW texts, NEW d \in Nat
    PROVE  \E f : AreJoined(texts, f, d)
<1> DEFINE Without == {n \in Nat : ~ \E f : AreJoined(texts, f, n)}
<1>1. SUFFICES ASSUME Without # {} PROVE FALSE
  OBVIOUS
<1>2. PICK n \in Without : \A k \in Without : n <= k
  <2>1. Without \subseteq Nat
    OBVIOUS
  <2> HIDE DEF Without
  <2>. QED
    BY <1>1, <2>1, LeastNatural
<1>3. PICK f : n # 0 => AreJoined(texts, f, n - 1)
  <2>1. n # 0 => n - 1 \in Nat /\ n - 1 \notin Without
    BY <1>2
  <2>. QED
    BY <2>1
<1> DEFINE g == [k \in 1 .. n |-> JoinStep(texts, f, k)]
<1>4. ASSUME NEW k \in 1 .. n
      PROVE  JoinStep(texts, f, k) = JoinStep(texts, g, k)
  <2>1. CASE k = 1
    BY <2>1 DEF JoinStep
  <2>2. CASE k # 1
    <3>1. n \in Nat /\ n # 0 /\ k - 1 \in 1 .. n /\ k - 1 \in 1 .. n - 1
      BY <1>2, <2>2
    <3>2. f[k - 1] = JoinStep(texts, f, k - 1)
      BY <1>3, <3>1, Zenon DEF AreJoined
    <3>3. g[k - 1] = f[k - 1]
      BY <3>1, <3>2
    <3> HIDE DEF g
    <3>. QED
      BY <3>3, Zenon DEF JoinStep
  <2>. QED
    BY <2>1, <2>2
<1>5. AreJoined(texts, g, n)
  <2>1. g = [k \in 1 .. n |-> JoinStep(texts, f, k)]
    OBVIOUS
  <2> HIDE DEF g
  <2>. QED
    BY <1>4, <2>1, Zenon DEF AreJoined
<1>. QED
  BY <1>2, <1>5

\* The definition of Joined defines the texts up to each of them.
LEMMA JoinedDefined ==
    ASSUME NEW texts, NEW n \in Nat, n = Len(texts)
    PROVE  \E f : AreJoined(texts, f, n) /\ Joined(texts) = f[n]
<1> DEFINE f == CHOOSE f : f = [k \in 1 .. Len(texts) |-> JoinStep(texts, f, k)]
<1>1. Joined(texts) = f[Len(texts)]
  BY DEF Joined, JoinStep
<1>2. \E g : g = [k \in 1 .. Len(texts) |-> JoinStep(texts, g, k)]
  BY JoinedExist, Zenon DEF AreJoined
<1>3. f = [k \in 1 .. Len(texts) |-> JoinStep(texts, f, k)]
  BY <1>2, Zenon
<1> HIDE DEF f
<1>4. AreJoined(texts, f, n)
  BY <1>3, Zenon DEF AreJoined
<1>. QED
  BY <1>1, <1>4

\* Text w has the first n texts, which end before the positions e.
Joins(texts, n, e, w) ==
    /\ Closed(w)
    /\ e[0] = 0 /\ e[n] = Len(w) + 1
    /\ \A j \in 0 .. n : e[j] \in Nat
    /\ \A j \in 1 .. n : /\ e[j] = e[j - 1] + Len(texts[j]) + 1
                         /\ Stands(texts[j], e[j - 1], w)
                         /\ \A i \in 1 .. Len(texts[j]) :
                               e[j - 1] + i \in TopCommas(w)
                               <=> i \in TopCommas(texts[j])
    /\ \A j \in 1 .. n - 1 : e[j] \in TopCommas(w)

\* The first text alone is joined.
LEMMA JoinsFirst ==
    ASSUME NEW texts, NEW t, t = texts[1], Closed(t)
    PROVE  \E e : Joins(texts, 1, e, t)
<1> DEFINE e == [j \in 0 .. 1 |-> IF j = 0 THEN 0 ELSE Len(t) + 1]
<1>1. t \in Words /\ Len(t) \in Nat
  BY WordLength DEF Closed
<1>2. e[0] = 0 /\ e[1] = Len(t) + 1
  BY <1>1
<1> HIDE DEF e
<1>3. Stands(t, 0, t)
  BY <1>1 DEF Stands
<1>4. \A j \in 0 .. 1 : j = 0 \/ j = 1
  OBVIOUS
<1>5. \A j \in 0 .. 1 : e[j] \in Nat
  BY <1>1, <1>2, <1>4
<1>6. ASSUME NEW j \in 1 .. 1
      PROVE  /\ e[j] = e[j - 1] + Len(texts[j]) + 1
             /\ Stands(texts[j], e[j - 1], t)
             /\ \A i \in 1 .. Len(texts[j]) :
                   e[j - 1] + i \in TopCommas(t) <=> i \in TopCommas(texts[j])
  <2>1. j = 1 /\ j - 1 = 0 /\ e[j] = Len(t) + 1 /\ e[j - 1] = 0 /\ texts[j] = t
    BY <1>2
  <2>2. \A i \in 1 .. Len(t) : 0 + i = i
    OBVIOUS
  <2>3. e[j] = e[j - 1] + Len(texts[j]) + 1
    BY <1>1, <2>1
  <2>4. Stands(texts[j], e[j - 1], t)
    BY <1>3, <2>1
  <2>5. \A i \in 1 .. Len(texts[j]) :
            e[j - 1] + i \in TopCommas(t) <=> i \in TopCommas(texts[j])
    BY <2>1, <2>2
  <2>. QED
    BY <2>3, <2>4, <2>5
<1>. QED
  BY <1>2, <1>5, <1>6 DEF Joins

\* One more text is behind a comma.
LEMMA JoinsNext ==
    ASSUME NEW texts, NEW n \in Nat, n # 0, NEW e, NEW u, Joins(texts, n, e, u),
           NEW m \in Nat, m = n + 1, NEW t, t = texts[m], Closed(t),
           NEW w, CommaBetween(u, t, w)
    PROVE  \E f : Joins(texts, m, f, w)
<1> DEFINE f == [j \in 0 .. m |-> IF j = m THEN Len(w) + 1 ELSE e[j]]
<1>1. /\ Len(t) \in Nat /\ Len(u) \in Nat /\ Len(w) \in Nat
      /\ Len(w) = Len(u) + 1 + Len(t)
  BY WordLength DEF Closed, Joins, CommaBetween
<1>2. f[m] = Len(w) + 1 /\ \A j \in 0 .. n : f[j] = e[j] /\ e[j] \in Nat
  BY DEF Joins
<1> HIDE DEF f
<1>3. e[0] = 0 /\ e[n] = Len(u) + 1
  BY DEF Joins
<1>4. f[0] = 0 /\ f[n] = Len(u) + 1
  BY <1>2, <1>3
<1>5. ASSUME NEW j \in 0 .. m PROVE f[j] \in Nat
  <2>1. j = m \/ j \in 0 .. n
    OBVIOUS
  <2>2. Len(w) + 1 \in Nat
    <3>1. PICK l \in Nat : l = Len(w)
      BY <1>1
    <3>2. l + 1 \in Nat
      OBVIOUS
    <3>. QED
      BY <3>1, <3>2, Zenon
  <2>3. f[m] \in Nat
    BY <1>2, <2>2, Zenon
  <2>. QED
    BY <1>2, <2>1, <2>3, Zenon
<1>6. ASSUME NEW j \in 1 .. n
      PROVE  /\ f[j] = f[j - 1] + Len(texts[j]) + 1
             /\ Stands(texts[j], f[j - 1], w)
             /\ \A i \in 1 .. Len(texts[j]) :
                   f[j - 1] + i \in TopCommas(w) <=> i \in TopCommas(texts[j])
  <2>1. f[j] = e[j] /\ f[j - 1] = e[j - 1] /\ e[j - 1] \in Nat /\ e[j] \in Nat
    BY <1>2
  <2>2. /\ e[j] = e[j - 1] + Len(texts[j]) + 1
        /\ Stands(texts[j], e[j - 1], u)
        /\ \A i \in 1 .. Len(texts[j]) :
              e[j - 1] + i \in TopCommas(u) <=> i \in TopCommas(texts[j])
    BY DEF Joins
  <2>3. Stands(texts[j], e[j - 1], w)
    <3>1. PICK x \in Nat : x = e[j - 1] /\ x = 0 + x
      BY <2>1
    <3>2. Stands(texts[j], x, u) /\ Stands(u, 0, w)
      BY <2>2, <3>1 DEF CommaBetween
    <3>. QED
      BY <3>1, <3>2, StandsStands
  <2>4. \A i \in 1 .. Len(texts[j]) : e[j - 1] + i \in 1 .. Len(u)
    BY <2>1, <2>2, WordLength, <1>1, SMTT(40) DEF Stands
  <2>5. \A i \in 1 .. Len(u) : i \in TopCommas(w) <=> i \in TopCommas(u)
    BY DEF CommaBetween
  <2>6. \A i \in 1 .. Len(texts[j]) :
            e[j - 1] + i \in TopCommas(w) <=> i \in TopCommas(texts[j])
    BY <2>2, <2>4, <2>5
  <2>. QED
    BY <2>1, <2>2, <2>3, <2>6
<1>7. /\ f[m] = f[m - 1] + Len(texts[m]) + 1
      /\ Stands(texts[m], f[m - 1], w)
      /\ \A i \in 1 .. Len(texts[m]) :
            f[m - 1] + i \in TopCommas(w) <=> i \in TopCommas(texts[m])
  <2>1. m - 1 = n /\ f[m - 1] = Len(u) + 1
    BY <1>4
  <2>2. f[m] = f[m - 1] + Len(texts[m]) + 1
    BY <1>1, <1>2, <2>1
  <2>3. Stands(texts[m], f[m - 1], w)
    BY <2>1 DEF CommaBetween
  <2>4. \A i \in 1 .. Len(texts[m]) :
            f[m - 1] + i \in TopCommas(w) <=> i \in TopCommas(texts[m])
    BY <2>1 DEF CommaBetween
  <2>. QED
    BY <2>2, <2>3, <2>4
<1>8. \A j \in 1 .. m : j \in 1 .. n \/ j = m
  OBVIOUS
<1>9. ASSUME NEW j \in 1 .. m - 1 PROVE f[j] \in TopCommas(w)
  <2>1. CASE j = n
    BY <1>4, <2>1 DEF CommaBetween
  <2>2. CASE j # n
    <3>1. j \in 1 .. n /\ j \in 1 .. n - 1 /\ j + 1 \in 1 .. n /\ (j + 1) - 1 = j
      BY <2>2
    <3>2. f[j] = e[j] /\ e[j] \in TopCommas(u)
      BY <1>2, <3>1 DEF Joins
    <3>3. e[j] \in 1 .. Len(u)
      BY <3>2 DEF TopCommas
    <3>. QED
      BY <3>2, <3>3 DEF CommaBetween
  <2>. QED
    BY <2>1, <2>2
<1>10. ASSUME NEW j \in 1 .. m
       PROVE  /\ f[j] = f[j - 1] + Len(texts[j]) + 1
              /\ Stands(texts[j], f[j - 1], w)
              /\ \A i \in 1 .. Len(texts[j]) :
                    f[j - 1] + i \in TopCommas(w) <=> i \in TopCommas(texts[j])
  BY <1>6, <1>7, <1>8, Zenon
<1>11. Closed(w)
  BY DEF CommaBetween
<1>12. Joins(texts, m, f, w)
  BY <1>2, <1>4, <1>5, <1>9, <1>10, <1>11 DEF Joins
<1>. QED
  BY <1>12

\* Texts that are closed are joined to one that is.
LEMMA JoinedJoins ==
    ASSUME NEW texts, NEW n \in Nat, n # 0, n = Len(texts),
           \A j \in 1 .. n : Closed(texts[j])
    PROVE  \E e : Joins(texts, n, e, Joined(texts))
<1>1. PICK f : AreJoined(texts, f, n) /\ Joined(texts) = f[n]
  BY JoinedDefined
<1>2. \A k \in 1 .. n : f[k] = JoinStep(texts, f, k)
  BY <1>1, Zenon DEF AreJoined
<1> DEFINE Without == {k \in Nat : k \in 1 .. n /\ ~ \E e : Joins(texts, k, e, f[k])}
<1>3. Without = {}
  <2>1. SUFFICES ASSUME Without # {} PROVE FALSE
    OBVIOUS
  <2>2. PICK k \in Without : \A l \in Without : k <= l
    <3>1. Without \subseteq Nat
      OBVIOUS
    <3> HIDE DEF Without
    <3>. QED
      BY <2>1, <3>1, LeastNatural
  <2>3. k \in 1 .. n /\ ~ \E e : Joins(texts, k, e, f[k])
    BY <2>2
  <2>4. CASE k = 1
    <3>1. f[k] = texts[1]
      BY <1>2, <2>3, <2>4, Zenon DEF JoinStep
    <3>2. Closed(texts[1])
      BY <2>3, <2>4
    <3>. QED
      BY <2>3, <2>4, <3>1, <3>2, JoinsFirst
  <2>5. CASE k # 1
    <3>1. PICK l \in Nat : l = k - 1 /\ l # 0 /\ k = l + 1 /\ l \in 1 .. n /\ k \in Nat
      BY <2>3, <2>5
    <3>2. l \notin Without
      BY <2>2, <3>1
    <3>3. PICK e : Joins(texts, l, e, f[l])
      BY <3>1, <3>2
    <3>4. f[k] = f[l] \o <<",">> \o texts[k]
      BY <1>2, <2>3, <2>5, <3>1, Zenon DEF JoinStep
    <3>5. PICK c : c = <<",">> /\ IsComma(c)
      BY CommaClosed, Zenon
    <3>6. f[k] = f[l] \o c \o texts[k]
      BY <3>4, <3>5, Zenon
    <3>7. Closed(f[l]) /\ Closed(texts[k])
      BY <2>3, <3>3 DEF Joins
    <3>8. CommaBetween(f[l], texts[k], f[k])
      BY <3>5, <3>6, <3>7, CommaBetweenClosed, Zenon
    <3>9. \E g : Joins(texts, k, g, f[k])
      BY <3>1, <3>3, <3>7, <3>8, JoinsNext, Zenon
    <3>. QED
      BY <2>3, <3>9
  <2>. QED
    BY <2>4, <2>5
<1>4. n \in 1 .. n /\ n \notin Without
  BY <1>3
<1>. QED
  BY <1>1, <1>4

-----------------------------------------------------------------------------
(* Types as texts *)

\* What stands for each member of a struct.
MemberTexts(type, text) ==
    [k \in 1 .. Len(type) - 1 |->
        <<type[k + 1][1], ":">> \o text[type[k + 1][2]]]

PairTexts(type, text) == <<text[type[2]], text[type[3]]>>

TextStep(names, text, type) ==
    CASE type[1] = "LIST" -> <<"array<">> \o text[type[2]] \o <<">">>
      [] type[1] = "MAP" ->
           <<"map<">> \o Joined(PairTexts(type, text)) \o <<">">>
      [] type[1] = "STRUCT" ->
           <<"struct<">> \o Joined(MemberTexts(type, text)) \o <<">">>
      [] OTHER -> NameText(names, type)

\* A step looks only at what is inside a type.
LEMMA TextStepInner ==
    ASSUME NEW names, NEW type \in ColumnTypes, NEW f, NEW g,
           \A part \in Inner(type) : f[part] = g[part]
    PROVE  TextStep(names, f, type) = TextStep(names, g, type)
<1>1. CASE type \in SimpleTypes \/ type \in DecimalTypes
  BY <1>1, TypeFacts DEF TextStep
<1>2. CASE IsList(type)
  BY <1>2, TypeFacts DEF TextStep
<1>3. CASE IsMap(type)
  <2>1. PairTexts(type, f) = PairTexts(type, g)
    BY <1>3, TypeFacts DEF PairTexts
  <2>2. type[1] = "MAP"
    BY <1>3, TypeFacts
  <2>. QED
    BY <2>1, <2>2 DEF TextStep
<1>4. CASE IsMembers(type)
  <2>1. \A k \in 1 .. Len(type) - 1 : f[type[k + 1][2]] = g[type[k + 1][2]]
    BY <1>4, TypeFacts DEF IsMembers
  <2>2. MemberTexts(type, f) = MemberTexts(type, g)
    BY <2>1 DEF MemberTexts
  <2>3. type[1] = "STRUCT"
    BY <1>4, TypeFacts
  <2>. QED
    BY <2>2, <2>3 DEF TextStep
<1>. QED
  BY <1>1, <1>2, <1>3, <1>4, TypeCases

AreTexts(names, f, d) == f = [type \in UpTo(d) |-> TextStep(names, f, type)]

\* The recursion has a solution for types up to any depth.
LEMMA TextsExist ==
    ASSUME NEW names, NEW d \in Nat
    PROVE  \E f : AreTexts(names, f, d)
<1> DEFINE Without == {n \in Nat : ~ \E f : AreTexts(names, f, n)}
<1>1. SUFFICES ASSUME Without # {} PROVE FALSE
  OBVIOUS
<1>2. PICK n \in Without : \A k \in Without : n <= k
  BY <1>1, LeastNatural
<1>3. PICK f : n # 0 => AreTexts(names, f, n - 1)
  <2>1. n # 0 => n - 1 \in Nat /\ n - 1 \notin Without
    BY <1>2
  <2>. QED
    BY <2>1
<1> DEFINE g == [type \in UpTo(n) |-> TextStep(names, f, type)]
<1>4. ASSUME NEW type \in UpTo(n)
      PROVE  \A part \in Inner(type) : g[part] = f[part]
  <2>1. SUFFICES ASSUME NEW part \in Inner(type) PROVE g[part] = f[part]
    OBVIOUS
  <2>2. part \in ColumnTypes /\ Depth[part] < Depth[type]
    BY InnerFacts DEF UpTo
  <2>3. n # 0 /\ part \in UpTo(n - 1) /\ part \in UpTo(n)
    BY <1>2, <2>2, TypesAssumption DEF UpTo
  <2>4. f[part] = TextStep(names, f, part)
    BY <1>3, <2>3, Zenon DEF AreTexts
  <2>. QED
    BY <2>3, <2>4
<1>5. \A type \in UpTo(n) : TextStep(names, f, type) = TextStep(names, g, type)
  <2> HIDE DEF g
  <2>1. UpTo(n) \subseteq ColumnTypes
    BY DEF UpTo
  <2>. QED
    BY <1>4, <2>1, TextStepInner
<1>6. AreTexts(names, g, n)
  <2>1. g = [type \in UpTo(n) |-> TextStep(names, f, type)]
    OBVIOUS
  <2> HIDE DEF g
  <2>. QED
    BY <1>5, <2>1, Zenon DEF AreTexts
<1>. QED
  BY <1>2, <1>6

\* The definition of Text defines it.
LEMMA TextsDefined ==
    ASSUME NEW names, NEW type \in ColumnTypes
    PROVE  Text(names)[type] = TextStep(names, Text(names), type)
<1>1. \E f : f = [t \in ColumnTypes |-> TextStep(names, f, t)]
  <2>1. MaxDepth \in Nat
    BY TypesAssumption
  <2>2. \E f : AreTexts(names, f, MaxDepth)
    BY <2>1, TextsExist
  <2>. QED
    BY <2>2, UpToAll, Zenon DEF AreTexts
<1>2. Text(names) = CHOOSE f : f = [t \in ColumnTypes |-> TextStep(names, f, t)]
  BY DEF Text, TextStep, PairTexts, MemberTexts
<1>3. Text(names) = [t \in ColumnTypes |-> TextStep(names, Text(names), t)]
  BY <1>1, <1>2, Zenon
<1>. QED
  BY <1>3, Zenon

-----------------------------------------------------------------------------
(* Names of types *)

\* Tokens that are neither brackets nor commas.
Plain(token) == Change(token) = 0 /\ token # "," /\ token # ":"

\* Names and the tokens of a decimal are no brackets.
LEMMA NamesArePlain ==
    /\ \A token \in Name : Plain(token) /\ token \in Token
    /\ Plain("decimal(") /\ Plain(")")
    /\ "decimal(" \in Token /\ ")" \in Token /\ ":" \in Token
    /\ Change(",") = 0 /\ Change(":") = 0 /\ ":" # ","
<1>1. \A token \in Name : token \notin Punctuation
  BY NameAssumption
<1>2. Opening \subseteq Punctuation /\ {">", ",", ":"} \subseteq Punctuation
  BY DEF Opening, Punctuation
<1>3. \A token \in Name : Plain(token)
  BY <1>1, <1>2 DEF Plain, Change
<1>4. Plain("decimal(") /\ Plain(")") /\ Change(",") = 0 /\ Change(":") = 0
  BY DEF Plain, Change, Opening
<1>. QED
  BY <1>3, <1>4 DEF Token, Punctuation

\* What catalogs call a type that is not nested.
LEMMA AnswerName ==
    ASSUME NEW names \in AnswerNames, NEW name \in DOMAIN IcebergNames
    PROVE  /\ names[name] \in Words
           /\ \/ names[name] = FixedName
              \/ \E word \in DOMAIN CatalogNames :
                    /\ names[name] = <<word>> /\ CatalogNames[word] = name
                    /\ name \notin {"TIME", "UUID"}
              \/ /\ name \in {"TIME", "UUID"}
                 /\ \E word \in {"time", "uuid"} : names[name] = <<word>>
<1>1. DOMAIN names = DOMAIN IcebergNames
  BY DEF AnswerNames, FileNames, IcebergNames
<1>2. names[name] \in Words
  BY <1>1, NameAssumption DEF Words
<1>3. \/ names[name] = IcebergNames[name]
      \/ names[name] = FixedName
      \/ name = "BIGINT" /\ names[name] = <<"bigint">>
  BY DEF AnswerNames, FileNames, IcebergNames
<1>4. CASE names[name] = IcebergNames[name]
  BY <1>2, <1>4 DEF IcebergNames, CatalogNames
<1>5. CASE name = "BIGINT" /\ names[name] = <<"bigint">>
  BY <1>2, <1>5 DEF CatalogNames
<1>. QED
  BY <1>2, <1>3, <1>4, <1>5

\* The names that the parser compares with are no brackets.
LEMMA CatalogWords ==
    \A word \in DOMAIN CatalogNames \union {"time", "uuid"} : Plain(word)
BY DEF CatalogNames, Plain, Change, Opening

\* A name is closed.
LEMMA NameClosed ==
    ASSUME NEW names \in AnswerNames, NEW type \in SimpleTypes,
           NEW w, w = NameText(names, type)
    PROVE  Closed(w) /\ TopCommas(w) = {}
<1>1. PICK name \in DOMAIN IcebergNames : type = <<name>>
  BY DEF SimpleTypes
<1>2. w = names[name]
  BY <1>1 DEF NameText, Simple
<1>3. w \in Words
  BY <1>2, AnswerName
<1>4. \A i \in 1 .. Len(w) : Plain(w[i])
  <2>1. CASE w = FixedName
    <3>1. Len(w) = 3 /\ w[1] = "fixed[" /\ w[2] = "16" /\ w[3] = "]"
      BY <2>1 DEF FixedName
    <3>2. Plain("fixed[") /\ Plain("16") /\ Plain("]")
      BY DEF Plain, Change, Opening
    <3>3. \A i \in 1 .. 3 : i = 1 \/ i = 2 \/ i = 3
      OBVIOUS
    <3>. QED
      BY <3>1, <3>2, <3>3, Zenon
  <2>2. CASE w # FixedName
    <3>1. PICK word \in DOMAIN CatalogNames \union {"time", "uuid"} : w = <<word>>
      BY <1>2, <2>2, AnswerName
    <3>2. Len(w) = 1 /\ w[1] = word /\ Plain(word)
      BY <3>1, CatalogWords
    <3>3. \A i \in 1 .. 1 : i = 1
      OBVIOUS
    <3>. QED
      BY <3>2, <3>3, Zenon
  <2>. QED
    BY <2>1, <2>2
<1>5. \A i \in 1 .. Len(w) : Change(w[i]) = 0 /\ w[i] # ","
  BY <1>4 DEF Plain
<1>. QED
  BY <1>3, <1>5, PlainClosed DEF TopCommas

IsDecimal(w) ==
    /\ Closed(w) /\ Len(w) = 5 /\ TopCommas(w) = {3}
    /\ \A i \in 4 .. 5 : w[i] # ":"

\* How a decimal is written.
LEMMA DecimalText ==
    ASSUME NEW names, NEW m, NEW n, NEW type,
           Len(type) = 3, type[2] = m, type[3] = n
    PROVE  NameText(names, type)
           = <<"decimal(", Numeral[m], ",", Numeral[n], ")">>
BY DEF NameText, Simple

\* The text of a decimal is closed and has one comma.
LEMMA DecimalClosed ==
    ASSUME NEW names, NEW type \in DecimalTypes, NEW w, w = NameText(names, type)
    PROVE  IsDecimal(w)
<1>1. PICK m \in 0 .. 38, n \in 0 .. 38 : type = <<"DECIMAL", m, n>>
  BY DEF DecimalTypes
<1>2. PICK a \in Name, b \in Name : a = Numeral[m] /\ b = Numeral[n]
  BY NumeralAssumption
<1>3. w = <<"decimal(", a, ",", b, ")">>
  <2>1. NameText(names, type)
        = <<"decimal(", Numeral[m], ",", Numeral[n], ")">>
    <3>1. Len(type) = 3 /\ type[2] = m /\ type[3] = n
      BY <1>1
    <3>. QED
      BY <3>1, DecimalText
  <2>. QED
    BY <1>2, <2>1, Zenon
<1>4. PICK d \in Token, c \in Token, z \in Token :
          d = "decimal(" /\ c = "," /\ z = ")"
  BY NamesArePlain, OpeningFacts
<1>5. Plain(d) /\ Plain(a) /\ Change(c) = 0 /\ Plain(b) /\ Plain(z)
  BY <1>4, NamesArePlain
<1>6. /\ w \in Words /\ Len(w) = 5
      /\ w[1] = d /\ w[2] = a /\ w[3] = c /\ w[4] = b /\ w[5] = z
  <2>1. a \in Token /\ b \in Token
    BY NamesArePlain
  <2>2. w = <<d, a, c, b, z>>
    BY <1>3, <1>4, Zenon
  <2>. QED
    BY <2>1, <2>2 DEF Words
<1>7. \A i \in 1 .. 5 : i = 1 \/ i = 2 \/ i = 3 \/ i = 4 \/ i = 5
  OBVIOUS
<1>8. \A i \in 1 .. 5 : Change(w[i]) = 0
  BY <1>5, <1>6, <1>7, Zenon DEF Plain
<1>9. Closed(w) /\ \A i \in 1 .. 5 : Nesting(w, i) = 0
  <2>1. \A i \in 1 .. Len(w) : Change(w[i]) = 0
    BY <1>6, <1>8, Zenon
  <2>2. Closed(w) /\ \A i \in 1 .. Len(w) + 1 : Nesting(w, i) = 0
    BY <1>6, <2>1, PlainClosed
  <2>3. \A i \in 1 .. 5 : i \in 1 .. Len(w) + 1
    BY <1>6
  <2>. QED
    BY <2>2, <2>3, Zenon
<1>10. \A i \in 1 .. 5 : w[i] = "," <=> i = 3
  <2>1. a # "," /\ b # "," /\ d # "," /\ z # "," /\ c = ","
    BY <1>4, <1>5 DEF Plain
  <2>2. /\ w[1] # "," /\ w[2] # "," /\ w[3] = "," /\ w[4] # "," /\ w[5] # ","
    BY <1>6, <2>1, Zenon
  <2>3. \A i \in 1 .. 5 : i # 3 => i = 1 \/ i = 2 \/ i = 4 \/ i = 5
    OBVIOUS
  <2>. QED
    BY <2>2, <2>3, Zenon
<1>11. TopCommas(w) = {3}
  <2>1. \A i \in 1 .. 5 : Nesting(w, i) <= 0
    BY <1>9
  <2>2. TopCommas(w) = {i \in 1 .. 5 : w[i] = ","}
    BY <1>6, <2>1, Zenon DEF TopCommas
  <2>3. 3 \in 1 .. 5
    OBVIOUS
  <2>. QED
    BY <1>10, <2>2, <2>3, Zenon
<1>12. \A i \in 4 .. 5 : w[i] # ":"
  <2>1. w[4] # ":" /\ w[5] # ":"
    BY <1>5, <1>6, Zenon DEF Plain
  <2>2. \A i \in 4 .. 5 : i = 4 \/ i = 5
    OBVIOUS
  <2>. QED
    BY <2>1, <2>2, Zenon
<1>. QED
  BY <1>6, <1>9, <1>11, <1>12 DEF IsDecimal

\* How a catalog's parser reads names.
LEMMA CatalogNameRead ==
    ASSUME NEW names \in AnswerNames, NEW type \in SimpleTypes \union DecimalTypes,
           NEW parsed
    PROVE  TypeOfText(NameText(names, type), parsed)
           = IF \/ type[1] \in {"TIME", "UUID"}
                \/ Simple(type) /\ names[type[1]] = FixedName
             THEN Thrown ELSE type
<1>1. CASE type \in SimpleTypes
  <2>1. PICK name \in DOMAIN IcebergNames : type = <<name>>
    BY <1>1 DEF SimpleTypes
  <2>2. NameText(names, type) = names[name] /\ type[1] = name /\ Simple(type)
    BY <2>1 DEF NameText, Simple
  <2>3. CASE names[name] = FixedName
    <3>1. /\ Len(FixedName) = 3 /\ FixedName # <<>> /\ FixedName[1] = "fixed["
      BY DEF FixedName
    <3>2. TypeOfText(FixedName, parsed) = Thrown
      BY <3>1 DEF TypeOfText, StartsWith
    <3>. QED
      BY <2>2, <2>3, <3>2, Zenon
  <2>4. ASSUME NEW word \in DOMAIN CatalogNames, names[name] = <<word>>,
               CatalogNames[word] = name, name \notin {"TIME", "UUID"}
        PROVE  TypeOfText(NameText(names, type), parsed) = type
               /\ names[name] # FixedName
    <3>1. Len(<<word>>) = 1 /\ <<word>>[1] = word
      OBVIOUS
    <3>2. /\ word # "decimal(" /\ word # "array<" /\ word # "map<"
          /\ word # "struct<"
      BY DEF CatalogNames
    <3>3. /\ ~StartsWith(<<word>>, "decimal(") /\ ~StartsWith(<<word>>, "array<")
          /\ ~StartsWith(<<word>>, "map<") /\ ~StartsWith(<<word>>, "struct<")
      BY <3>1, <3>2 DEF StartsWith
    <3>4. TypeOfText(<<word>>, parsed) = <<CatalogNames[word]>>
      BY <3>1, <3>3, Zenon DEF TypeOfText
    <3>5. Len(FixedName) = 3
      BY DEF FixedName
    <3>6. names[name] # FixedName
      BY <2>4, <3>1, <3>5
    <3>. QED
      BY <2>1, <2>2, <2>4, <3>4, <3>6, Zenon
  <2>5. ASSUME NEW word \in {"time", "uuid"}, names[name] = <<word>>
        PROVE  TypeOfText(NameText(names, type), parsed) = Thrown
    <3>1. Len(<<word>>) = 1 /\ <<word>>[1] = word /\ <<word>> # <<>>
      OBVIOUS
    <3>2. /\ word \notin DOMAIN CatalogNames
          /\ word # "decimal(" /\ word # "array<" /\ word # "map<"
          /\ word # "struct<"
      BY DEF CatalogNames
    <3>3. TypeOfText(<<word>>, parsed) = Thrown
      BY <3>1, <3>2 DEF TypeOfText, StartsWith
    <3>. QED
      BY <2>2, <2>5, <3>3, Zenon
  <2>. QED
    BY <2>2, <2>3, <2>4, <2>5, AnswerName, ZenonT(60)
<1>2. CASE type \in DecimalTypes
  <2>1. PICK m \in 0 .. 38, n \in 0 .. 38 : type = <<"DECIMAL", m, n>>
    BY <1>2 DEF DecimalTypes
  <2>2. Len(type) = 3 /\ type[1] = "DECIMAL" /\ type[2] = m /\ type[3] = n
    BY <2>1
  <2>3. PICK text : text = <<"decimal(", Numeral[m], ",", Numeral[n], ")">>
    OBVIOUS
  <2>4. NameText(names, type) = text
    <3>1. NameText(names, type)
          = <<"decimal(", Numeral[m], ",", Numeral[n], ")">>
      <4>1. Len(type) = 3 /\ type[2] = m /\ type[3] = n
        BY <2>2, Zenon
      <4>. QED
        BY <4>1, DecimalText
    <3>. QED
      BY <2>3, <3>1, Zenon
  <2>5. /\ Len(text) = 5 /\ text # <<>> /\ text[1] = "decimal("
        /\ text[2] = Numeral[m] /\ text[4] = Numeral[n] /\ text[5] = ")"
    BY <2>3
  <2>6. Contains(text, ")")
    <3>1. 5 \in 1 .. Len(text)
      BY <2>5
    <3>. QED
      BY <2>5, <3>1, Zenon DEF Contains
  <2>7. TypeOfText(text, parsed) = DecimalType(text)
    BY <2>5 DEF TypeOfText, StartsWith
  <2>8. DecimalType(text) = <<"DECIMAL", Number(text[2]), Number(text[4])>>
    BY <2>6 DEF DecimalType
  <2>9. Number(text[2]) = m /\ Number(text[4]) = n
    BY <2>5, NumberRead
  <2>10. TypeOfText(text, parsed) = type
    BY <2>1, <2>7, <2>8, <2>9, Zenon
  <2>11. ~Simple(type) /\ type[1] \notin {"TIME", "UUID"}
    BY <2>2 DEF Simple
  <2>. QED
    BY <2>4, <2>10, <2>11, Zenon
<1>. QED
  BY <1>1, <1>2

-----------------------------------------------------------------------------
(* The texts of types are closed *)

\* What stands for a member of a struct: its name, a colon and its type.
IsMember(name, t, w) ==
    /\ Closed(w) /\ Len(w) = Len(t) + 2
    /\ w[1] = name /\ w[2] = ":" /\ Stands(t, 2, w)
    /\ \A i \in 1 .. 2 : i \notin TopCommas(w)
    /\ \A i \in 1 .. Len(t) : 2 + i \in TopCommas(w) <=> i \in TopCommas(t)

\* Two tokens without brackets and commas.
IsLabel(name, v) ==
    /\ Closed(v) /\ Len(v) = 2 /\ v[1] = name /\ v[2] = ":"
    /\ TopCommas(v) = {}

\* The text of two tokens.
LEMMA TwoTokens ==
    ASSUME NEW m \in Token, NEW n \in Token, NEW v, v = <<m, n>>
    PROVE  v \in Words /\ Len(v) = 2 /\ v[1] = m /\ v[2] = n
BY DEF Words

\* The name of a member with its colon.
LEMMA LabelClosed ==
    ASSUME NEW name \in Name
    PROVE  IsLabel(name, <<name, ":">>)
<1>1. PICK c \in Token : c = ":" /\ Change(c) = 0 /\ c # ","
  BY NamesArePlain, Zenon
<1>2. PICK v : v = <<name, c>>
  OBVIOUS
<1>3. name \in Token /\ Change(name) = 0 /\ name # ","
  BY NamesArePlain DEF Plain
<1>4. v \in Words /\ Len(v) = 2 /\ v[1] = name /\ v[2] = c
  BY <1>2, <1>3, TwoTokens
<1>5. \A i \in 1 .. 2 : i = 1 \/ i = 2
  OBVIOUS
<1>6. \A i \in 1 .. 2 : Change(v[i]) = 0 /\ v[i] # ","
  BY <1>1, <1>3, <1>4, <1>5, Zenon
<1>7. \A i \in 1 .. Len(v) : Change(v[i]) = 0 /\ v[i] # ","
  BY <1>4, <1>6, Zenon
<1>8. Closed(v)
  BY <1>4, <1>7, PlainClosed
<1>9. TopCommas(v) = {}
  BY <1>7, Zenon DEF TopCommas
<1>. QED
  BY <1>1, <1>2, <1>4, <1>8, <1>9, Zenon DEF IsLabel

\* A member is closed if the text of its type is.
LEMMA MemberClosed ==
    ASSUME NEW name, NEW v, IsLabel(name, v), NEW t, Closed(t),
           NEW w, w = v \o t
    PROVE  IsMember(name, t, w)
<1>1. Closed(v) /\ Len(v) = 2 /\ v[1] = name /\ v[2] = ":" /\ TopCommas(v) = {}
  BY Zenon DEF IsLabel
<1>2. v \in Words /\ t \in Words /\ Len(t) \in Nat
  BY <1>1, WordLength DEF Closed
<1>3. /\ Closed(w) /\ Len(w) = Len(v) + Len(t)
      /\ \A i \in 1 .. Len(v) : i \in TopCommas(w) <=> i \in TopCommas(v)
      /\ \A i \in 1 .. Len(t) : Len(v) + i \in TopCommas(w) <=> i \in TopCommas(t)
  BY <1>1, ConcatClosed, ZenonT(60)
<1>4. Stands(v, 0, w) /\ Stands(t, Len(v), w)
  BY <1>2, ConcatStands
<1>5. Len(w) = Len(t) + 2 /\ Stands(t, 2, w)
  BY <1>1, <1>2, <1>3, <1>4
<1>6. w[1] = v[1] /\ w[2] = v[2]
  <2>1. \A i \in 1 .. 2 : w[0 + i] = v[i]
    BY <1>1, <1>4 DEF Stands
  <2>2. 1 \in 1 .. 2 /\ 2 \in 1 .. 2 /\ 0 + 1 = 1 /\ 0 + 2 = 2
    OBVIOUS
  <2>. QED
    BY <2>1, <2>2
<1>7. \A i \in 1 .. 2 : i \notin TopCommas(w)
  BY <1>1, <1>3
<1>8. \A i \in 1 .. Len(t) : 2 + i \in TopCommas(w) <=> i \in TopCommas(t)
  BY <1>1, <1>3
<1>. QED
  BY <1>1, <1>3, <1>5, <1>6, <1>7, <1>8, Zenon DEF IsMember

TextOK(type, w) ==
    Closed(w) /\ (type[1] # "DECIMAL" => TopCommas(w) = {})

\* A closed text between two brackets is closed and has no comma of its own.
LEMMA WrappedText ==
    ASSUME NEW o \in Opening, NEW u, Closed(u), NEW w, w = <<o>> \o u \o <<">">>
    PROVE  IsWrapped(w, o, u) /\ Closed(w) /\ TopCommas(w) = {}
<1>1. IsWrapped(w, o, u)
  BY Wrapped DEF Closed
<1>. QED
  BY <1>1, WrappedClosed

\* The texts that are joined in the text of a map.
LEMMA PairsClosed ==
    ASSUME NEW type, NEW text, Closed(text[type[2]]), Closed(text[type[3]]),
           NEW texts, texts = PairTexts(type, text)
    PROVE  /\ Len(texts) = 2
           /\ texts[1] = text[type[2]] /\ texts[2] = text[type[3]]
           /\ \E e : Joins(texts, 2, e, Joined(texts))
<1>1. Len(texts) = 2 /\ texts[1] = text[type[2]] /\ texts[2] = text[type[3]]
  BY DEF PairTexts
<1>2. PICK n \in Nat : n = 2 /\ n # 0
  OBVIOUS
<1>3. \A j \in 1 .. n : j = 1 \/ j = 2
  BY <1>2
<1>4. \A j \in 1 .. n : Closed(texts[j])
  BY <1>1, <1>3, Zenon
<1>5. n = Len(texts)
  BY <1>1, <1>2
<1>6. \E e : Joins(texts, n, e, Joined(texts))
  BY <1>2, <1>4, <1>5, JoinedJoins
<1>. QED
  BY <1>1, <1>2, <1>6

\* The texts of the members of a struct.
AreMembers(type, text, texts, n) ==
    \A k \in 1 .. n : IsMember(type[k + 1][1], text[type[k + 1][2]], texts[k])

JoinedMembers(type, text, texts, n) ==
    /\ n \in Nat /\ n # 0
    /\ AreMembers(type, text, texts, n)
    /\ \E e : Joins(texts, n, e, Joined(texts))

\* The texts that are joined in the text of a struct.
LEMMA MembersClosed ==
    ASSUME NEW type, IsMembers(type), NEW text,
           \A k \in 2 .. Len(type) : Closed(text[type[k][2]]),
           NEW texts, texts = MemberTexts(type, text),
           NEW n, n = Len(type) - 1
    PROVE  JoinedMembers(type, text, texts, n)
<1>1. n \in Nat /\ n # 0 /\ Len(type) = n + 1
  BY DEF IsMembers
<1>2. /\ texts = [k \in 1 .. n |-> <<type[k + 1][1], ":">> \o text[type[k + 1][2]]]
  BY DEF MemberTexts
<1>3. Len(texts) = n
  BY <1>1, <1>2
<1>4. ASSUME NEW k \in 1 .. n
      PROVE  IsMember(type[k + 1][1], text[type[k + 1][2]], texts[k])
  <2>1. k + 1 \in 2 .. Len(type)
    BY <1>1
  <2>2. type[k + 1][1] \in Name
    BY <2>1 DEF IsMembers, Member
  <2>3. PICK name \in Name : name = type[k + 1][1]
    BY <2>2
  <2>4. PICK t : t = text[type[k + 1][2]] /\ Closed(t)
    BY <2>1
  <2>5. PICK v : v = <<name, ":">> /\ IsLabel(name, v)
    BY LabelClosed, Zenon
  <2>6. texts[k] = v \o t
    BY <1>2, <2>3, <2>4, <2>5, Zenon
  <2>7. IsMember(name, t, texts[k])
    BY <2>4, <2>5, <2>6, MemberClosed, Zenon
  <2>. QED
    BY <2>3, <2>4, <2>7, Zenon
<1>5. \A k \in 1 .. n : Closed(texts[k])
  BY <1>4, Zenon DEF IsMember
<1>6. \E e : Joins(texts, n, e, Joined(texts))
  BY <1>1, <1>3, <1>5, JoinedJoins
<1>. QED
  BY <1>1, <1>4, <1>6 DEF JoinedMembers, AreMembers

\* The text of a type is closed if those of its parts are.
LEMMA TextClosed ==
    ASSUME NEW names \in AnswerNames, NEW type \in ColumnTypes, NEW text,
           \A part \in Inner(type) : Closed(text[part])
    PROVE  TextOK(type, TextStep(names, text, type))
<1>1. PICK w : w = TextStep(names, text, type)
  OBVIOUS
<1>2. CASE type \in SimpleTypes
  <2>1. w = NameText(names, type)
    BY <1>1, <1>2, TypeFacts DEF TextStep
  <2>. QED
    BY <1>1, <1>2, <2>1, NameClosed DEF TextOK
<1>3. CASE type \in DecimalTypes
  <2>1. w = NameText(names, type) /\ type[1] = "DECIMAL"
    BY <1>1, <1>3, TypeFacts DEF TextStep
  <2>. QED
    BY <1>1, <1>3, <2>1, DecimalClosed DEF TextOK, IsDecimal
<1>4. CASE IsList(type)
  <2>1. type[1] = "LIST" /\ type[2] \in Inner(type)
    BY <1>4, TypeFacts
  <2>2. w = <<"array<">> \o text[type[2]] \o <<">">>
    BY <1>1, <2>1 DEF TextStep
  <2>3. PICK o \in Opening : o = "array<"
    BY DEF Opening
  <2>4. PICK u : u = text[type[2]] /\ Closed(u)
    BY <2>1
  <2>5. w = <<o>> \o u \o <<">">>
    BY <2>2, <2>3, <2>4, Zenon
  <2>6. Closed(w) /\ TopCommas(w) = {}
    BY <2>4, <2>5, WrappedText, Zenon
  <2>. QED
    BY <1>1, <2>6 DEF TextOK
<1>5. CASE IsMap(type)
  <2>1. type[1] = "MAP" /\ type[2] \in Inner(type) /\ type[3] \in Inner(type)
    BY <1>5, TypeFacts
  <2>2. PICK texts : texts = PairTexts(type, text)
    OBVIOUS
  <2>3. w = <<"map<">> \o Joined(texts) \o <<">">>
    BY <1>1, <2>1, <2>2 DEF TextStep
  <2>4. PICK e : Joins(texts, 2, e, Joined(texts))
    BY <2>1, <2>2, PairsClosed, Zenon
  <2>5. PICK o \in Opening : o = "map<"
    BY DEF Opening
  <2>6. PICK u : u = Joined(texts)
    OBVIOUS
  <2>7. Closed(u)
    BY <2>4, <2>6, Zenon DEF Joins
  <2>8. w = <<o>> \o u \o <<">">>
    BY <2>3, <2>5, <2>6, Zenon
  <2>9. Closed(w) /\ TopCommas(w) = {}
    BY <2>7, <2>8, WrappedText, Zenon
  <2>. QED
    BY <1>1, <2>9 DEF TextOK
<1>6. CASE IsMembers(type)
  <2>1. /\ type[1] = "STRUCT"
        /\ \A k \in 2 .. Len(type) : type[k][2] \in Inner(type)
    BY <1>6, TypeFacts
  <2>2. PICK texts : texts = MemberTexts(type, text)
    OBVIOUS
  <2>3. w = <<"struct<">> \o Joined(texts) \o <<">">>
    BY <1>1, <2>1, <2>2 DEF TextStep
  <2>4. PICK e, n : Joins(texts, n, e, Joined(texts))
    <3>1. \A k \in 2 .. Len(type) : Closed(text[type[k][2]])
      BY <2>1
    <3>2. PICK n : n = Len(type) - 1
      OBVIOUS
    <3>3. JoinedMembers(type, text, texts, n)
      BY <1>6, <2>2, <3>1, <3>2, MembersClosed
    <3>. QED
      BY <3>3, Zenon DEF JoinedMembers
  <2>5. PICK o \in Opening : o = "struct<"
    BY DEF Opening
  <2>6. PICK u : u = Joined(texts)
    OBVIOUS
  <2>7. Closed(u)
    BY <2>4, <2>6, Zenon DEF Joins
  <2>8. w = <<o>> \o u \o <<">">>
    BY <2>3, <2>5, <2>6, Zenon
  <2>9. Closed(w) /\ TopCommas(w) = {}
    BY <2>7, <2>8, WrappedText, Zenon
  <2>. QED
    BY <1>1, <2>9 DEF TextOK
<1>. QED
  BY <1>2, <1>3, <1>4, <1>5, <1>6, TypeCases

\* Every type's text is closed.
LEMMA TextsClosed ==
    ASSUME NEW names \in AnswerNames, NEW type \in ColumnTypes
    PROVE  TextOK(type, Text(names)[type])
<1>1. PICK text : text = Text(names)
  OBVIOUS
<1>2. \A t \in ColumnTypes : text[t] = TextStep(names, text, t)
  BY <1>1, TextsDefined
<1> DEFINE Bad == {t \in ColumnTypes : ~TextOK(t, text[t])}
           Without == {Depth[t] : t \in Bad}
<1>3. Without = {}
  <2>1. SUFFICES ASSUME Without # {} PROVE FALSE
    OBVIOUS
  <2>2. PICK d \in Without : \A l \in Without : d <= l
    <3>1. Without \subseteq Nat
      BY TypesAssumption
    <3> HIDE DEF Without
    <3>. QED
      BY <2>1, <3>1, LeastNatural
  <2>3. PICK t \in Bad : d = Depth[t]
    OBVIOUS
  <2>4. \A part \in Inner(t) : Closed(text[part])
    <3>1. SUFFICES ASSUME NEW part \in Inner(t), part \in Bad PROVE FALSE
      BY <2>3, InnerFacts DEF TextOK
    <3>2. Depth[part] \in Without /\ Depth[part] < Depth[t]
      BY <3>1, <2>3, InnerFacts
    <3>3. Depth[part] \in Nat /\ Depth[t] \in Nat
      BY <2>3, <3>1, TypesAssumption
    <3>. QED
      BY <2>2, <2>3, <3>2, <3>3
  <2>5. TextOK(t, TextStep(names, text, t))
    BY <2>3, <2>4, TextClosed
  <2>. QED
    BY <1>2, <2>3, <2>5
<1>. QED
  BY <1>1, <1>3

-----------------------------------------------------------------------------
(* Joined texts are split again *)

\* The lengths of joined texts.
InRow(texts, n, e, u) ==
    /\ u \in Words /\ Len(u) \in Nat
    /\ e[0] = 0 /\ e[n] = Len(u) + 1
    /\ \A j \in 0 .. n : e[j] \in Nat
    /\ \A j \in 1 .. n : /\ Len(texts[j]) \in Nat
                         /\ e[j] = e[j - 1] + Len(texts[j]) + 1
    /\ \A j \in 1 .. n - 1 : e[j] \in TopCommas(u)

\* Joined texts are in a row.
LEMMA JoinsInRow ==
    ASSUME NEW texts, NEW n \in Nat, n # 0, NEW e, NEW u, Joins(texts, n, e, u)
    PROVE  InRow(texts, n, e, u)
<1>1. \A j \in 1 .. n : texts[j] \in Words
  BY DEF Joins, Stands
<1>. QED
  BY <1>1, WordLength DEF Joins, Closed, InRow

\* The texts are one behind the other.
LEMMA JoinsIncrease ==
    ASSUME NEW texts, NEW n \in Nat, n # 0, NEW e, NEW u, Joins(texts, n, e, u),
           NEW j \in 0 .. n, NEW k \in 0 .. n, j < k
    PROVE  e[j] < e[k]
<1>1. InRow(texts, n, e, u)
  BY JoinsInRow
<1> DEFINE Wrong == {m \in Nat : m \in j + 1 .. n /\ ~(e[j] < e[m])}
<1>2. SUFFICES ASSUME Wrong # {} PROVE FALSE
  <2>1. k \in Nat /\ k \in j + 1 .. n
    OBVIOUS
  <2>. QED
    BY <1>2, <2>1
<1>3. PICK m \in Wrong : \A l \in Wrong : m <= l
  <2>1. Wrong \subseteq Nat
    OBVIOUS
  <2> HIDE DEF Wrong
  <2>. QED
    BY <1>2, <2>1, LeastNatural
<1>4. m \in Nat /\ m \in j + 1 .. n /\ ~(e[j] < e[m])
  OBVIOUS
<1>5. PICK l \in Nat : l = m - 1 /\ l \in 0 .. n /\ m \in 1 .. n /\ l \in j .. n
  BY <1>4
<1>6. e[j] \in Nat /\ e[l] \in Nat /\ e[l] < e[m]
  <2>1. e[j] \in Nat /\ e[l] \in Nat /\ e[m] \in Nat
    BY <1>5, <1>1 DEF InRow
  <2>2. e[m] = e[m - 1] + Len(texts[m]) + 1 /\ Len(texts[m]) \in Nat
    BY <1>5, <1>1 DEF InRow
  <2>3. e[m - 1] = e[l]
    BY <1>5
  <2>. QED
    BY <2>1, <2>2, <2>3
<1>7. CASE l = j
  BY <1>4, <1>6, <1>7
<1>8. CASE l # j
  <2>1. l \in j + 1 .. n /\ l \notin Wrong
    BY <1>3, <1>5, <1>8
  <2>2. e[j] < e[l]
    BY <1>5, <2>1
  <2>3. e[m] \in Nat
    BY <1>5, <1>1 DEF InRow
  <2>. QED
    BY <1>4, <1>6, <2>2, <2>3
<1>. QED
  BY <1>7, <1>8

\* Every comma that is not nested is one between texts, or of a text.
LEMMA JoinsComma ==
    ASSUME NEW texts, NEW n \in Nat, n # 0, NEW e, NEW u, Joins(texts, n, e, u),
           NEW x \in TopCommas(u)
    PROVE  \E j \in 1 .. n : \/ x = e[j] /\ j # n
                             \/ TopCommas(texts[j]) # {}
<1>1. InRow(texts, n, e, u)
  BY JoinsInRow
<1>2. x \in 1 .. Len(u) /\ Len(u) \in Nat
  BY <1>1 DEF InRow, TopCommas
<1> DEFINE Behind == {m \in Nat : m \in 0 .. n /\ x <= e[m]}
<1>3. PICK m \in Behind : \A l \in Behind : m <= l
  <2>1. Behind \subseteq Nat
    OBVIOUS
  <2>2. n \in Behind
    BY <1>2, <1>1 DEF InRow
  <2> HIDE DEF Behind
  <2>. QED
    BY <2>1, <2>2, LeastNatural
<1>4. m \in 0 .. n /\ x <= e[m] /\ e[m] \in Nat
  BY <1>1 DEF InRow
<1>5. m \in 1 .. n
  BY <1>2, <1>4, <1>1 DEF InRow
<1>6. PICK l \in Nat : l = m - 1 /\ l \in 0 .. n
  BY <1>5
<1>7. e[l] \in Nat /\ e[l] < x
  <2>1. l \notin Behind
    BY <1>3, <1>6
  <2>2. e[l] \in Nat
    BY <1>6, <1>1 DEF InRow
  <2>. QED
    BY <1>2, <1>6, <2>1, <2>2
<1>8. /\ Len(texts[m]) \in Nat /\ e[m] = e[l] + Len(texts[m]) + 1
      /\ \A i \in 1 .. Len(texts[m]) :
            e[l] + i \in TopCommas(u) => i \in TopCommas(texts[m])
  <2>1. /\ e[m] = e[m - 1] + Len(texts[m]) + 1 /\ Len(texts[m]) \in Nat
    BY <1>5, <1>1 DEF InRow
  <2>2. \A i \in 1 .. Len(texts[m]) :
            e[m - 1] + i \in TopCommas(u) <=> i \in TopCommas(texts[m])
    BY <1>5 DEF Joins
  <2>. QED
    BY <1>6, <2>1, <2>2
<1>9. CASE x = e[m]
  <2>1. m # n
    BY <1>2, <1>9, <1>1 DEF InRow
  <2>. QED
    BY <1>5, <1>9, <2>1
<1>10. CASE x # e[m]
  <2>1. PICK i \in 1 .. Len(texts[m]) : e[l] + i = x
    <3>1. PICK a \in Nat : a = e[l]
      BY <1>7
    <3>2. PICK z \in Nat : z = Len(texts[m])
      BY <1>8
    <3>3. x \in Nat /\ a < x /\ x < a + z + 1
      BY <1>2, <1>4, <1>7, <1>8, <1>10, <3>1, <3>2
    <3>4. x - a \in 1 .. z /\ a + (x - a) = x
      BY <3>3
    <3>. QED
      BY <3>1, <3>2, <3>4
  <2>2. i \in TopCommas(texts[m])
    BY <1>8, <2>1
  <2>. QED
    BY <1>5, <2>2
<1>. QED
  BY <1>9, <1>10

NoCommas(texts, n) == \A j \in 1 .. n : TopCommas(texts[j]) = {}

\* Texts without commas that are not nested are split where they were joined.
LEMMA JoinsSplit ==
    ASSUME NEW texts, NEW n \in Nat, n # 0, NEW e, NEW u, Joins(texts, n, e, u),
           NoCommas(texts, n),
           NEW f, f = [j \in 0 .. n |-> e[j]]
    PROVE  SplitsAt(f, n, TopCommas(u), Len(u) + 1)
<1>1. InRow(texts, n, e, u)
  BY JoinsInRow
<1>2. \A j \in 0 .. n : f[j] = e[j]
  OBVIOUS
<1>3. /\ Len(u) \in Nat /\ e[0] = 0 /\ e[n] = Len(u) + 1
      /\ \A j \in 0 .. n : e[j] \in Nat
      /\ \A j \in 1 .. n - 1 : e[j] \in TopCommas(u)
  BY <1>1 DEF InRow
<1>4. \A j, k \in 0 .. n : j < k => e[j] < e[k]
  BY JoinsIncrease
<1>5. \A j \in 0 .. n : e[j] \in 0 .. Len(u) + 1
  <2>1. SUFFICES ASSUME NEW j \in 0 .. n PROVE e[j] \in 0 .. Len(u) + 1
    OBVIOUS
  <2>2. CASE j = n
    BY <1>3, <2>2
  <2>3. CASE j # n
    <3>1. j < n /\ n \in 0 .. n
      BY <2>3
    <3>2. e[j] < e[n]
      BY <1>4, <3>1
    <3>3. e[j] \in Nat
      BY <1>3
    <3>. QED
      BY <1>3, <3>2, <3>3
  <2>. QED
    BY <2>2, <2>3
<1>6. f \in [0 .. n -> 0 .. Len(u) + 1]
  BY <1>5
<1>7. \A x \in TopCommas(u) : \E j \in 1 .. n - 1 : f[j] = x
  <2>1. SUFFICES ASSUME NEW x \in TopCommas(u)
                 PROVE  \E j \in 1 .. n - 1 : f[j] = x
    OBVIOUS
  <2>2. PICK j \in 1 .. n : x = e[j] /\ j # n
    BY JoinsComma, SMTT(40) DEF NoCommas
  <2>3. j \in 1 .. n - 1 /\ j \in 0 .. n
    BY <2>2
  <2>. QED
    BY <1>2, <2>2, <2>3
<1>8. f[0] = 0 /\ f[n] = Len(u) + 1
  <2>1. 0 \in 0 .. n /\ n \in 0 .. n
    OBVIOUS
  <2>. QED
    BY <1>2, <1>3, <2>1, Zenon
<1>9. \A j, k \in 0 .. n : j < k => f[j] < f[k]
  BY <1>2, <1>4, Zenon
<1>10. \A j \in 1 .. n - 1 : f[j] \in TopCommas(u)
  <2>1. \A j \in 1 .. n - 1 : j \in 0 .. n
    OBVIOUS
  <2>. QED
    BY <1>2, <1>3, <2>1, Zenon
<1>11. Len(u) + 1 \in Nat
  BY <1>3
<1>. QED
  BY <1>6, <1>7, <1>8, <1>9, <1>10, <1>11, Zenon DEF SplitsAt

\* A text that stands in another one is the piece there.
LEMMA StandsPiece ==
    \A v, n, w : Stands(v, n, w) => SubSeq(w, n + 1, n + Len(v)) = v
<1>1. SUFFICES ASSUME NEW v, NEW n, NEW w, Stands(v, n, w)
               PROVE  SubSeq(w, n + 1, n + Len(v)) = v
  OBVIOUS
<1>2. PICK a, b : a = n + 1 /\ b = n + Len(v)
  OBVIOUS
<1>3. SubSeq(w, a, b) = v
  BY <1>1, <1>2, StandsSubSeq
<1>. QED
  BY <1>2, <1>3, Zenon

\* The children of a nested type are the texts that were joined.
LEMMA JoinsChildren ==
    ASSUME NEW texts, NEW n \in Nat, n # 0, NEW e, NEW u, Joins(texts, n, e, u),
           NoCommas(texts, n),
           NEW w, Inside(w) = u
    PROVE  Children(w) = [k \in 1 .. n |-> texts[k]]
<1>1. InRow(texts, n, e, u)
  BY JoinsInRow
<1>2. PICK f : f = [j \in 0 .. n |-> e[j]]
  OBVIOUS
<1>3. SplitsAt(f, n, TopCommas(u), Len(u) + 1)
  BY <1>2, JoinsSplit
<1>4. u \in Words
  BY <1>1 DEF InRow
<1>a. CommaSplit(w, u, n, f)
  BY <1>3, <1>4, Zenon DEF CommaSplit
<1>b. IsSplit(w, u, n, f)
  BY <1>a, ChildrenAre, Zenon
<1>5. Children(w) = [k \in 1 .. n |-> SubSeq(u, f[k - 1] + 1, f[k] - 1)]
  BY <1>b, Zenon DEF IsSplit
<1>6. ASSUME NEW k \in 1 .. n
      PROVE  SubSeq(u, f[k - 1] + 1, f[k] - 1) = texts[k]
  <2>1. k \in 0 .. n /\ k - 1 \in 0 .. n
    OBVIOUS
  <2>2. f[k] = e[k] /\ f[k - 1] = e[k - 1]
    BY <1>2, <2>1
  <2>3. PICK x \in Nat : x = e[k - 1]
    BY <2>1, <1>1 DEF InRow
  <2>4. /\ Len(texts[k]) \in Nat /\ e[k] = x + Len(texts[k]) + 1
    BY <2>3, <1>1 DEF InRow
  <2>5. Stands(texts[k], x, u)
    BY <2>3 DEF Joins
  <2>6. PICK v : v = texts[k]
    OBVIOUS
  <2>7. SubSeq(u, x + 1, x + Len(v)) = v
    BY <2>5, <2>6, StandsPiece, Zenon
  <2>8. f[k - 1] + 1 = x + 1 /\ f[k] - 1 = x + Len(v)
    BY <2>2, <2>3, <2>4, <2>6
  <2>. QED
    BY <2>6, <2>7, <2>8, Zenon
<1>. QED
  BY <1>5, <1>6, Zenon

-----------------------------------------------------------------------------
(* How a catalog's parser reads nested types *)

\* The parser of an opening is the one that is used.
LEMMA WrappedRead ==
    ASSUME NEW o \in Opening, NEW u, NEW w, IsWrapped(w, o, u), NEW parsed
    PROVE  /\ Inside(w) = u
           /\ o = "array<" => TypeOfText(w, parsed) = ArrayType(w, parsed)
           /\ o = "map<" => TypeOfText(w, parsed) = MapType(w, parsed)
           /\ o = "struct<" => TypeOfText(w, parsed) = StructType(w, parsed)
<1>1. Inside(w) = u /\ Contains(w, ">")
  BY InsideWrapped
<1>2. Len(w) # 1 /\ w # <<>> /\ w[1] = o
  <2>1. u \in Words /\ w \in Words /\ Len(w) = Len(u) + 2 /\ w[1] = o
    BY DEF IsWrapped
  <2>2. Len(u) \in Nat
    BY <2>1, WordLength
  <2>3. PICK l : l = Len(w) /\ l # 1 /\ l # 0
    BY <2>1, <2>2
  <2>4. Len(<<>>) = 0
    OBVIOUS
  <2>. QED
    BY <2>1, <2>3, <2>4, Zenon
<1>3. \A t : StartsWith(w, t) <=> o = t
  BY <1>2, Zenon DEF StartsWith
<1>4. ASSUME o = "array<" PROVE TypeOfText(w, parsed) = ArrayType(w, parsed)
  <2>1. /\ StartsWith(w, "array<") /\ ~StartsWith(w, "map<")
        /\ ~StartsWith(w, "struct<") /\ ~StartsWith(w, "decimal(")
    BY <1>3, <1>4
  <2>. QED
    BY <1>1, <1>2, <2>1, Zenon DEF TypeOfText
<1>5. ASSUME o = "map<" PROVE TypeOfText(w, parsed) = MapType(w, parsed)
  <2>1. /\ StartsWith(w, "map<") /\ ~StartsWith(w, "array<")
        /\ ~StartsWith(w, "struct<") /\ ~StartsWith(w, "decimal(")
    BY <1>3, <1>5
  <2>. QED
    BY <1>1, <1>2, <2>1, Zenon DEF TypeOfText
<1>6. ASSUME o = "struct<" PROVE TypeOfText(w, parsed) = StructType(w, parsed)
  <2>1. /\ StartsWith(w, "struct<") /\ ~StartsWith(w, "array<")
        /\ ~StartsWith(w, "map<") /\ ~StartsWith(w, "decimal(")
    BY <1>3, <1>6
  <2>. QED
    BY <1>1, <1>2, <2>1, Zenon DEF TypeOfText
<1>. QED
  BY <1>1, <1>4, <1>5, <1>6

\* A type with one part throws if the part does.
LEMMA MadeOfOne ==
    ASSUME NEW c, NEW type
    PROVE  Made(<<c>>, type) = IF c = Thrown THEN Thrown ELSE type
<1>1. Range(<<c>>) = {c}
  BY DEF Range
<1>. QED
  BY <1>1, Zenon DEF Made

\* A type with two parts throws if one of them does.
LEMMA MadeOfTwo ==
    ASSUME NEW c, NEW v, NEW type
    PROVE  Made(<<c, v>>, type) = IF c = Thrown \/ v = Thrown THEN Thrown ELSE type
<1>1. Range(<<c, v>>) = {c, v}
  BY DEF Range
<1>. QED
  BY <1>1, Zenon DEF Made

\* Two types behind a name.
LEMMA PairBehind ==
    ASSUME NEW S, NEW m \in Seq(S), NEW b, NEW s, s = <<b>> \o m
    PROVE  Len(m) = 2 => s = <<b, m[1], m[2]>>
<1>1. PICK l : l = Len(m)
  OBVIOUS
<1>2. /\ DOMAIN s = 1 .. l + 1
      /\ s[1] = b
      /\ \A k \in 2 .. l + 1 : s[k] = m[k - 1]
      /\ s = [k \in 1 .. l + 1 |-> s[k]]
  BY <1>1, Prefixed
<1>3. ASSUME l = 2 PROVE s = <<b, m[1], m[2]>>
  <2>1. /\ s[2] = m[1] /\ s[3] = m[2] /\ s[1] = b
        /\ s = [k \in 1 .. 3 |-> s[k]]
    BY <1>2, <1>3
  <2>2. PICK t : t = <<b, m[1], m[2]>>
    OBVIOUS
  <2>3. t[1] = b /\ t[2] = m[1] /\ t[3] = m[2] /\ t = [k \in 1 .. 3 |-> t[k]]
    BY <2>2
  <2>4. \A k \in 1 .. 3 : k = 1 \/ k = 2 \/ k = 3
    OBVIOUS
  <2>5. \A k \in 1 .. 3 : s[k] = t[k]
    BY <2>1, <2>3, <2>4, Zenon
  <2>6. s = t
    BY <2>1, <2>3, <2>5, Zenon
  <2>. QED
    BY <2>2, <2>6, Zenon
<1>. QED
  BY <1>1, <1>3

\* A map of two texts that are split where they were joined.
LEMMA MapRead ==
    ASSUME NEW texts, NEW e, NEW u, Joins(texts, 2, e, u),
           NoCommas(texts, 2),
           NEW w, Inside(w) = u, NEW parsed,
           NEW c, c = parsed[texts[1]], NEW v, v = parsed[texts[2]]
    PROVE  MapType(w, parsed)
           = IF c = Thrown \/ v = Thrown THEN Thrown ELSE <<"MAP", c, v>>
<1>1. PICK children : children = Children(w)
  OBVIOUS
<1>2. children = [k \in 1 .. 2 |-> texts[k]]
  <2>1. PICK n \in Nat : n = 2
    OBVIOUS
  <2>2. n # 0
    BY <2>1
  <2>3. Joins(texts, n, e, u) /\ NoCommas(texts, n)
    BY <2>1
  <2>4. Children(w) = [k \in 1 .. n |-> texts[k]]
    BY <2>2, <2>3, JoinsChildren
  <2>. QED
    BY <1>1, <2>1, <2>4
<1>3. PICK types : types = [k \in DOMAIN children |-> parsed[children[k]]]
  OBVIOUS
<1>4. types = <<c, v>>
  BY <1>2, <1>3
<1>5. Len(types) = 2 /\ <<"MAP">> \o types = <<"MAP", c, v>>
  <2>1. PICK S : S = {c, v}
    OBVIOUS
  <2>2. types \in Seq(S) /\ Len(types) = 2 /\ types[1] = c /\ types[2] = v
    BY <1>4, <2>1
  <2>3. PICK s : s = <<"MAP">> \o types
    OBVIOUS
  <2>4. s = <<"MAP", types[1], types[2]>>
    BY <2>2, <2>3, PairBehind
  <2>. QED
    BY <2>2, <2>3, <2>4, Zenon
<1>6. MapType(w, parsed) = Made(types, <<"MAP">> \o types)
  BY <1>1, <1>3, <1>5, Zenon DEF MapType
<1>7. MapType(w, parsed) = Made(<<c, v>>, <<"MAP", c, v>>)
  BY <1>4, <1>5, <1>6, Zenon
<1>8. PICK type : type = <<"MAP", c, v>>
  OBVIOUS
<1>9. Made(<<c, v>>, type) = IF c = Thrown \/ v = Thrown THEN Thrown ELSE type
  BY MadeOfTwo
<1>. QED
  BY <1>7, <1>8, <1>9, Zenon

\* A map in which a text has a comma of its own is split into more.
LEMMA MapNotRead ==
    ASSUME NEW texts, NEW e, NEW u, Joins(texts, 2, e, u),
           NEW j \in 1 .. 2, NEW c \in TopCommas(texts[j]),
           NEW w, Inside(w) = u, NEW parsed
    PROVE  MapType(w, parsed) = Thrown
<1>1. PICK two \in Nat : two = 2 /\ two # 0
  OBVIOUS
<1>2. InRow(texts, two, e, u)
  BY <1>1, JoinsInRow
<1>a. PICK n, f : IsSplit(w, u, n, f)
  BY <1>2, ChildrenSplit DEF InRow
<1>3. /\ SplitsAt(f, n, TopCommas(u), Len(u) + 1)
      /\ Children(w) = [k \in 1 .. n |-> SubSeq(u, f[k - 1] + 1, f[k] - 1)]
  BY <1>a, Zenon DEF IsSplit
<1>4. n \in Nat /\ \A x \in TopCommas(u) : \E i \in 1 .. n - 1 : f[i] = x
  BY <1>3 DEF SplitsAt
<1>5. e[1] \in TopCommas(u)
  BY <1>1, <1>2 DEF InRow
<1>6. c \in 1 .. Len(texts[j])
  BY DEF TopCommas
<1>7. e[j - 1] + c \in TopCommas(u)
  <2>1. \A i \in 1 .. Len(texts[j]) :
            e[j - 1] + i \in TopCommas(u) <=> i \in TopCommas(texts[j])
    BY DEF Joins
  <2>. QED
    BY <1>6, <2>1
<1>8. e[j - 1] + c # e[1]
  <2>1. j = 1 \/ j = 2
    OBVIOUS
  <2>2. e[0] = 0 /\ e[1] \in Nat /\ e[1] = e[0] + Len(texts[1]) + 1
        /\ Len(texts[1]) \in Nat /\ Len(texts[2]) \in Nat
    BY <1>1, <1>2 DEF InRow
  <2>3. CASE j = 1
    <3>1. e[j - 1] = 0 /\ Len(texts[j]) = Len(texts[1])
      BY <2>2, <2>3
    <3>. QED
      BY <1>6, <2>2, <3>1
  <2>4. CASE j = 2
    <3>1. e[j - 1] = e[1] /\ Len(texts[j]) = Len(texts[2])
      BY <2>4
    <3>. QED
      BY <1>6, <2>2, <3>1
  <2>. QED
    BY <2>1, <2>3, <2>4
<1>9. n # 2
  <2>1. SUFFICES ASSUME n = 2 PROVE FALSE
    OBVIOUS
  <2>2. \A i \in 1 .. n - 1 : i = 1
    BY <2>1
  <2>3. f[1] = e[1] /\ f[1] = e[j - 1] + c
    BY <1>4, <1>5, <1>7, <2>2
  <2>. QED
    BY <1>8, <2>3, Zenon
<1>10. PICK children : children = Children(w)
  OBVIOUS
<1>11. PICK types : types = [k \in DOMAIN children |-> parsed[children[k]]]
  OBVIOUS
<1>12. Len(types) = n
  BY <1>3, <1>4, <1>10, <1>11
<1>. QED
  BY <1>9, <1>10, <1>11, <1>12, Zenon DEF MapType

\* A struct whose members are of types that were read, or not.
LEMMA MembersMade ==
    ASSUME NEW type \in ColumnTypes, IsMembers(type), NEW n, n = Len(type) - 1,
           NEW names, names = [k \in 1 .. n |-> type[k + 1][1]],
           NEW types, DOMAIN types = 1 .. n,
           \A k \in 1 .. n : types[k] \in {type[k + 1][2], Thrown}
    PROVE  MadeStruct(names, types)
           = IF \E k \in 1 .. n : types[k] = Thrown THEN Thrown ELSE type
<1>1. n \in Nat /\ Len(type) = n + 1 /\ Len(type) \in Nat
  BY DEF IsMembers
<1>2. CASE \E k \in 1 .. n : types[k] = Thrown
  <2>1. Thrown \in Range(types)
    BY <1>2 DEF Range
  <2>. QED
    BY <1>2, <2>1, Zenon DEF MadeStruct, Made
<1>3. CASE ~ \E k \in 1 .. n : types[k] = Thrown
  <2>1. Thrown \notin Range(types)
    BY <1>3 DEF Range
  <2>2. PICK members : members = [k \in DOMAIN types |-> <<names[k], types[k]>>]
    OBVIOUS
  <2>3. MadeStruct(names, types) = <<"STRUCT">> \o members
    BY <2>1, <2>2, Zenon DEF MadeStruct, Made
  <2>4. ASSUME NEW k \in 1 .. n
        PROVE  <<names[k], types[k]>> = type[k + 1]
    <3>1. PICK i \in 2 .. Len(type) : i = k + 1
      BY <1>1
    <3>2. type[i] \in Member
      BY DEF IsMembers
    <3>3. type[i] = <<type[i][1], type[i][2]>>
      BY <3>2 DEF Member
    <3>4. names[k] = type[i][1] /\ types[k] = type[i][2]
      BY <1>3, <3>1
    <3>. QED
      BY <3>1, <3>3, <3>4, Zenon
  <2>5. members = [k \in 1 .. n |-> type[k + 1]]
    BY <2>2, <2>4
  <2>6. members \in Seq(Member) /\ Len(members) = n
    <3>1. \A k \in 1 .. n : type[k + 1] \in Member
      BY <1>1 DEF IsMembers
    <3>. QED
      BY <1>1, <2>5, <3>1
  <2>7. PICK s : s = <<"STRUCT">> \o members
    OBVIOUS
  <2>8. /\ s[1] = "STRUCT"
        /\ \A k \in 2 .. Len(type) : s[k] = members[k - 1]
        /\ s = [k \in 1 .. Len(type) |-> s[k]]
    <3>1. Len(members) + 1 = Len(type)
      BY <1>1, <2>6
    <3>. QED
      BY <2>6, <2>7, <3>1, Prefixed
  <2>9. \A k \in 1 .. Len(type) : s[k] = type[k]
    <3>1. SUFFICES ASSUME NEW k \in 1 .. Len(type), k # 1
                   PROVE  s[k] = type[k]
      BY <2>8 DEF IsMembers
    <3>2. k \in 2 .. Len(type) /\ k - 1 \in 1 .. n /\ (k - 1) + 1 = k
      BY <1>1, <3>1
    <3>. QED
      BY <2>5, <2>8, <3>2
  <2>10. s = type
    BY <2>8, <2>9 DEF IsMembers
  <2>. QED
    BY <1>3, <2>3, <2>7, <2>10, Zenon
<1>. QED
  BY <1>2, <1>3

\* The parser takes a member apart at its colon.
LEMMA MemberRead ==
    ASSUME NEW name, NEW t, NEW w, IsMember(name, t, w)
    PROVE  /\ w[1] = name /\ Contains(w, ":")
           /\ SubSeq(w, 3, Len(w)) = t
<1>1. w[1] = name /\ Len(w) = Len(t) + 2 /\ Stands(t, 2, w)
  BY Zenon DEF IsMember
<1>2. Len(t) \in Nat
  BY <1>1, WordLength DEF Stands
<1>3. Contains(w, ":")
  <2>1. w[2] = ":"
    BY Zenon DEF IsMember
  <2>2. 2 \in 1 .. Len(w)
    BY <1>1, <1>2
  <2>. QED
    BY <2>1, <2>2, Zenon DEF Contains
<1>4. SubSeq(w, 2 + 1, 2 + Len(t)) = t
  BY <1>1, StandsPiece, Zenon
<1>5. 2 + 1 = 3 /\ 2 + Len(t) = Len(w)
  BY <1>1, <1>2
<1>. QED
  BY <1>1, <1>3, <1>4, <1>5, Zenon

\* A struct of texts that are split where they were joined.
LEMMA StructRead ==
    ASSUME NEW type \in ColumnTypes, IsMembers(type), NEW n, n = Len(type) - 1,
           NEW text, NEW texts, AreMembers(type, text, texts, n),
           NEW e, NEW u, Joins(texts, n, e, u), NoCommas(texts, n),
           NEW w, Inside(w) = u, NEW parsed,
           \A k \in 1 .. n :
              parsed[text[type[k + 1][2]]] \in {type[k + 1][2], Thrown}
    PROVE  StructType(w, parsed)
           = IF \E k \in 1 .. n : parsed[text[type[k + 1][2]]] = Thrown
             THEN Thrown ELSE type
<1>1. n \in Nat /\ n # 0
  BY DEF IsMembers
<1>2. PICK children : children = Children(w)
  OBVIOUS
<1>3. children = [k \in 1 .. n |-> texts[k]]
  BY <1>1, <1>2, JoinsChildren
<1>4. PICK names : names = [k \in DOMAIN children |-> children[k][1]]
  OBVIOUS
<1>5. PICK types : types = [k \in DOMAIN children |->
                               IF Contains(children[k], ":")
                               THEN parsed[SubSeq(children[k], 3, Len(children[k]))]
                               ELSE Thrown]
  OBVIOUS
<1>6. StructType(w, parsed) = MadeStruct(names, types)
  BY <1>2, <1>4, <1>5, Zenon DEF StructType
<1>7. DOMAIN children = 1 .. n /\ DOMAIN types = 1 .. n
  BY <1>3, <1>5
<1>8. ASSUME NEW k \in 1 .. n
      PROVE  /\ names[k] = type[k + 1][1]
             /\ types[k] = parsed[text[type[k + 1][2]]]
  <2>1. PICK child : child = children[k]
    OBVIOUS
  <2>2. child = texts[k]
    BY <1>3, <2>1
  <2>3. IsMember(type[k + 1][1], text[type[k + 1][2]], child)
    BY <2>2, Zenon DEF AreMembers
  <2>4. /\ child[1] = type[k + 1][1] /\ Contains(child, ":")
        /\ SubSeq(child, 3, Len(child)) = text[type[k + 1][2]]
    <3>1. PICK name, t : name = type[k + 1][1] /\ t = text[type[k + 1][2]]
      OBVIOUS
    <3>2. IsMember(name, t, child)
      BY <2>3, <3>1, Zenon
    <3>3. child[1] = name /\ Contains(child, ":") /\ SubSeq(child, 3, Len(child)) = t
      BY <3>2, MemberRead
    <3>. QED
      BY <3>1, <3>3, Zenon
  <2>5. names[k] = child[1]
    BY <1>4, <1>7, <2>1
  <2>6. types[k] = IF Contains(child, ":")
                   THEN parsed[SubSeq(child, 3, Len(child))] ELSE Thrown
    BY <1>5, <1>7, <2>1
  <2>. QED
    BY <2>4, <2>5, <2>6, Zenon
<1>9. names = [k \in 1 .. n |-> type[k + 1][1]]
  BY <1>4, <1>7, <1>8
<1>10. \A k \in 1 .. n : types[k] \in {type[k + 1][2], Thrown}
  BY <1>8, Zenon
<1>11. MadeStruct(names, types)
       = IF \E k \in 1 .. n : types[k] = Thrown THEN Thrown ELSE type
  BY <1>7, <1>9, <1>10, MembersMade
<1>12. \A k \in 1 .. n : types[k] = parsed[text[type[k + 1][2]]]
  BY <1>8, Zenon
<1>13. (\E k \in 1 .. n : types[k] = Thrown)
       <=> \E k \in 1 .. n : parsed[text[type[k + 1][2]]] = Thrown
  BY <1>12, ZenonT(60)
<1>. QED
  BY <1>6, <1>11, <1>13, Zenon

\* No colon stands behind position c.
NoColonBehind(t, c) == \A i \in 1 .. Len(t) : i > c => t[i] # ":"

\* All of s comes from what stands behind position c.
FromBehind(s, t, c) ==
    \A q \in 1 .. Len(s) : \E i \in 1 .. Len(t) : i > c /\ s[q] = t[i]

\* What comes from behind a position with no colon behind it has none.
LEMMA ColonBehind ==
    ASSUME NEW t, NEW c, NoColonBehind(t, c), NEW s, FromBehind(s, t, c)
    PROVE  ~Contains(s, ":")
<1>1. ASSUME NEW q \in 1 .. Len(s) PROVE s[q] # ":"
  <2>1. PICK i \in 1 .. Len(t) : i > c /\ s[q] = t[i]
    BY DEF FromBehind
  <2>2. t[i] # ":"
    BY <2>1, Zenon DEF NoColonBehind
  <2>. QED
    BY <2>1, <2>2, Zenon
<1>. QED
  BY <1>1, Zenon DEF Contains

\* The ends of pieces.
LEMMA SplitsFacts ==
    ASSUME NEW f, NEW m, NEW S, NEW l, SplitsAt(f, m, S, l)
    PROVE  /\ m \in Nat /\ f[m] = l
           /\ \A k \in 0 .. m : f[k] \in Nat
           /\ \A j, k \in 0 .. m : j < k => f[j] < f[k]
           /\ \A x \in S : \E i \in 1 .. m - 1 : f[i] = x
<1>1. m \in Nat /\ l \in Nat /\ f \in [0 .. m -> 0 .. l]
  BY DEF SplitsAt
<1>2. \A k \in 0 .. m : f[k] \in Nat
  BY <1>1
<1>. QED
  BY <1>1, <1>2 DEF SplitsAt

\* A piece ends behind its beginning and within the text.
LEMMA PieceEnds ==
    ASSUME NEW f, NEW m, NEW S, NEW l, SplitsAt(f, m, S, l), NEW k \in 1 .. m
    PROVE  f[k - 1] < f[k] /\ f[k] <= l
<1>1. m \in Nat /\ l \in Nat /\ f \in [0 .. m -> 0 .. l]
  BY DEF SplitsAt
<1>2. k - 1 \in 0 .. m /\ k \in 0 .. m /\ k - 1 < k
  BY <1>1
<1>3. f[k] \in 0 .. l
  BY <1>1, <1>2
<1>. QED
  BY <1>1, <1>2, <1>3 DEF SplitsAt

\* A struct in which a text has a comma of its own, with no colon behind it.
LEMMA StructNotRead ==
    ASSUME NEW texts, NEW n \in Nat, n # 0, NEW e, NEW u, Joins(texts, n, e, u),
           NEW j \in 1 .. n, NEW c \in TopCommas(texts[j]),
           NoColonBehind(texts[j], c),
           NEW w, Inside(w) = u, NEW parsed
    PROVE  StructType(w, parsed) = Thrown
<1>1. InRow(texts, n, e, u)
  BY JoinsInRow
<1>a. PICK m, f : IsSplit(w, u, m, f)
  BY <1>1, ChildrenSplit DEF InRow
<1>2. /\ SplitsAt(f, m, TopCommas(u), Len(u) + 1)
      /\ Children(w) = [k \in 1 .. m |-> SubSeq(u, f[k - 1] + 1, f[k] - 1)]
  BY <1>a, Zenon DEF IsSplit
<1>3. /\ m \in Nat /\ f[m] = Len(u) + 1
      /\ \A k \in 0 .. m : f[k] \in Nat
      /\ \A k, l \in 0 .. m : k < l => f[k] < f[l]
      /\ \A x \in TopCommas(u) : \E i \in 1 .. m - 1 : f[i] = x
  BY <1>2, SplitsFacts
<1>4. /\ c \in 1 .. Len(texts[j]) /\ Len(texts[j]) \in Nat
      /\ e[j - 1] \in Nat /\ e[j] \in Nat /\ e[j] = e[j - 1] + Len(texts[j]) + 1
      /\ u \in Words
  <2>1. j \in 0 .. n /\ j - 1 \in 0 .. n
    OBVIOUS
  <2>. QED
    BY <1>1, <2>1 DEF TopCommas, InRow
<1>5. PICK x \in Nat : x = e[j - 1] + c /\ x \in TopCommas(u) /\ x < e[j]
  <2>1. \A i \in 1 .. Len(texts[j]) :
            e[j - 1] + i \in TopCommas(u) <=> i \in TopCommas(texts[j])
    BY DEF Joins
  <2>2. e[j - 1] + c \in TopCommas(u)
    BY <1>4, <2>1
  <2>. QED
    BY <1>4, <2>2
<1>6. PICK i \in 1 .. m - 1 : f[i] = x
  BY <1>3, <1>5
<1>7. PICK k \in 1 .. m : k = i + 1 /\ k - 1 = i
  BY <1>3
<1>8. f[k] \in Nat /\ f[k] <= e[j]
  <2>1. k \in 0 .. m /\ i \in 0 .. m /\ m \in 0 .. m
    BY <1>3, <1>7
  <2>2. f[k] \in Nat
    BY <1>3, <2>1
  <2>3. CASE j = n
    <3>1. e[j] = f[m]
      BY <1>1, <1>3, <2>3 DEF InRow
    <3>2. k = m \/ k < m
      BY <1>3, <1>7
    <3>3. f[m] \in Nat /\ (k < m => f[k] < f[m])
      BY <1>3, <2>1
    <3>. QED
      BY <2>2, <3>1, <3>2, <3>3
  <2>4. CASE j # n
    <3>1. e[j] \in TopCommas(u)
      BY <1>1, <2>4 DEF InRow
    <3>2. PICK l \in 1 .. m - 1 : f[l] = e[j]
      BY <1>3, <3>1
    <3>3. l \in 0 .. m /\ f[l] \in Nat
      BY <1>3, <3>2
    <3>4. f[i] < f[l]
      BY <1>5, <1>6, <3>2
    <3>5. l # i /\ ~(l < i)
      BY <1>3, <1>5, <1>6, <2>1, <3>3, <3>4
    <3>6. k = l \/ k < l
      BY <1>7, <3>5
    <3>7. k < l => f[k] < f[l]
      BY <1>3, <2>1, <3>3
    <3>. QED
      BY <2>2, <3>2, <3>3, <3>6, <3>7
  <2>. QED
    BY <2>2, <2>3, <2>4
<1>9. PICK s : s = SubSeq(u, f[k - 1] + 1, f[k] - 1)
  OBVIOUS
<1>10. /\ s \in Words /\ Len(s) \in Nat /\ Len(s) = f[k] - x - 1
       /\ \A q \in 1 .. Len(s) : u[x + q] = s[q]
  <2>1. Stands(s, f[k - 1], u) /\ Len(s) = f[k] - f[k - 1] - 1
    <3>1. PICK a \in Nat, b \in Nat : a = f[k - 1] /\ b = f[k]
      BY <1>3
    <3>2. a < b /\ b <= Len(u) + 1
      BY <1>2, <3>1, PieceEnds
    <3>3. IsPiece(s, u, a, b)
      BY <1>9, <3>1 DEF IsPiece
    <3>4. u \in Words
      BY <1>4
    <3>5. Stands(s, a, u) /\ Len(s) = b - a - 1
      BY <3>2, <3>3, <3>4, PieceBetween
    <3>. QED
      BY <3>1, <3>5
  <2>2. f[k - 1] = x
    BY <1>6, <1>7
  <2>3. Stands(s, x, u) /\ Len(s) = f[k] - x - 1
    BY <2>1, <2>2
  <2>. QED
    BY <2>3, WordLength DEF Stands
<1>11. ASSUME NEW q \in 1 .. Len(s)
       PROVE  \E l \in 1 .. Len(texts[j]) : l > c /\ s[q] = texts[j][l]
  <2>1. PICK l \in Nat : l = c + q
    BY <1>4, <1>10
  <2>2. /\ l \in 1 .. Len(texts[j]) /\ l > c /\ x + q = e[j - 1] + l
    <3>1. PICK a \in Nat, b \in Nat, z \in Nat, d \in Nat, y \in Nat :
             /\ a = e[j - 1] /\ b = f[k] /\ z = Len(texts[j]) /\ d = e[j]
             /\ y = Len(s)
      BY <1>4, <1>8, <1>10
    <3>2. /\ c \in 1 .. z /\ d = a + z + 1 /\ x = a + c /\ b <= d
          /\ y = b - x - 1 /\ q \in 1 .. y
      BY <1>4, <1>5, <1>8, <1>10, <3>1
    <3>3. c + q \in 1 .. z /\ c + q > c /\ x + q = a + (c + q)
      BY <3>2
    <3>. QED
      BY <2>1, <3>1, <3>3
  <2>3. Stands(texts[j], e[j - 1], u)
    BY DEF Joins
  <2>4. u[e[j - 1] + l] = texts[j][l]
    BY <2>2, <2>3 DEF Stands
  <2>5. u[x + q] = s[q]
    BY <1>10
  <2>6. s[q] = texts[j][l]
    BY <2>2, <2>4, <2>5
  <2>. QED
    BY <2>2, <2>6
<1>12. ~Contains(s, ":")
  <2>1. FromBehind(s, texts[j], c)
    BY <1>11, Zenon DEF FromBehind
  <2>. QED
    BY <2>1, ColonBehind
<1>13. PICK children : children = Children(w)
  OBVIOUS
<1>14. DOMAIN children = 1 .. m /\ children[k] = s
  BY <1>2, <1>9, <1>13
<1>15. PICK types : types = [l \in DOMAIN children |->
                               IF Contains(children[l], ":")
                               THEN parsed[SubSeq(children[l], 3, Len(children[l]))]
                               ELSE Thrown]
  OBVIOUS
<1>16. k \in DOMAIN types /\ types[k] = Thrown
  BY <1>12, <1>14, <1>15
<1>17. Thrown \in Range(types)
  BY <1>16 DEF Range
<1>. QED
  BY <1>13, <1>15, <1>17, Zenon DEF StructType, MadeStruct, Made

\* A member that is a decimal.
LEMMA DecimalMember ==
    ASSUME NEW name, NEW t, IsDecimal(t), NEW w, IsMember(name, t, w)
    PROVE  /\ 5 \in TopCommas(w)
           /\ NoColonBehind(w, 5)
<1>1. /\ Len(t) = 5 /\ 3 \in TopCommas(t)
      /\ \A i \in 4 .. 5 : t[i] # ":"
  BY Zenon DEF IsDecimal
<1>2. /\ Len(w) = Len(t) + 2 /\ Stands(t, 2, w)
      /\ \A i \in 1 .. Len(t) : 2 + i \in TopCommas(w) <=> i \in TopCommas(t)
  BY Zenon DEF IsMember
<1>3. 5 \in TopCommas(w)
  <2>1. 3 \in 1 .. Len(t) /\ 2 + 3 = 5
    BY <1>1
  <2>2. 2 + 3 \in TopCommas(w)
    BY <1>1, <1>2, <2>1
  <2>. QED
    BY <2>1, <2>2, Zenon
<1>4. ASSUME NEW i \in 1 .. Len(w), i > 5 PROVE w[i] # ":"
  <2>1. PICK l \in 4 .. 5 : i = 2 + l
    <3>1. i - 2 \in 4 .. 5 /\ i = 2 + (i - 2)
      BY <1>1, <1>2, <1>4
    <3>. QED
      BY <3>1
  <2>2. l \in 1 .. Len(t)
    BY <1>1
  <2>3. w[2 + l] = t[l]
    BY <1>2, <2>2 DEF Stands
  <2>. QED
    BY <1>1, <2>1, <2>3, Zenon
<1>. QED
  BY <1>3, <1>4, Zenon DEF NoColonBehind

-----------------------------------------------------------------------------
(* What a catalog's parser makes of the text of a type *)

\* The name of a type that the parser does not know.
NameUnknown(names, type) ==
    \/ type[1] \in {"TIME", "UUID"}
    \/ Simple(type) /\ names[type[1]] = FixedName

\* The texts of the parts of a type are read as the parts, or throw.
PartsRead(type, text, parsed) ==
    \A part \in Inner(type) : parsed[text[part]] \in {part, Thrown}

PartThrown(type, text, parsed) ==
    \E part \in Inner(type) : parsed[text[part]] = Thrown

\* A type that is not nested is read unless its name is unknown.
LEMMA NameStepRead ==
    ASSUME NEW names \in AnswerNames, NEW type \in ColumnTypes,
           type \in SimpleTypes \/ type \in DecimalTypes, NEW text,
           NEW w, w = TextStep(names, text, type), NEW parsed
    PROVE  TypeOfText(w, parsed)
           = IF NameUnknown(names, type) THEN Thrown ELSE type
<1>1. type \in SimpleTypes \union DecimalTypes
  OBVIOUS
<1>2. w = NameText(names, type)
  BY TypeFacts DEF TextStep
<1>. QED
  BY <1>1, <1>2, CatalogNameRead DEF NameUnknown

\* A list is read if its element is.
LEMMA ListStepRead ==
    ASSUME NEW names, NEW type \in ColumnTypes, IsList(type), NEW text,
           Closed(text[type[2]]), NEW w, w = TextStep(names, text, type),
           NEW parsed, PartsRead(type, text, parsed)
    PROVE  TypeOfText(w, parsed)
           = IF PartThrown(type, text, parsed) THEN Thrown ELSE type
<1>1. type[1] = "LIST" /\ Inner(type) = {type[2]}
  BY TypeFacts
<1>2. type = <<"LIST", type[2]>>
  BY DEF IsList
<1>3. w = <<"array<">> \o text[type[2]] \o <<">">>
  BY <1>1 DEF TextStep
<1>4. PICK o \in Opening : o = "array<"
  BY DEF Opening
<1>5. PICK u : u = text[type[2]]
  OBVIOUS
<1>6. Closed(u) /\ w = <<o>> \o u \o <<">">>
  BY <1>3, <1>4, <1>5, Zenon
<1>7. IsWrapped(w, o, u)
  BY <1>6, WrappedText, Zenon
<1>8. Inside(w) = u /\ TypeOfText(w, parsed) = ArrayType(w, parsed)
  <2>1. /\ Inside(w) = u
        /\ o = "array<" => TypeOfText(w, parsed) = ArrayType(w, parsed)
    BY <1>7, WrappedRead
  <2>. QED
    BY <1>4, <2>1, Zenon
<1>9. PICK c : c = parsed[u]
  OBVIOUS
<1>10. ArrayType(w, parsed) = Made(<<c>>, <<"LIST", c>>)
  BY <1>8, <1>9, Zenon DEF ArrayType
<1>11. ArrayType(w, parsed) = IF c = Thrown THEN Thrown ELSE <<"LIST", c>>
  BY <1>10, MadeOfOne, Zenon
<1>12. c \in {type[2], Thrown} /\ (PartThrown(type, text, parsed) <=> c = Thrown)
  BY <1>1, <1>5, <1>9, Zenon DEF PartsRead, PartThrown
<1>. QED
  BY <1>2, <1>8, <1>11, <1>12, Zenon

\* The text of a map is that of its two parts.
OfMap(type, text, w, texts, e, u) ==
    /\ texts[1] = text[type[2]] /\ texts[2] = text[type[3]]
    /\ Joins(texts, 2, e, u) /\ Inside(w) = u

\* The text of a map, and what the parser makes of it.
IsMapText(names, type, text, w) ==
    /\ type \in ColumnTypes /\ IsMap(type)
    /\ Closed(text[type[2]]) /\ Closed(text[type[3]])
    /\ w = TextStep(names, text, type)

ReadAsMap(type, text, w, parsed) ==
    /\ \E texts, e, u : OfMap(type, text, w, texts, e, u)
    /\ TypeOfText(w, parsed) = MapType(w, parsed)

\* The parser of maps gets the two joined texts.
LEMMA MapText ==
    ASSUME NEW names, NEW type, NEW text, NEW w, IsMapText(names, type, text, w),
           NEW parsed
    PROVE  ReadAsMap(type, text, w, parsed)
<1>0. /\ type \in ColumnTypes /\ IsMap(type)
      /\ Closed(text[type[2]]) /\ Closed(text[type[3]])
      /\ w = TextStep(names, text, type)
  BY Zenon DEF IsMapText
<1>1. type[1] = "MAP"
  BY <1>0, TypeFacts
<1>2. PICK texts : texts = PairTexts(type, text)
  OBVIOUS
<1>3. w = <<"map<">> \o Joined(texts) \o <<">">>
  BY <1>0, <1>1, <1>2 DEF TextStep
<1>4. /\ texts[1] = text[type[2]] /\ texts[2] = text[type[3]]
      /\ \E e : Joins(texts, 2, e, Joined(texts))
  BY <1>0, <1>2, PairsClosed, Zenon
<1>5. PICK o \in Opening : o = "map<"
  BY DEF Opening
<1>6. PICK u : u = Joined(texts)
  OBVIOUS
<1>7. PICK e : Joins(texts, 2, e, u)
  BY <1>4, <1>6, Zenon
<1>8. Closed(u) /\ w = <<o>> \o u \o <<">">>
  BY <1>3, <1>5, <1>6, <1>7, Zenon DEF Joins
<1>9. IsWrapped(w, o, u)
  BY <1>8, WrappedText, Zenon
<1>10. Inside(w) = u /\ TypeOfText(w, parsed) = MapType(w, parsed)
  <2>1. /\ Inside(w) = u
        /\ o = "map<" => TypeOfText(w, parsed) = MapType(w, parsed)
    BY <1>9, WrappedRead
  <2>. QED
    BY <1>5, <2>1, Zenon
<1>11. texts[1] = text[type[2]] /\ texts[2] = text[type[3]]
  BY <1>4, Zenon
<1>12. OfMap(type, text, w, texts, e, u)
  BY <1>7, <1>10, <1>11, Zenon DEF OfMap
<1>. QED
  BY <1>10, <1>12, Zenon DEF ReadAsMap

\* The texts of decimals, and those of other types.
PartTextsOK(type, text) ==
    \A part \in Inner(type) :
        /\ TextOK(part, text[part])
        /\ part[1] = "DECIMAL" => IsDecimal(text[part])

\* A map is read if its parts are and none is a decimal.
LEMMA MapStepRead ==
    ASSUME NEW names, NEW type \in ColumnTypes, IsMap(type), NEW text,
           PartTextsOK(type, text), NEW w, w = TextStep(names, text, type),
           NEW parsed, PartsRead(type, text, parsed)
    PROVE  TypeOfText(w, parsed)
           = IF DecimalInside(type) \/ PartThrown(type, text, parsed)
             THEN Thrown ELSE type
<1>1. type[1] = "MAP" /\ Inner(type) = {type[2], type[3]}
  BY TypeFacts
<1>2. type = <<"MAP", type[2], type[3]>>
  BY DEF IsMap
<1>3. Closed(text[type[2]]) /\ Closed(text[type[3]])
  BY <1>1, Zenon DEF PartTextsOK, TextOK
<1>9. IsMapText(names, type, text, w)
  BY <1>3, Zenon DEF IsMapText
<1>10. ReadAsMap(type, text, w, parsed)
  BY <1>9, MapText, Zenon
<1>11. PICK texts, e, u : OfMap(type, text, w, texts, e, u)
  BY <1>10, Zenon DEF ReadAsMap
<1>4. /\ texts[1] = text[type[2]] /\ texts[2] = text[type[3]]
      /\ Joins(texts, 2, e, u) /\ Inside(w) = u
      /\ TypeOfText(w, parsed) = MapType(w, parsed)
  BY <1>10, <1>11, Zenon DEF OfMap, ReadAsMap
<1>5. CASE DecimalInside(type)
  <2>1. PICK j \in 1 .. 2 : IsDecimal(texts[j])
    <3>1. PICK part \in Inner(type) : part[1] = "DECIMAL"
      BY <1>5, Zenon DEF DecimalInside
    <3>2. IsDecimal(text[part])
      BY <3>1, Zenon DEF PartTextsOK
    <3>3. IsDecimal(texts[1]) \/ IsDecimal(texts[2])
      BY <1>1, <1>4, <3>2, Zenon
    <3>. QED
      BY <3>3
  <2>2. 3 \in TopCommas(texts[j])
    BY <2>1, Zenon DEF IsDecimal
  <2>3. MapType(w, parsed) = Thrown
    BY <1>4, <2>2, MapNotRead, Zenon
  <2>. QED
    BY <1>4, <1>5, <2>3, Zenon
<1>6. CASE ~DecimalInside(type)
  <2>1. type[2][1] # "DECIMAL" /\ type[3][1] # "DECIMAL"
    BY <1>1, <1>6, Zenon DEF DecimalInside
  <2>2. TopCommas(texts[1]) = {} /\ TopCommas(texts[2]) = {}
    BY <1>1, <1>4, <2>1, Zenon DEF PartTextsOK, TextOK
  <2>3. NoCommas(texts, 2)
    <3>1. \A j \in 1 .. 2 : j = 1 \/ j = 2
      OBVIOUS
    <3>. QED
      BY <2>2, <3>1, Zenon DEF NoCommas
  <2>4. PICK c, v : c = parsed[texts[1]] /\ v = parsed[texts[2]]
    OBVIOUS
  <2>5. MapType(w, parsed)
        = IF c = Thrown \/ v = Thrown THEN Thrown ELSE <<"MAP", c, v>>
    <3>1. Joins(texts, 2, e, u) /\ Inside(w) = u
      BY <1>4, Zenon
    <3>. QED
      BY <2>3, <2>4, <3>1, MapRead
  <2>6. /\ c \in {type[2], Thrown} /\ v \in {type[3], Thrown}
        /\ PartThrown(type, text, parsed) <=> c = Thrown \/ v = Thrown
    BY <1>1, <1>4, <2>4, Zenon DEF PartsRead, PartThrown
  <2>7. c # Thrown /\ v # Thrown => <<"MAP", c, v>> = type
    BY <1>2, <2>6, Zenon
  <2>. QED
    BY <1>4, <1>6, <2>5, <2>6, <2>7, Zenon
<1>. QED
  BY <1>5, <1>6

\* A member whose type has no comma of its own.
LEMMA NoCommasMember ==
    ASSUME NEW name, NEW t, NEW w, IsMember(name, t, w), TopCommas(t) = {}
    PROVE  TopCommas(w) = {}
<1>1. /\ Len(w) = Len(t) + 2 /\ Stands(t, 2, w)
      /\ \A i \in 1 .. 2 : i \notin TopCommas(w)
      /\ \A i \in 1 .. Len(t) : 2 + i \in TopCommas(w) <=> i \in TopCommas(t)
  BY Zenon DEF IsMember
<1>2. Len(t) \in Nat
  BY <1>1, WordLength DEF Stands
<1>3. ASSUME NEW x \in TopCommas(w) PROVE FALSE
  <2>1. x \in 1 .. Len(w)
    BY DEF TopCommas
  <2>2. x \notin 1 .. 2
    BY <1>1
  <2>3. PICK i \in 1 .. Len(t) : x = 2 + i
    <3>1. x - 2 \in 1 .. Len(t) /\ x = 2 + (x - 2)
      BY <1>1, <1>2, <2>1, <2>2
    <3>. QED
      BY <3>1
  <2>. QED
    BY <1>1, <2>3
<1>. QED
  BY <1>3

\* The parts of a struct are the types of its members.
LEMMA MemberParts ==
    ASSUME NEW type \in ColumnTypes, IsMembers(type), NEW n, n = Len(type) - 1
    PROVE  /\ \A k \in 1 .. n : type[k + 1][2] \in Inner(type)
           /\ \A part \in Inner(type) : \E k \in 1 .. n : part = type[k + 1][2]
<1>1. Len(type) \in Nat /\ Inner(type) = {type[k][2] : k \in 2 .. Len(type)}
  BY TypeFacts DEF IsMembers
<1>2. \A k \in 1 .. n : k + 1 \in 2 .. Len(type)
  BY <1>1
<1>3. ASSUME NEW part \in Inner(type)
      PROVE  \E k \in 1 .. n : part = type[k + 1][2]
  <2>1. PICK l \in 2 .. Len(type) : part = type[l][2]
    BY <1>1, <1>3
  <2>2. PICK k \in 1 .. n : l = k + 1
    <3>1. l - 1 \in 1 .. n /\ l = (l - 1) + 1
      BY <1>1
    <3>. QED
      BY <3>1
  <2>. QED
    BY <2>1, <2>2
<1>. QED
  BY <1>1, <1>2, <1>3

\* The text of a struct is that of its members.
OfStruct(type, text, w, texts, n, e, u) ==
    /\ n \in Nat /\ n # 0 /\ n = Len(type) - 1
    /\ AreMembers(type, text, texts, n)
    /\ Joins(texts, n, e, u) /\ Inside(w) = u

\* The text of a struct, and what the parser makes of it.
IsStructText(names, type, text, w) ==
    /\ type \in ColumnTypes /\ IsMembers(type) /\ PartTextsOK(type, text)
    /\ w = TextStep(names, text, type)

ReadAsStruct(type, text, w, parsed) ==
    /\ \E texts, n, e, u : OfStruct(type, text, w, texts, n, e, u)
    /\ TypeOfText(w, parsed) = StructType(w, parsed)

\* The parser of structs gets the joined members.
LEMMA StructText ==
    ASSUME NEW names, NEW type, NEW text, NEW w,
           IsStructText(names, type, text, w), NEW parsed
    PROVE  ReadAsStruct(type, text, w, parsed)
<1>0. /\ type \in ColumnTypes /\ IsMembers(type) /\ PartTextsOK(type, text)
      /\ w = TextStep(names, text, type)
  BY Zenon DEF IsStructText
<1>1. /\ type[1] = "STRUCT"
      /\ \A k \in 2 .. Len(type) : type[k][2] \in Inner(type)
  BY <1>0, TypeFacts
<1>2. PICK texts : texts = MemberTexts(type, text)
  OBVIOUS
<1>3. w = <<"struct<">> \o Joined(texts) \o <<">">>
  BY <1>0, <1>1, <1>2 DEF TextStep
<1>4. \A k \in 2 .. Len(type) : Closed(text[type[k][2]])
  BY <1>0, <1>1, Zenon DEF PartTextsOK, TextOK
<1>5. PICK n : n = Len(type) - 1
  OBVIOUS
<1>6. JoinedMembers(type, text, texts, n)
  BY <1>0, <1>2, <1>4, <1>5, MembersClosed
<1>7. PICK o \in Opening : o = "struct<"
  BY DEF Opening
<1>8. PICK u : u = Joined(texts)
  OBVIOUS
<1>9. PICK e : Joins(texts, n, e, u)
  BY <1>6, <1>8, Zenon DEF JoinedMembers
<1>10. Closed(u) /\ w = <<o>> \o u \o <<">">>
  BY <1>3, <1>7, <1>8, <1>9, Zenon DEF Joins
<1>11. IsWrapped(w, o, u)
  BY <1>10, WrappedText, Zenon
<1>12. Inside(w) = u /\ TypeOfText(w, parsed) = StructType(w, parsed)
  <2>1. /\ Inside(w) = u
        /\ o = "struct<" => TypeOfText(w, parsed) = StructType(w, parsed)
    BY <1>11, WrappedRead
  <2>. QED
    BY <1>7, <2>1, Zenon
<1>13. OfStruct(type, text, w, texts, n, e, u)
  BY <1>5, <1>6, <1>9, <1>12, Zenon DEF OfStruct, JoinedMembers
<1>. QED
  BY <1>12, <1>13, Zenon DEF ReadAsStruct

\* A struct is read if its parts are and none is a decimal.
LEMMA StructStepRead ==
    ASSUME NEW names, NEW type \in ColumnTypes, IsMembers(type), NEW text,
           PartTextsOK(type, text), NEW w, w = TextStep(names, text, type),
           NEW parsed, PartsRead(type, text, parsed)
    PROVE  TypeOfText(w, parsed)
           = IF DecimalInside(type) \/ PartThrown(type, text, parsed)
             THEN Thrown ELSE type
<1>a. IsStructText(names, type, text, w)
  BY Zenon DEF IsStructText
<1>b. ReadAsStruct(type, text, w, parsed)
  BY <1>a, StructText, Zenon
<1>1. TypeOfText(w, parsed) = StructType(w, parsed)
  BY <1>b, Zenon DEF ReadAsStruct
<1>2. PICK texts, n, e, u : OfStruct(type, text, w, texts, n, e, u)
  BY <1>b, Zenon DEF ReadAsStruct
<1>3. n \in Nat /\ n # 0 /\ n = Len(type) - 1
  BY <1>2, Zenon DEF OfStruct
<1>4. /\ AreMembers(type, text, texts, n)
      /\ Joins(texts, n, e, u) /\ Inside(w) = u
  BY <1>2, Zenon DEF OfStruct
<1>5. /\ \A k \in 1 .. n : type[k + 1][2] \in Inner(type)
      /\ \A part \in Inner(type) : \E k \in 1 .. n : part = type[k + 1][2]
  BY <1>3, MemberParts
<1>6. CASE DecimalInside(type)
  <2>1. PICK part \in Inner(type) : part[1] = "DECIMAL"
    BY <1>6, Zenon DEF DecimalInside
  <2>2. PICK k \in 1 .. n : part = type[k + 1][2]
    BY <1>5
  <2>3. IsDecimal(text[part])
    BY <2>1, Zenon DEF PartTextsOK
  <2>4. IsMember(type[k + 1][1], text[part], texts[k])
    BY <1>4, <2>2, Zenon DEF AreMembers
  <2>5. 5 \in TopCommas(texts[k]) /\ NoColonBehind(texts[k], 5)
    BY <2>3, <2>4, DecimalMember, Zenon
  <2>6. StructType(w, parsed) = Thrown
    BY <1>3, <1>4, <2>5, StructNotRead
  <2>. QED
    BY <1>1, <1>6, <2>6, Zenon
<1>7. CASE ~DecimalInside(type)
  <2>1. ASSUME NEW k \in 1 .. n PROVE TopCommas(texts[k]) = {}
    <3>1. PICK part \in Inner(type) : part = type[k + 1][2]
      BY <1>5
    <3>2. part[1] # "DECIMAL"
      <4>1. type[1] = "STRUCT"
        BY DEF IsMembers
      <4>. QED
        BY <1>7, <4>1, Zenon DEF DecimalInside
    <3>3. TopCommas(text[part]) = {}
      BY <3>2, Zenon DEF PartTextsOK, TextOK
    <3>4. IsMember(type[k + 1][1], text[part], texts[k])
      BY <1>4, <3>1, Zenon DEF AreMembers
    <3>. QED
      BY <3>3, <3>4, NoCommasMember
  <2>2. NoCommas(texts, n)
    BY <2>1, Zenon DEF NoCommas
  <2>3. \A k \in 1 .. n :
           parsed[text[type[k + 1][2]]] \in {type[k + 1][2], Thrown}
    BY <1>5, Zenon DEF PartsRead
  <2>4. StructType(w, parsed)
        = IF \E k \in 1 .. n : parsed[text[type[k + 1][2]]] = Thrown
          THEN Thrown ELSE type
    BY <1>3, <1>4, <2>2, <2>3, StructRead
  <2>5. PartThrown(type, text, parsed)
        <=> \E k \in 1 .. n : parsed[text[type[k + 1][2]]] = Thrown
    BY <1>5, Zenon DEF PartThrown
  <2>. QED
    BY <1>1, <1>7, <2>4, <2>5, Zenon
<1>. QED
  BY <1>6, <1>7

\* The parts of a type have texts of the form that the parser needs.
LEMMA PartTextsFit ==
    ASSUME NEW names \in AnswerNames, NEW type \in ColumnTypes,
           NEW text, text = Text(names)
    PROVE  PartTextsOK(type, text)
<1>1. ASSUME NEW part \in Inner(type)
      PROVE  TextOK(part, text[part]) /\ (part[1] = "DECIMAL" => IsDecimal(text[part]))
  <2>1. part \in ColumnTypes
    BY InnerFacts
  <2>2. TextOK(part, text[part])
    BY <2>1, TextsClosed
  <2>3. ASSUME part[1] = "DECIMAL" PROVE IsDecimal(text[part])
    <3>1. part \in DecimalTypes
      BY <2>1, <2>3, TypeCases, TypeFacts
    <3>2. text[part] = TextStep(names, text, part)
      BY <2>1, TextsDefined
    <3>3. TextStep(names, text, part) = NameText(names, part)
      BY <2>3 DEF TextStep
    <3>. QED
      BY <3>1, <3>2, <3>3, DecimalClosed
  <2>. QED
    BY <2>2, <2>3
<1>. QED
  BY <1>1, Zenon DEF PartTextsOK

\* The types that the parser does not know.
Unknown(names, type) == NameUnknown(names, type) \/ DecimalInside(type)

\* Only names are unknown by themselves, and only nested types have parts.
LEMMA UnknownFacts ==
    ASSUME NEW names, NEW type \in ColumnTypes
    PROVE  /\ type \in SimpleTypes \/ type \in DecimalTypes =>
                 Inner(type) = {} /\ ~DecimalInside(type)
           /\ IsList(type) => ~NameUnknown(names, type) /\ ~DecimalInside(type)
           /\ IsMap(type) \/ IsMembers(type) => ~NameUnknown(names, type)
<1>1. ASSUME type \in SimpleTypes \/ type \in DecimalTypes
      PROVE  Inner(type) = {} /\ ~DecimalInside(type)
  <2>1. type[1] \notin {"LIST", "MAP", "STRUCT"}
    BY <1>1, TypeFacts
  <2>. QED
    BY <2>1 DEF Inner, Nested, DecimalInside
<1>2. ASSUME IsList(type)
      PROVE  ~NameUnknown(names, type) /\ ~DecimalInside(type)
  <2>1. type[1] = "LIST" /\ Len(type) # 1
    BY <1>2 DEF IsList
  <2>. QED
    BY <2>1 DEF NameUnknown, Simple, DecimalInside
<1>3. ASSUME IsMap(type) PROVE ~NameUnknown(names, type)
  <2>1. type[1] = "MAP" /\ Len(type) # 1
    BY <1>3 DEF IsMap
  <2>. QED
    BY <2>1 DEF NameUnknown, Simple
<1>4. ASSUME IsMembers(type) PROVE ~NameUnknown(names, type)
  <2>1. type[1] = "STRUCT" /\ Len(type) # 1
    BY <1>4 DEF IsMembers
  <2>. QED
    BY <2>1 DEF NameUnknown, Simple
<1>. QED
  BY <1>1, <1>2, <1>3, <1>4

\* A type is read from its text if its parts are, and if the parser knows it.
LEMMA CatalogStepRead ==
    ASSUME NEW names \in AnswerNames, NEW type \in ColumnTypes,
           NEW text, text = Text(names),
           NEW parsed, PartsRead(type, text, parsed)
    PROVE  TypeOfText(text[type], parsed)
           = IF Unknown(names, type) \/ PartThrown(type, text, parsed)
             THEN Thrown ELSE type
<1>1. PICK w : w = text[type]
  OBVIOUS
<1>2. w = TextStep(names, text, type)
  BY <1>1, TextsDefined
<1>3. PartTextsOK(type, text)
  BY PartTextsFit
<1>4. CASE type \in SimpleTypes \/ type \in DecimalTypes
  <2>1. ~PartThrown(type, text, parsed) /\ ~DecimalInside(type)
    BY <1>4, UnknownFacts, Zenon DEF PartThrown
  <2>2. TypeOfText(w, parsed) = IF NameUnknown(names, type) THEN Thrown ELSE type
    BY <1>2, <1>4, NameStepRead
  <2>. QED
    BY <1>1, <2>1, <2>2, Zenon DEF Unknown
<1>5. CASE IsList(type)
  <2>1. ~NameUnknown(names, type) /\ ~DecimalInside(type)
    BY <1>5, UnknownFacts
  <2>2. Closed(text[type[2]])
    <3>1. type[2] \in Inner(type)
      BY <1>5, TypeFacts
    <3>. QED
      BY <1>3, <3>1, Zenon DEF PartTextsOK, TextOK
  <2>3. TypeOfText(w, parsed)
        = IF PartThrown(type, text, parsed) THEN Thrown ELSE type
    BY <1>2, <1>5, <2>2, ListStepRead
  <2>. QED
    BY <1>1, <2>1, <2>3, Zenon DEF Unknown
<1>6. CASE IsMap(type)
  <2>1. ~NameUnknown(names, type)
    BY <1>6, UnknownFacts
  <2>2. TypeOfText(w, parsed)
        = IF DecimalInside(type) \/ PartThrown(type, text, parsed)
          THEN Thrown ELSE type
    BY <1>2, <1>3, <1>6, MapStepRead
  <2>. QED
    BY <1>1, <2>1, <2>2, Zenon DEF Unknown
<1>7. CASE IsMembers(type)
  <2>1. ~NameUnknown(names, type)
    BY <1>7, UnknownFacts
  <2>2. TypeOfText(w, parsed)
        = IF DecimalInside(type) \/ PartThrown(type, text, parsed)
          THEN Thrown ELSE type
    BY <1>2, <1>3, <1>7, StructStepRead
  <2>. QED
    BY <1>1, <2>1, <2>2, Zenon DEF Unknown
<1>. QED
  BY <1>4, <1>5, <1>6, <1>7, TypeCases

-----------------------------------------------------------------------------
(* The types that a type is made of *)

PartsStep(parts, type) == {type} \union UNION {parts[part] : part \in Inner(type)}

AreParts(f, d) == f = [type \in UpTo(d) |-> PartsStep(f, type)]

\* The recursion has a solution for types up to any depth.
LEMMA PartsExist ==
    ASSUME NEW d \in Nat
    PROVE  \E f : AreParts(f, d)
<1> DEFINE Without == {n \in Nat : ~ \E f : AreParts(f, n)}
<1>1. SUFFICES ASSUME Without # {} PROVE FALSE
  OBVIOUS
<1>2. PICK n \in Without : \A k \in Without : n <= k
  BY <1>1, LeastNatural
<1>3. PICK f : n # 0 => AreParts(f, n - 1)
  <2>1. n # 0 => n - 1 \in Nat /\ n - 1 \notin Without
    BY <1>2
  <2>. QED
    BY <2>1
<1> DEFINE g == [type \in UpTo(n) |-> PartsStep(f, type)]
<1>4. ASSUME NEW type \in UpTo(n)
      PROVE  \A part \in Inner(type) : g[part] = f[part]
  <2>1. SUFFICES ASSUME NEW part \in Inner(type) PROVE g[part] = f[part]
    OBVIOUS
  <2>2. part \in ColumnTypes /\ Depth[part] < Depth[type]
    BY InnerFacts DEF UpTo
  <2>3. n # 0 /\ part \in UpTo(n - 1) /\ part \in UpTo(n)
    BY <1>2, <2>2, TypesAssumption DEF UpTo
  <2>4. f[part] = PartsStep(f, part)
    BY <1>3, <2>3, Zenon DEF AreParts
  <2>. QED
    BY <2>3, <2>4
<1>5. \A type \in UpTo(n) : PartsStep(f, type) = PartsStep(g, type)
  <2> HIDE DEF g
  <2>. QED
    BY <1>4 DEF PartsStep
<1>6. AreParts(g, n)
  <2>1. g = [type \in UpTo(n) |-> PartsStep(f, type)]
    OBVIOUS
  <2> HIDE DEF g
  <2>. QED
    BY <1>5, <2>1, Zenon DEF AreParts
<1>. QED
  BY <1>2, <1>6

\* The definition of PartsOf defines it.
LEMMA PartsDefined ==
    \A type \in ColumnTypes : PartsOf[type] = PartsStep(PartsOf, type)
<1>1. \E f : f = [t \in ColumnTypes |-> PartsStep(f, t)]
  <2>1. MaxDepth \in Nat
    BY TypesAssumption
  <2>2. \E f : AreParts(f, MaxDepth)
    BY <2>1, PartsExist
  <2>. QED
    BY <2>2, UpToAll, Zenon DEF AreParts
<1>2. PartsOf = CHOOSE f : f = [t \in ColumnTypes |-> PartsStep(f, t)]
  BY DEF PartsOf, PartsStep
<1>3. PartsOf = [t \in ColumnTypes |-> PartsStep(PartsOf, t)]
  BY <1>1, <1>2, Zenon
<1>. QED
  BY <1>3, Zenon

\* Some part of a type is unknown to the parser.
UnknownPart(names, type) == \E part \in PartsOf[type] : Unknown(names, part)

\* A part of a type is the type or a part of what it is made of.
LEMMA UnknownPartStep ==
    ASSUME NEW names, NEW type \in ColumnTypes
    PROVE  UnknownPart(names, type)
           <=> \/ Unknown(names, type)
               \/ \E part \in Inner(type) : UnknownPart(names, part)
<1>1. PartsOf[type] = {type} \union UNION {PartsOf[part] : part \in Inner(type)}
  BY PartsDefined DEF PartsStep
<1>. QED
  BY <1>1, Zenon DEF UnknownPart

\* A catalog's parser reads each text of a type as the type, unless the type
\* has a part that the parser does not know.
LEMMA CatalogReads ==
    ASSUME NEW names \in AnswerNames, NEW type \in ColumnTypes
    PROVE  TypeToLogicalType[Text(names)[type]]
           = IF UnknownPart(names, type) THEN Thrown ELSE type
<1>1. PICK text : text = Text(names)
  OBVIOUS
<1>2. PICK parsed : parsed = TypeToLogicalType
  OBVIOUS
<1> DEFINE Read(t) == parsed[text[t]]
                      = IF UnknownPart(names, t) THEN Thrown ELSE t
           Misread == {t \in ColumnTypes : ~Read(t)}
           Depths == {Depth[t] : t \in Misread}
<1>3. SUFFICES ASSUME Misread # {} PROVE FALSE
  BY <1>1, <1>2
<1>4. PICK n \in Depths : \A m \in Depths : n <= m
  <2>1. Depths \subseteq Nat /\ Depths # {}
    BY <1>3, TypesAssumption
  <2> HIDE DEF Depths
  <2>. QED
    BY <2>1, LeastNatural
<1>5. PICK t \in Misread : n = Depth[t]
  BY <1>4
<1>6. \A part \in Inner(t) : Read(part)
  <2>1. SUFFICES ASSUME NEW part \in Inner(t), part \in Misread PROVE FALSE
    BY <1>5, InnerFacts
  <2>2. part \in ColumnTypes /\ Depth[part] < Depth[t]
    BY <1>5, InnerFacts
  <2>3. Depth[part] \in Depths
    BY <2>1
  <2>4. Depth[t] <= Depth[part]
    BY <1>4, <1>5, <2>3
  <2>. QED
    BY <1>5, <2>2, <2>4, TypesAssumption
<1>7. PartsRead(t, text, parsed)
  BY <1>6, Zenon DEF PartsRead
<1>8. PartThrown(t, text, parsed) <=> \E part \in Inner(t) : UnknownPart(names, part)
  <2>1. \A part \in Inner(t) : part # Thrown
    BY <1>5, InnerFacts, TypeNotThrown
  <2>. QED
    BY <1>6, <2>1, Zenon DEF PartThrown
<1>9. parsed[text[t]] = TypeOfText(text[t], parsed)
  <2>1. text[t] \in Words
    BY <1>1, <1>5, TextsClosed DEF TextOK, Closed
  <2>. QED
    BY <1>2, <2>1, CatalogDefined
<1>10. TypeOfText(text[t], parsed)
       = IF Unknown(names, t) \/ PartThrown(t, text, parsed) THEN Thrown ELSE t
  BY <1>1, <1>5, <1>7, CatalogStepRead
<1>11. UnknownPart(names, t)
       <=> \/ Unknown(names, t)
           \/ \E part \in Inner(t) : UnknownPart(names, part)
  BY <1>5, UnknownPartStep
<1>12. Read(t)
  BY <1>8, <1>9, <1>10, <1>11, Zenon
<1>. QED
  BY <1>5, <1>12

-----------------------------------------------------------------------------
(* The columns of a catalog entry *)

\* What a column's type is read as, if it is read.
ColumnType(val) ==
    IF "text" \in DOMAIN val THEN TypeToLogicalType[val.text] ELSE Thrown

\* What the catalog's parser says of a type.
SaysOf(type, read) ==
    \/ read = type
    \/ read = Thrown /\ \E part \in PartsOf[type] : UnknownToCatalog(part)

\* A text is read as its type, or has a part that is unknown.
LEMMA TextColumnRead ==
    ASSUME table \in Written, NEW type \in ColumnTypes
    PROVE  SaysOf(type, TypeToLogicalType[Text(table.answer_names)[type]])
<1>1. PICK names \in AnswerNames : names = table.answer_names
  BY TableFacts
<1>2. \A part : Unknown(names, part) => UnknownToCatalog(part)
  BY <1>1, Zenon DEF Unknown, NameUnknown, UnknownToCatalog
<1>3. TypeToLogicalType[Text(names)[type]]
      = IF UnknownPart(names, type) THEN Thrown ELSE type
  BY CatalogReads
<1>. QED
  BY <1>1, <1>2, <1>3, Zenon DEF SaysOf, UnknownPart

\* A type is a part of itself.
LEMMA PartOfItself ==
    ASSUME NEW type \in ColumnTypes, UnknownToCatalog(type)
    PROVE  SaysOf(type, Thrown)
<1>1. type \in PartsOf[type]
  BY PartsDefined DEF PartsStep
<1>. QED
  BY <1>1, Zenon DEF SaysOf

\* Of objects only those with the name of a type are read.
LEMMA ObjectColumnRead ==
    ASSUME table \in Written, route = "objects", NEW type \in ColumnTypes
    PROVE  SaysOf(type, ColumnType(AsObject(table.answer_names)[type]))
<1>1. PICK names \in AnswerNames : names = table.answer_names
  BY TableFacts
<1>2. PICK object : object = AsObject(names)
  OBVIOUS
<1>3. CASE type \in SimpleTypes \union DecimalTypes
  <2>1. PICK text : text = NameText(names, type)
    OBVIOUS
  <2>2. object[type] = [text |-> text]
    BY <1>2, <1>3, <2>1, ObjectOfUnnested
  <2>3. ColumnType(object[type]) = TypeToLogicalType[text]
    BY <2>2 DEF ColumnType
  <2>4. text \in Words
    BY <1>3, <2>1, NameClosed, DecimalClosed DEF IsDecimal, Closed
  <2>5. TypeToLogicalType[text]
        = IF NameUnknown(names, type) THEN Thrown ELSE type
    BY <1>3, <2>1, <2>4, CatalogDefined, CatalogNameRead DEF NameUnknown
  <2>6. NameUnknown(names, type) => UnknownToCatalog(type)
    BY <1>1, Zenon DEF NameUnknown, UnknownToCatalog
  <2>7. CASE NameUnknown(names, type)
    <3>1. SaysOf(type, Thrown)
      BY <2>6, <2>7, PartOfItself
    <3>. QED
      BY <1>1, <1>2, <2>3, <2>5, <2>7, <3>1, Zenon
  <2>8. CASE ~NameUnknown(names, type)
    <3>1. SaysOf(type, type)
      BY DEF SaysOf
    <3>. QED
      BY <1>1, <1>2, <2>3, <2>5, <2>8, <3>1, Zenon
  <2>. QED
    BY <2>7, <2>8
<1>4. CASE IsList(type) \/ IsMap(type) \/ IsMembers(type)
  <2>1. type[1] \in {"LIST", "MAP", "STRUCT"}
    BY <1>4, TypeFacts
  <2>2. UnknownToCatalog(type)
    BY <2>1, Zenon DEF UnknownToCatalog, Nested
  <2>3. "text" \notin DOMAIN object[type]
    <3>1. CASE IsList(type)
      <4>1. object[type] = [type |-> "list", element |-> object[type[2]]]
        BY <1>2, <3>1, ObjectOfList
      <4>. QED
        BY <4>1
    <3>2. CASE IsMap(type)
      <4>1. object[type] = [type |-> "map", key |-> object[type[2]],
                            value |-> object[type[3]]]
        BY <1>2, <3>2, ObjectOfMap
      <4>. QED
        BY <4>1
    <3>3. CASE IsMembers(type)
      <4>1. PICK fields : fields = [k \in 1 .. Len(type) - 1 |->
                                       [name |-> type[k + 1][1],
                                        type |-> object[type[k + 1][2]]]]
        OBVIOUS
      <4>0. object[type] = [type |-> "struct",
                            fields |-> [k \in 1 .. Len(type) - 1 |->
                                           [name |-> type[k + 1][1],
                                            type |-> object[type[k + 1][2]]]]]
        BY <1>2, <3>3, ObjectOfStruct
      <4>2. object[type] = [type |-> "struct", fields |-> fields]
        BY <4>0, <4>1, Zenon
      <4>. QED
        BY <4>2
    <3>. QED
      BY <1>4, <3>1, <3>2, <3>3
  <2>4. ColumnType(object[type]) = Thrown
    BY <2>3, Zenon DEF ColumnType
  <2>. QED
    BY <1>1, <1>2, <2>2, <2>4, PartOfItself
<1>. QED
  BY <1>3, <1>4, TypeCases

\* The answer has schemas in two of the layouts.
LEMMA SchemasInAnswer ==
    ASSUME table \in Written, NEW schemas, schemas = SchemasJson("answer")
    PROVE  /\ table.layout = "single" => "schemas" \notin DOMAIN Answer
           /\ table.layout # "single" =>
                 /\ "schemas" \in DOMAIN Answer
                 /\ Answer.schemas = schemas
                 /\ Answer.current_schema_id = schemas[table.current].schema_id
<1>1. PICK current : current = schemas[table.current]
  OBVIOUS
<1>2. CASE table.layout = "single"
  <2>1. Answer = [schema |-> current]
    BY <1>1, <1>2 DEF Answer, Document
  <2>. QED
    BY <1>2, <2>1
<1>3. CASE table.layout = "list"
  <2>1. Answer = [schemas |-> schemas, current_schema_id |-> current.schema_id]
    BY <1>1, <1>3 DEF Answer, Document
  <2>. QED
    BY <1>1, <1>3, <2>1
<1>4. CASE table.layout = "both"
  <2>1. Answer = [schema |-> current, schemas |-> schemas,
                  current_schema_id |-> current.schema_id]
    BY <1>1, <1>4 DEF Answer, Document
  <2>. QED
    BY <1>1, <1>4, <2>1
<1>. QED
  BY <1>2, <1>3, <1>4, TableFacts

\* The columns of the entry are those of the current schema, or some type in
\* them is unknown to the parser.
LEMMA EntryRead ==
    ASSUME table \in Written, route \in {"objects", "texts"},
           table.layout # "single", NEW cols, cols = CatalogColumns(Answer)
    PROVE  /\ SomeThrown(cols) =>
                 \E type \in MeantTypes : UnknownToCatalog(type)
           /\ ~SomeThrown(cols) =>
                 cols = [f \in DOMAIN Meant |->
                            [name |-> Meant[f].name, type |-> Meant[f].type]]
<1>1. PICK schemas : schemas = SchemasJson("answer")
  OBVIOUS
<1>2. PICK current : current = schemas[table.current]
  OBVIOUS
<1>3. /\ SchemaWithId(schemas, current.schema_id) = current
      /\ current.fields
         = [f \in DOMAIN Meant |->
               [id |-> Meant[f].id, name |-> Meant[f].name,
                type |-> TypeJson("answer", Meant[f].type)]]
  BY <1>1, <1>2, CurrentInDocument
<1>4. SchemaWithId(Answer.schemas, Answer.current_schema_id) = current
  BY <1>1, <1>2, <1>3, SchemasInAnswer, Zenon
<1> DEFINE Read(f) == ColumnType(TypeJson("answer", Meant[f].type))
<1>5. cols = [f \in DOMAIN Meant |-> [name |-> Meant[f].name, type |-> Read(f)]]
  <2>1. cols = [f \in DOMAIN current.fields |->
                   ParseColumnDefinition(current.fields[f])]
    BY <1>4, Zenon DEF CatalogColumns
  <2>2. DOMAIN current.fields = DOMAIN Meant
    BY <1>3
  <2>3. ASSUME NEW f \in DOMAIN Meant
        PROVE  ParseColumnDefinition(current.fields[f])
               = [name |-> Meant[f].name, type |-> Read(f)]
    <3>1. PICK val : val = TypeJson("answer", Meant[f].type)
      OBVIOUS
    <3>2. PICK field : field = current.fields[f]
      OBVIOUS
    <3>3. field.name = Meant[f].name /\ field.type = val
      BY <1>3, <3>1, <3>2
    <3>. QED
      BY <3>1, <3>2, <3>3, Zenon DEF ParseColumnDefinition, ColumnType
  <2>. QED
    BY <2>1, <2>2, <2>3
<1>6. ASSUME NEW f \in DOMAIN Meant
      PROVE  Meant[f].type \in ColumnTypes /\ SaysOf(Meant[f].type, Read(f))
  <2>1. Meant[f].type \in ColumnTypes
    <3>1. Meant[f] \in Field
      BY TableFacts
    <3>. QED
      BY <3>1 DEF Field
  <2>2. PICK type \in ColumnTypes : type = Meant[f].type
    BY <2>1
  <2>3. CASE route = "texts"
    <3>1. PICK text : text = Text(table.answer_names)[type]
      OBVIOUS
    <3>2. TypeJson("answer", type) = [text |-> text]
      BY <2>3, <3>1 DEF TypeJson
    <3>3. ColumnType(TypeJson("answer", type)) = TypeToLogicalType[text]
      BY <3>2 DEF ColumnType
    <3>4. SaysOf(type, TypeToLogicalType[text])
      BY <3>1, TextColumnRead
    <3>. QED
      BY <2>2, <3>3, <3>4, Zenon
  <2>4. CASE route = "objects"
    <3>1. TypeJson("answer", type) = AsObject(table.answer_names)[type]
      BY <2>4 DEF TypeJson
    <3>2. SaysOf(type, ColumnType(AsObject(table.answer_names)[type]))
      BY <2>4, ObjectColumnRead
    <3>. QED
      BY <2>2, <3>1, <3>2, Zenon
  <2>. QED
    BY <2>1, <2>3, <2>4
<1> HIDE DEF Read
<1>7. ASSUME SomeThrown(cols)
      PROVE  \E type \in MeantTypes : UnknownToCatalog(type)
  <2>1. PICK f \in DOMAIN Meant : Read(f) = Thrown
    BY <1>5, <1>7 DEF SomeThrown
  <2>2. Meant[f].type # Thrown
    BY <1>6, TypeNotThrown
  <2>3. PICK part \in PartsOf[Meant[f].type] : UnknownToCatalog(part)
    BY <1>6, <2>1, <2>2, Zenon DEF SaysOf
  <2>4. part \in MeantTypes
    BY <2>3, Zenon DEF MeantTypes
  <2>. QED
    BY <2>3, <2>4
<1>8. ASSUME ~SomeThrown(cols)
      PROVE  cols = [f \in DOMAIN Meant |->
                        [name |-> Meant[f].name, type |-> Meant[f].type]]
  <2>1. ASSUME NEW f \in DOMAIN Meant PROVE Read(f) = Meant[f].type
    <3>1. Read(f) # Thrown
      BY <1>5, <1>8 DEF SomeThrown
    <3>. QED
      BY <1>6, <3>1, Zenon DEF SaysOf
  <2>. QED
    BY <1>5, <2>1
<1>. QED
  BY <1>7, <1>8
-----------------------------------------------------------------------------
(* The steps of a query *)

\* The search for the snapshot is that of SnapshotSelection, so that its
\* theorems hold here (IcebergSnapshot::GetLatestSnapshot, GetSnapshotById and
\* GetSnapshotByTimestamp).
THEOREM SelectsSnapshot == SchemaSpec => Spec
<1>1. SchemaInit => Init
  BY DEF SchemaInit
<1>2. [SchemaNext]_allVars => [Next]_vars
  BY DEF SchemaNext, FillEntry, GetParseInfo, FindSnapshot, SnapshotNotFound,
         ParseSnapShot, Bind, allVars, schemaVars
<1>. QED
  BY <1>1, <1>2, PTL DEF SchemaSpec, Spec

\* What the steps have read, and why they failed.
StepsInv ==
    /\ SchemaTypeOK
    /\ table \in Written
    /\ step = "fill" => route # "path" /\ entry = <<>>
    /\ step = "parse snapshot" => info = ParseInfo(File)
    /\ step = "bind" => schema = IF skip_schema_inference THEN <<>> ELSE Meant

\* A query begins with nothing read.
LEMMA StepsInvInit == SchemaInit /\ TypeOK => StepsInv
BY DEF SchemaInit, Init, StepsInv, SchemaTypeOK

\* What was written stays.
LEMMA WrittenStays ==
    ASSUME UNCHANGED schemaVars
    PROVE  File' = File /\ Answer' = Answer /\ Meant' = Meant
BY DEF schemaVars, File, Answer, Meant, Document, SchemasJson, TypeJson

\* Each step keeps what is known of the steps before it.
LEMMA StepsInvNext ==
    ASSUME StepsInv, TypeOK', [SchemaNext]_allVars
    PROVE  StepsInv'
<1>1. CASE FillEntry
  <2>1. UNCHANGED <<vars, schemaVars, info, schema>> /\ step = "fill"
        /\ step' \in {"parse info", "failed"}
    BY <1>1 DEF FillEntry
  <2>. QED
    BY <2>1, WrittenStays DEF StepsInv, SchemaTypeOK, vars, schemaVars
<1>2. CASE GetParseInfo
  <2>1. UNCHANGED <<vars, schemaVars, entry, schema>>
        /\ step = "parse info" /\ step' = "parse snapshot"
        /\ info' = ParseInfo(File)
    BY <1>2 DEF GetParseInfo
  <2>2. info' = ParseInfo(File')
    BY <2>1, WrittenStays
  <2>. QED
    BY <2>1, <2>2, WrittenStays DEF StepsInv, SchemaTypeOK, vars, schemaVars
<1>3. CASE FindSnapshot
  <2>1. UNCHANGED <<schemaVars, entry, info, schema, step>>
        /\ step = "parse snapshot" /\ UNCHANGED snapshots
    BY <1>3 DEF FindSnapshot, Next, FindLatestSnapshotInternal,
                FindSnapshotByIdTimestampInternal, FindSnapshotByIdInternal,
                EndOfLoop, KeepLatest, Advance
  <2>2. info' = ParseInfo(File')
    BY <2>1, WrittenStays DEF StepsInv
  <2>. QED
    BY <2>1, <2>2, WrittenStays DEF StepsInv, SchemaTypeOK, schemaVars
<1>4. CASE SnapshotNotFound
  BY <1>4, WrittenStays
     DEF SnapshotNotFound, StepsInv, SchemaTypeOK, vars, schemaVars
<1>5. CASE ParseSnapShot
  <2>1. UNCHANGED <<vars, schemaVars, entry, info>> /\ pc = "done"
        /\ step = "parse snapshot" /\ step' \in {"failed", "bind"}
        /\ schema' = IF skip_schema_inference THEN <<>>
                     ELSE ParseSchema(info.schemas, info.schema_id)
    BY <1>5 DEF ParseSnapShot
  <2>2. schema' = IF skip_schema_inference THEN <<>> ELSE Meant
    BY <2>1, SchemaRead DEF StepsInv
  <2>3. schema' = IF skip_schema_inference' THEN <<>> ELSE Meant'
    BY <2>1, <2>2, WrittenStays DEF schemaVars
  <2>. QED
    BY <2>1, <2>3, WrittenStays DEF StepsInv, SchemaTypeOK, vars, schemaVars
<1>6. CASE Bind
  <2>1. UNCHANGED <<vars, schemaVars, entry, info, schema>> /\ step = "bind"
        /\ step' \in {"bound", "failed"}
    BY <1>6 DEF Bind
  <2>. QED
    BY <2>1, WrittenStays DEF StepsInv, SchemaTypeOK, vars, schemaVars
<1>7. CASE UNCHANGED allVars
  <2>1. info' = ParseInfo(File') <=> info = ParseInfo(File)
    BY <1>7, WrittenStays DEF allVars
  <2>. QED
    BY <1>7, <2>1, WrittenStays
       DEF allVars, StepsInv, SchemaTypeOK, vars, schemaVars
<1>. QED
  BY <1>1, <1>2, <1>3, <1>4, <1>5, <1>6, <1>7 DEF SchemaNext

\* What the steps have read holds throughout a query.
LEMMA StepsInvHolds == SchemaSpec => []StepsInv
<1>1. SchemaSpec => []TypeOK
  BY SelectsSnapshot, TypeCorrect, PTL
<1>2. StepsInv /\ TypeOK' /\ [SchemaNext]_allVars => StepsInv'
  BY StepsInvNext
<1>. QED
  BY <1>1, <1>2, StepsInvInit, PTL DEF SchemaSpec

\* The steps of a query and of the search within it come in their order
\* (IcebergMultiFileReader::Bind and what it calls).
THEOREM StepsInOrder == SchemaSpec => []SchemaTypeOK
<1>1. StepsInv => SchemaTypeOK
  BY DEF StepsInv
<1>. QED
  BY <1>1, StepsInvHolds, PTL

\* A scan has the columns of the current schema as they were meant: for types
\* nested to any depth, any number of schemas and each layout of the metadata
\* (GetParseInfo, ParseSchema and ParseTypeValue).
THEOREM BindsCurrent == SchemaSpec => []BindsCurrentSchema
<1>1. SchemaInit => BindsCurrentSchema
  BY DEF SchemaInit, BindsCurrentSchema
<1>2. ASSUME StepsInv, BindsCurrentSchema, [SchemaNext]_allVars
      PROVE  BindsCurrentSchema'
  <2>1. SUFFICES ASSUME step' = "bound"
                 PROVE  columns' = IF skip_schema_inference' THEN <<>> ELSE Meant'
    BY DEF BindsCurrentSchema
  <2>2. \/ Bind
        \/ step = "bound" /\ UNCHANGED <<schemaVars, columns>>
    BY <1>2, <2>1 DEF SchemaNext, FillEntry, GetParseInfo, FindSnapshot,
         SnapshotNotFound, ParseSnapShot, allVars
  <2>3. UNCHANGED schemaVars
    BY <2>2 DEF Bind
  <2>4. columns' = IF skip_schema_inference THEN <<>> ELSE Meant
    <3>1. CASE Bind
      BY <1>2, <2>1, <3>1 DEF Bind, StepsInv
    <3>2. CASE step = "bound" /\ UNCHANGED columns
      BY <1>2, <3>2 DEF BindsCurrentSchema
    <3>. QED
      BY <2>2, <3>1, <3>2
  <2>. QED
    BY <2>3, <2>4, WrittenStays DEF schemaVars
<1>. QED
  BY <1>1, <1>2, StepsInvHolds, PTL DEF SchemaSpec


\* A type or a layout that a catalog's parser does not know.
CatalogCause ==
    \/ table.layout = "single"
    \/ \E type \in MeantTypes : UnknownToCatalog(type)

\* What was written stays unknown, or known, to the parser.
LEMMA CauseStays ==
    ASSUME UNCHANGED schemaVars
    PROVE  CatalogCause' <=> CatalogCause
<1>1. /\ table' = table /\ route' = route /\ Meant' = Meant
  BY WrittenStays DEF schemaVars
<1>2. MeantTypes' = MeantTypes
  BY <1>1 DEF MeantTypes
<1>3. \A type : UnknownToCatalog(type)' <=> UnknownToCatalog(type)
  BY <1>1 DEF UnknownToCatalog
<1>. QED
  BY <1>1, <1>2, <1>3 DEF CatalogCause

\* What filling an entry does.
LEMMA Filled ==
    ASSUME StepsInv, FillEntry
    PROVE  /\ UNCHANGED schemaVars /\ route # "path"
           /\ \/ /\ step' = "parse info"
                 /\ entry' = [f \in DOMAIN Meant |->
                                [name |-> Meant[f].name, type |-> Meant[f].type]]
              \/ step' = "failed" /\ entry' = <<>> /\ CatalogCause
<1>1. /\ table \in Written /\ route \in {"objects", "texts"}
      /\ UNCHANGED schemaVars /\ entry = <<>>
  BY DEF StepsInv, SchemaTypeOK, FillEntry
<1>2. PICK cols : cols = CatalogColumns(Answer)
  OBVIOUS
<1>3. CASE table.layout = "single"
  <2>1. "schemas" \notin DOMAIN Answer
    BY <1>1, <1>3, SchemasInAnswer
  <2>2. step' = "failed" /\ entry' = entry
    BY <2>1 DEF FillEntry
  <2>. QED
    BY <1>1, <1>3, <2>2 DEF CatalogCause
<1>4. CASE table.layout # "single" /\ SomeThrown(cols)
  <2>1. CatalogCause
    BY <1>1, <1>2, <1>4, EntryRead DEF CatalogCause
  <2>2. step' = "failed" /\ entry' = entry
    BY <1>2, <1>4 DEF FillEntry
  <2>. QED
    BY <1>1, <2>1, <2>2
<1>5. CASE table.layout # "single" /\ ~SomeThrown(cols)
  <2>1. "schemas" \in DOMAIN Answer
    BY <1>1, <1>5, SchemasInAnswer
  <2>2. cols = [f \in DOMAIN Meant |->
                   [name |-> Meant[f].name, type |-> Meant[f].type]]
    BY <1>1, <1>2, <1>5, EntryRead
  <2>3. step' = "parse info" /\ entry' = cols
    BY <1>2, <1>5, <2>1 DEF FillEntry
  <2>. QED
    BY <1>1, <2>2, <2>3
<1>. QED
  BY <1>3, <1>4, <1>5

\* A catalog entry that could be filled has the columns of the current schema
\* as they were meant, though its types come from another parser, whose texts
\* and brackets nest to any depth (FillEntry, ParseColumnDefinition and
\* TypeToLogicalType).
THEOREM EntryIsCurrent == SchemaSpec => []EntryHasCurrentSchema
<1>1. SchemaInit => EntryHasCurrentSchema
  BY DEF SchemaInit, EntryHasCurrentSchema
<1>2. ASSUME StepsInv, EntryHasCurrentSchema, [SchemaNext]_allVars
      PROVE  EntryHasCurrentSchema'
  <2>1. CASE FillEntry
    <3>1. /\ UNCHANGED schemaVars
          /\ \/ entry' = [f \in DOMAIN Meant |->
                            [name |-> Meant[f].name, type |-> Meant[f].type]]
             \/ entry' = <<>>
      BY <1>2, <2>1, Filled
    <3>2. Meant' = Meant
      BY <3>1, WrittenStays
    <3>. QED
      BY <3>1, <3>2 DEF EntryHasCurrentSchema
  <2>2. CASE ~FillEntry
    <3>1. UNCHANGED <<schemaVars, entry>>
      BY <1>2, <2>2 DEF SchemaNext, GetParseInfo, FindSnapshot,
           SnapshotNotFound, ParseSnapShot, Bind, allVars
    <3>2. Meant' = Meant
      BY <3>1, WrittenStays
    <3>. QED
      BY <1>2, <3>1, <3>2 DEF EntryHasCurrentSchema
  <2>. QED
    BY <2>1, <2>2
<1>. QED
  BY <1>1, <1>2, StepsInvHolds, PTL DEF SchemaSpec

\* A query fails at this stage for a cause only: each type that the catalog's
\* parser refuses is one that it does not know, never one that it misreads
\* (FillEntry, TypeToLogicalType, ParseSnapShot and Bind).
THEOREM FailsOnlyForCause == SchemaSpec => []FailsForCause
<1>1. SchemaInit => FailsForCause
  BY DEF SchemaInit, FailsForCause
<1>2. ASSUME StepsInv, FailsForCause, [SchemaNext]_allVars
      PROVE  FailsForCause'
  <2>1. SUFFICES ASSUME step' = "failed"
                 PROVE  \/ pc' = "error"
                        \/ table'.format_version \notin {1, 2}
                        \/ route' # "path" /\ entry' = <<>> /\ CatalogCause'
    BY DEF FailsForCause, CatalogCause
  <2>2. CASE FillEntry
    <3>1. /\ UNCHANGED schemaVars /\ route # "path"
          /\ entry' = <<>> /\ CatalogCause
      BY <1>2, <2>1, <2>2, Filled
    <3>. QED
      BY <3>1, CauseStays DEF schemaVars
  <2>3. CASE SnapshotNotFound
    BY <2>3 DEF SnapshotNotFound, vars
  <2>4. CASE ParseSnapShot
    <3>1. info = ParseInfo(File) /\ table \in Written
      BY <2>4 , <1>2 DEF ParseSnapShot, StepsInv
    <3>2. schema' = IF skip_schema_inference THEN <<>> ELSE Meant
      BY <2>4, <3>1, SchemaRead DEF ParseSnapShot
    <3>3. ~SomeThrown(schema')
      <4>1. ~SomeThrown(<<>>)
        BY DEF SomeThrown
      <4>. QED
        BY <3>1, <3>2, <4>1, MeantNotThrown
    <3>. QED
      BY <2>1, <2>4, <3>3 DEF ParseSnapShot
  <2>5. CASE Bind
    BY <2>1, <2>5 DEF Bind, schemaVars
  <2>6. CASE UNCHANGED allVars
    <3>1. UNCHANGED <<schemaVars, entry, step, pc>>
      BY <2>6 DEF allVars, vars
    <3>2. \/ pc = "error" \/ table.format_version \notin {1, 2}
          \/ route # "path" /\ entry = <<>> /\ CatalogCause
      BY <1>2, <2>1, <3>1 DEF FailsForCause, CatalogCause
    <3>. QED
      BY <3>1, <3>2, CauseStays DEF schemaVars
  <2>7. ~GetParseInfo /\ ~FindSnapshot
    BY <2>1 DEF GetParseInfo, FindSnapshot
  <2>. QED
    BY <1>2, <2>2, <2>3, <2>4, <2>5, <2>6, <2>7 DEF SchemaNext
<1>. QED
  BY <1>1, <1>2, StepsInvHolds, PTL DEF SchemaSpec

=============================================================================
