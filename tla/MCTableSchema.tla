--------------------------- MODULE MCTableSchema ---------------------------
(* TableSchema on small snapshots arrays and all types up to three levels. *)
EXTENDS TableSchema, MCSnapshotSelection

-----------------------------------------------------------------------------
(* Types *)

\* Types nested one level deeper than those of a set.
Deeper(types) ==
    {<<"LIST", t>> : t \in types}
    \union {<<"MAP", k, v>> : k, v \in types}
    \union {<<"STRUCT", <<"a", t>>, <<"b", u>>>> : t, u \in types}
    \union {<<"STRUCT", <<"a", t>>>> : t \in types}

Leaves == {<<"INTEGER">>, <<"DECIMAL", 9, 2>>}
NestedTypes == Deeper(Leaves \union Deeper(Leaves))
Unnested == Leaves \union SimpleTypes
MCTypes == Unnested \union NestedTypes

MCDepth ==
    [t \in MCTypes |-> IF t \in Unnested THEN 0
                       ELSE IF t \in Deeper(Leaves) THEN 1 ELSE 2]

MCName ==
    ({"a", "b"} \union {ToString(n) : n \in 0 .. 38}
     \union UNION {UNION {Range(names[t]) : t \in DOMAIN names} :
                      names \in AnswerNames}) \ Punctuation

MCNumeral == [n \in 0 .. 38 |-> ToString(n)]

-----------------------------------------------------------------------------
(* Tables *)

\* A schema with columns of these types.
Schema(id, types) ==
    [schema_id |-> id,
     fields |-> [f \in DOMAIN types |->
                    [id |-> 10 * id + f, name |-> <<"x", "y">>[f],
                     type |-> types[f]]]]

TwoSchemas == <<Schema(0, <<<<"INTEGER">>>>), Schema(1, <<<<"BIGINT">>, <<"DATE">>>>)>>

OneSnapshot == <<[snapshot_id |-> 1, timestamp_ms |-> 1]>>

\* A table whose file has Iceberg's names.
Table(ss, version, schemas, current, layout) ==
    [snapshots |-> ss, format_version |-> version, schemas |-> schemas,
     current |-> current, layout |-> layout,
     file_names |-> IcebergNames, answer_names |-> IcebergNames]

\* A table with one column.
OneColumn(type) == Table(OneSnapshot, 2, <<Schema(0, <<type>>)>>, 1, "list")

\* Every array of snapshots with two schemas; every layout and version with
\* and without a snapshot; a column of every type, under every name.
MCWritten ==
    {Table(s, 2, TwoSchemas, 2, "list") : s \in SmallTables}
    \union {Table(s, v, TwoSchemas, c, l) :
                s \in {<<>>, OneSnapshot}, v \in 1 .. 3, c \in 1 .. 2,
                l \in {"list", "single", "both"}}
    \union {OneColumn(t) : t \in NestedTypes}
    \union {[OneColumn(t) EXCEPT !.file_names = f, !.answer_names = a] :
                t \in Unnested, f \in FileNames, a \in AnswerNames}

MCTables == {t.snapshots : t \in MCWritten}

=============================================================================
