---------------------------- MODULE TableSchema ----------------------------
(***************************************************************************)
(* The columns a query gives to a table: read from the metadata file when   *)
(* the scan is bound (src/src/common/iceberg.cpp and schema.cpp), before    *)
(* and after the loop of SnapshotSelection, and, for a table of a catalog,  *)
(* read a first time from the catalog's answer when the entry is filled     *)
(* (src/src/catalog_api.cpp and storage/irc_table_set.cpp).                 *)
(***************************************************************************)
EXTENDS SnapshotSelection, TableTypes

CONSTANT
    Written         \* the tables as their writers mean them

\* A column has an id, a name and a type.
Field == [id : Nat, name : STRING, type : ColumnTypes]

\* A table has snapshots, a format version, schemas of which one is current,
\* a layout of the schemas in the file, and the names that the file and the
\* catalog's answer use for types.
ASSUME WrittenAssumption ==
    \A t \in Written :
        /\ t.snapshots \in Tables
        /\ t.format_version \in 1 .. 3
        /\ t.schemas \in Seq([schema_id : Nat, fields : Seq(Field)])
        /\ \A r, s \in DOMAIN t.schemas :
              t.schemas[r].schema_id = t.schemas[s].schema_id => r = s
        /\ t.current \in DOMAIN t.schemas
        /\ t.layout \in {"list", "single", "both"}
        /\ t.file_names \in FileNames
        /\ t.answer_names \in AnswerNames

VARIABLES
    table,          \* what was written
    route,          \* "path", or a catalog that answers with "objects" or "texts"
    skip_schema_inference,
    entry,          \* the columns of the catalog entry, none before it is filled
    info,           \* SnapshotParseInfo
    schema,         \* the schema of the snapshot
    columns,        \* the columns of the bound scan
    step

schemaVars == <<table, route, skip_schema_inference>>
allVars == <<vars, schemaVars, entry, info, schema, columns, step>>

SchemaTypeOK ==
    /\ TypeOK
    /\ table.snapshots = snapshots
    /\ route \in {"path", "objects", "texts"}
    /\ skip_schema_inference \in BOOLEAN
    /\ step \in {"fill", "parse info", "parse snapshot", "bind", "bound", "failed"}
    /\ step \in {"fill", "parse info"} => pc = "loop" /\ idx = 0
    /\ step \in {"bind", "bound"} => pc = "done"

SchemaInit ==
    /\ table \in Written
    /\ snapshots = table.snapshots
    /\ Init
    /\ route \in {"path", "objects", "texts"}
    /\ skip_schema_inference \in BOOLEAN
    /\ entry = <<>>
    /\ info = [schemas |-> <<>>, schema_id |-> 0]
    /\ schema = <<>>
    /\ columns = <<>>
    /\ step = IF route = "path" THEN "parse info" ELSE "fill"
    \* ICTableEntry::GetScanFunction binds without any option.
    /\ route # "path" =>
          /\ request.snapshot_source = "LATEST"
          /\ ~skip_schema_inference

-----------------------------------------------------------------------------
(* The metadata: external *)

\* The JSON of a type in the metadata file, and in the catalog's answer.
TypeJson(place, type) ==
    IF place = "file" THEN AsObject(table.file_names)[type]
    ELSE IF route = "texts" THEN [text |-> Text(table.answer_names)[type]]
    ELSE AsObject(table.answer_names)[type]

\* The schemas as JSON.
SchemasJson(place) ==
    [s \in DOMAIN table.schemas |->
        [schema_id |-> table.schemas[s].schema_id,
         fields |-> [f \in DOMAIN table.schemas[s].fields |->
            [id |-> table.schemas[s].fields[f].id,
             name |-> table.schemas[s].fields[f].name,
             type |-> TypeJson(place, table.schemas[s].fields[f].type)]]]]

\* A metadata document has the field "schema", or "schemas" and
\* "current_schema_id", or all of them.
Document(schemas) ==
    LET current == schemas[table.current]
    IN  CASE table.layout = "single" -> [schema |-> current]
          [] table.layout = "list" ->
               [schemas |-> schemas, current_schema_id |-> current.schema_id]
          [] table.layout = "both" ->
               [schema |-> current, schemas |-> schemas,
                current_schema_id |-> current.schema_id]

\* The metadata file, and the document in the answer of the catalog.
File == Document(SchemasJson("file"))
Answer == Document(SchemasJson("answer"))

-----------------------------------------------------------------------------
(* The columns of a catalog entry *)

\* The first schema with an id.  Every document has its current schema.
SchemaWithId(schemas, id) ==
    schemas[SelectInSeq(schemas, LAMBDA s : s.schema_id = id)]

\* A type that is not a string, as of a nested column, throws.
ParseColumnDefinition(field) ==
    [name |-> field.name,
     type |-> IF "text" \in DOMAIN field.type
              THEN TypeToLogicalType[field.type.text] ELSE Thrown]

\* Mutant of CatalogColumns: the first schema is taken.
ColumnsOfFirst(doc) ==
    [f \in DOMAIN doc.schemas[1].fields |->
        ParseColumnDefinition(doc.schemas[1].fields[f])]

CatalogColumns(doc) ==
    LET current == SchemaWithId(doc.schemas, doc.current_schema_id)
    IN  [f \in DOMAIN current.fields |-> ParseColumnDefinition(current.fields[f])]

\* Some column of a list of columns could not be parsed.
SomeThrown(list) == \E f \in DOMAIN list : list[f].type = Thrown

\* FillEntry of a table: GetTable, populateTableMetadata and
\* _CreateCatalogEntry.  A document without current-schema-id throws.
FillEntry ==
    /\ step = "fill"
    /\ IF "schemas" \in DOMAIN Answer /\ ~SomeThrown(CatalogColumns(Answer))
       THEN /\ entry' = CatalogColumns(Answer)
            /\ step' = "parse info"
       ELSE /\ step' = "failed"
            /\ UNCHANGED entry
    /\ UNCHANGED <<vars, schemaVars, info, schema, columns>>

-----------------------------------------------------------------------------
(* The schema of a scan *)

ParseInfo(doc) ==
    IF "current_schema_id" \in DOMAIN doc
    THEN [schemas |-> doc.schemas, schema_id |-> doc.current_schema_id]
    ELSE [schemas |-> <<doc.schema>>, schema_id |-> doc.schema.schema_id]

GetParseInfo ==
    /\ step = "parse info"
    /\ info' = ParseInfo(File)
    /\ step' = "parse snapshot"
    /\ UNCHANGED <<vars, schemaVars, entry, schema, columns>>

\* The loops of SnapshotSelection over the snapshots.
FindSnapshot ==
    /\ step = "parse snapshot"
    /\ Next
    /\ UNCHANGED <<schemaVars, entry, info, schema, columns, step>>

\* IcebergColumnDefinition::ParseFromJson for every field of the schema.
ParseSchemaFromJson(json) ==
    [f \in DOMAIN json.fields |->
        [id |-> json.fields[f].id, name |-> json.fields[f].name,
         type |-> ParseTypeValue[json.fields[f].type]]]

ParseSchema(schemas, id) == ParseSchemaFromJson(SchemaWithId(schemas, id))

\* The search has thrown, and with it the bind.
SnapshotNotFound ==
    /\ step = "parse snapshot"
    /\ pc = "error"
    /\ step' = "failed"
    /\ UNCHANGED <<vars, schemaVars, entry, info, schema, columns>>

\* Mutant of ParseSnapShot: a snapshot that was not found is not an error.
ParseAnySnapShot ==
    /\ step = "parse snapshot"
    /\ pc # "loop"
    /\ schema' = IF skip_schema_inference THEN <<>>
                 ELSE ParseSchema(info.schemas, info.schema_id)
    /\ step' = IF SomeThrown(schema') THEN "failed" ELSE "bind"
    /\ UNCHANGED <<vars, schemaVars, entry, info, columns>>

\* ParseSnapShot reads the schema also for a table without snapshots.
ParseSnapShot ==
    /\ step = "parse snapshot"
    /\ pc = "done"
    /\ schema' = IF skip_schema_inference THEN <<>>
                 ELSE ParseSchema(info.schemas, info.schema_id)
    /\ step' = IF SomeThrown(schema') THEN "failed" ELSE "bind"
    /\ UNCHANGED <<vars, schemaVars, entry, info, columns>>

\* Mutant of Bind: a table without snapshots is bound to no columns.
BindIfSnapshot ==
    /\ step = "bind"
    /\ IF table.format_version \in {1, 2}
       THEN /\ columns' = IF found = 0 THEN <<>> ELSE schema
            /\ step' = "bound"
       ELSE /\ step' = "failed"
            /\ UNCHANGED columns
    /\ UNCHANGED <<vars, schemaVars, entry, info, schema>>

\* The rest of InitializeFiles refuses other format versions; then Bind takes
\* the schema for the columns of the scan.
Bind ==
    /\ step = "bind"
    /\ IF table.format_version \in {1, 2}
       THEN /\ columns' = schema
            /\ step' = "bound"
       ELSE /\ step' = "failed"
            /\ UNCHANGED columns
    /\ UNCHANGED <<vars, schemaVars, entry, info, schema>>

SchemaNext ==
    \/ FillEntry
    \/ GetParseInfo
    \/ FindSnapshot
    \/ SnapshotNotFound
    \/ ParseSnapShot
    \/ Bind

SchemaSpec == SchemaInit /\ [][SchemaNext]_allVars

-----------------------------------------------------------------------------
(* Properties *)

\* The columns of the table's current schema, as they were meant.
Meant == table.schemas[table.current].fields

\* A scan has the columns of the table's current schema, whichever snapshot it
\* reads, with their names, types and field ids in their order; it has them
\* also for a table without snapshots, in files of both layouts.
BindsCurrentSchema ==
    step = "bound" => columns = IF skip_schema_inference THEN <<>> ELSE Meant

\* A catalog entry that could be filled has the same columns, though it takes
\* them from another document with another parser: what was planned with the
\* entry's columns fits what the scan produces.
EntryHasCurrentSchema ==
    entry # <<>> =>
        entry = [f \in DOMAIN Meant |->
                    [name |-> Meant[f].name, type |-> Meant[f].type]]

\* The types inside the columns.
MeantTypes == UNION {PartsOf[Meant[f].type] : f \in DOMAIN Meant}

\* A catalog entry cannot be filled if some column has one of these types.
UnknownToCatalog(type) ==
    \/ type[1] \in {"TIME", "UUID"}
    \/ Simple(type) /\ table.answer_names[type[1]] = FixedName
    \/ Nested(type) /\ route = "objects"
    \/ DecimalInside(type)

\* A query fails at this stage for a cause only: no snapshot, a format version
\* that is not supported, or, in a catalog, a type or a layout its parser does
\* not know.
FailsForCause ==
    step = "failed" =>
        \/ pc = "error"
        \/ table.format_version \notin {1, 2}
        \/ /\ route # "path"
           /\ entry = <<>>
           /\ \/ table.layout = "single"
              \/ \E type \in MeantTypes : UnknownToCatalog(type)

=============================================================================
