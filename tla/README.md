# duckdb-iceberg in TLA+

A verification project for the DuckDB extension `iceberg`, whose C++ source is
under `src/src/`. The modules model the parts of the extension that keep state
between calls: reading manifests, expanding the list of data files, applying
deletes on several threads, paging the metadata functions, finding the metadata
and the snapshot of a table, the columns a query gives to it, and the catalog of
a REST server with its entries, its cache and its credentials. TLC checks the
modules on small instances, TLAPS proves the theorems listed below for every
value of the constants.

## The system

| Component | State | Operations | Used by | Hard part |
|---|---|---|---|---|
| manifest reader (`manifest_reader.cpp`, `iceberg_manifest.cpp`) | scan, chunk, offset, finished | Initialize, ReadEntries, Finished | file list, deletes, metadata function | chunk boundaries, rows that produce nothing |
| file list (`iceberg_multi_file_reader.cpp`) | manifests, iterator, reader, `data_files` | InitializeFiles, GetFile, GetExpandResult, GetTotalFileCount | DuckDB's multi file scan | lazy expansion, mixed calls, failed opens |
| positional deletes (same file) | delete manifests, iterator, reader, `delete_data`, `delete_lock` | FinalizeChunk, ProcessDeletes, ScanDeleteFile, Apply | every scan thread | threads, exceptions, executions again |
| `iceberg_metadata` (`iceberg.cpp`, `iceberg_metadata.cpp`) | loaded entries, two indexes | Load, the table function | SQL | paging across nested lists |
| `iceberg_snapshots` | iterator over a JSON array | the table function | SQL | paging |
| version resolution (`iceberg.cpp`) | none; reads files that a writer changes | GetMetaDataPath, GuessTableVersion | every scan and metadata function | races with a writer |
| snapshot selection (`iceberg.cpp`) | none | latest, by id, by timestamp | file list, metadata function | integer conversions, ties |
| schemas (`iceberg.cpp`, `schema.cpp`) | none | GetParseInfo, ParseSnapShot, ParseSchema, Bind | every scan | two layouts, nested types |
| column types of a catalog (`catalog_api.cpp`, `catalog_utils.cpp`, `irc_table_set.cpp`) | the columns of an entry | populateTableMetadata, TypeToLogicalType, FillEntry | catalog sets | another parser than the scan's |
| catalog sets (`irc_catalog_set.cpp`, `irc_schema_set.cpp`, `irc_table_set.cpp`) | maps of entries, `entry_lock` | GetEntry, Scan, LoadEntries, FillEntry, CreateEntry | DuckDB's binder, on any connection | loading outside the lock, entries replaced |
| metadata cache and credentials (`irc_catalog.cpp`, `catalog_api.cpp`, `irc_table_entry.cpp`) | cached responses with expiry; secrets | HasCachedValue, GetCachedValue, SetCachedValue, GetScanFunction | a scan of a catalog table | expiry between check and use |
| attach (`iceberg_extension.cpp`, `irc_catalog.cpp`) | options, token, prefix | IcebergCatalogAttach, GetConfig | ATTACH | which option or secret wins |

A query of a table in a catalog goes through most of them: the catalog set looks
the entry up and fills it by a request (CatalogSet, and with the cache and the
columns TableCredentials and TableSchema), `GetScanFunction` creates a secret
and binds `iceberg_scan` to the metadata file (TableCredentials), the file list
finds the metadata file (VersionResolution), the snapshot (SnapshotSelection)
and the columns (TableSchema), and the scan expands the data files (FileList)
and drops deleted rows (DeleteData), both through the manifest reader.

Not modelled: URL, JSON and HTTP helpers, `FileToString` and `GzFileToString`
(I/O and formatting; that a file may be overwritten between the two calls of
`FileToString` is a listed hazard), column mapping of files (done once at bind,
with the operators of DuckDB's multi file reader), transactions (`Start`,
`Commit` and `Rollback` keep a state that nothing reads), the registration of
functions, and `pc_clear_cache`, which is not registered, so that neither
`ClearEntries` nor `ClearCache` is reached. CREATE, DROP and ALTER in a catalog
throw `NotImplementedException`; the functions that only they would use
(`LogicalToIcebergType`, `ToICType`, `TypeToString`) are called by nobody.

## The modules

**ManifestReader** is a library of operators, one for each step of
`ManifestReader` (`manifest_reader.cpp`). A reader is a record; `ReadLoop`,
`ProduceEntry` and `EndOfCallback` relate it to itself one step later, so that a
component composes them into its own actions. A file is the sequence of the
statuses of its rows. The record keeps what `ReadEntries` keeps: the chunk
(`fetched`, `size`), `offset`, which `EndOfCallback` moves by the whole count
requested as the code does, `finished`, and the locals of the loop.

**FileList** is `IcebergMultiFileList`. `InitializeFiles`, `ReadManifestList`,
`SplitManifest` and `InitializeIterators` are the phases of `InitializeFiles`;
the three calls start with `Begin` and are a loop around `GetFile`
(`OpenManifest`, `OpenFails`, `ContinueManifest`, `ReadManifest`,
`ManifestRead`, `GetFileReturns`). A data file is identified by its manifest and
its row, so that "lost", "twice" and "out of order" can be said.
**LazyFileList** is what the list promises its caller; **FileListRefinement**
is the mapping of the first to the second.

**DeleteData** is the path of a chunk through `FinalizeChunk` on each of
several threads. The file list and its delete state outlive an execution:
`Execute` starts the plan again, after a success or a failure. `Throw` is an
exception while the lock is held: the guard releases it, the local
`delete_files` is gone, the members stay. `Apply` runs outside the lock, one
lookup a step.

**IcebergMetadata** drives ManifestReader through `ScanAvroMetadata` and then
pages; **RowStream** is what DuckDB expects of a table function, and the
property `ImplementsRowStream` says the first implements the second.

**IcebergSnapshots** is the walk of `iceberg_snapshots` over the JSON array.

**TableFunctions** composes the two: a connection drains one function and then
the other, each from its own state.

**VersionResolution** is one call of `GetMetaDataPath`, with a step for each
access to the file system: look for the hint, read it, look for a file in each
of the two name formats or list the directory, and open what was found. Beside
it runs the writer of the table, another program, taken to add a metadata file,
delete the version hint, put the new hint in place and, at any time, remove
files that are at least `Retained` versions old. File names are compared as
`PickTableVersion` compares them, as strings.

**SnapshotSelection** is the loop over the snapshots array, one snapshot a
step, for the three kinds of request. Timestamps keep their signedness:
`ToUnsigned` is the conversion that C++ does where the two are compared.

**TableTypes** has the two parsers of column types as operators. `ParseTypeValue`
follows the functions of `schema.cpp` over JSON values; `TypeToLogicalType`
follows `catalog_utils.cpp` over texts, which are sequences of tokens: `Children`
is the loop that looks for the commas of a map or a struct, `Nesting` its count
of brackets. A token is punctuation or a `Name`, so the names of members have no
brackets, commas and colons (`NameAssumption`): the answer has no way to quote
them. A parser that throws returns `Thrown`. `AsObject` and `Text` are
how writers spell a type, and external. Types are trees (`TypesAssumption`) of any
depth; the parsers and the spellings are recursive functions over them, so that
they can be proved about.

**TableSchema** extends SnapshotSelection with what surrounds the loop: `FillEntry`
for a table of a catalog, `GetParseInfo`, `ParseSnapShot` and `Bind`. A table is
what its writer meant (`Written`): snapshots, a format version, schemas of which
one is current, and the layout of the document, with the field `schema`, with
`schemas` and `current-schema-id`, or with all of them. The metadata file and
the answer of the catalog are two documents of one table, which may spell types
differently. Schemas of one table have different ids (`WrittenAssumption`), as
Iceberg demands.

**CatalogSet** is `IRCCatalogSet` with its two kinds, a set of tables (`fills`)
and a set of schemas. Each thread runs `GetEntry` and `Scan`; `LoadEntries` of a
lookup runs without `entry_lock`, as in the code. Every entry object has a
number, so that "the same entry" can be told from "an equal entry". Where two
threads use the `unordered_map` at once and one inserts, the behaviour is
undefined; the model lets an insertion be lost and a lookup miss. A crash is
the outcome that the model leaves out: nothing follows it.

**CatalogAttach** is `IcebergCatalogAttach` for each catalog: `Attach` reads the
options and finds a secret, `GetToken` and `GetConfig` are the two requests, and
`AttachThrows` leaves the catalog detached. `GetSecret` is
`IRCatalog::GetSecret` with its fallback: a name that is gone finds any s3
secret. `Authorized` is `GetRequest`, which signs what it sends to AWS and sends
the token elsewhere; which of the two it does depends on the host (`IsAws`:
`glue.` or `s3tables.` at its start), not on the type of the catalog, so a REST
endpoint with such a host is signed. Of a host only this is kept, and whether it
starts with the service without the dot, which `GetScanFunction` tests. The
token is never renewed, and the user may drop secrets (`DropSecret`) at any
time; each step of ATTACH looks at the secrets that are there then, a query at
those that were there when it began (`seen`).

**TableCredentials** extends it with queries on several connections. A query
looks its tables up (`Lookup`, which waits for a fill in the same schema of the
same catalog, whose set has one `entry_lock`), fills an entry (`Request`, `Store`),
asks the cache (`HasCachedValue`, then `GetCachedValue` in a later step, or
`Request` and `Store` on a miss), creates the table's secrets one by one
(`CreateTableSecret`) and binds the scan (`BindScan`). Each of these can throw, as
in the code: `RequestThrows`; `StoreThrows`, at an expiry that is no number or,
with the answer in the cache already, at the metadata that `FillEntry` parses;
`GetCachedValueThrows`; and `GetScanFunctionThrows` with the errors of
`GetTableCredentials`, `ParseConfigOptions` and `GetScanFunction` in their order
(`Errors`, `Order`), a conflict that the secret manager finds, or a location that
cannot be read. A failed query is rolled back.

An `Answer` has what decides which secrets are made and how long it is cached:
a config with keys, without or none, an expiry or none, the prefixes of its
`storage-credentials`, and the places at which the code throws. A config beside
storage-credentials makes no secret (`UsesConfig`), but its expiry alone decides
how long the answer with both is cached (`Caches`).

Locations, files and scopes are texts, written as sequences of pieces that are
chosen so that a text is a prefix of another just if its pieces are. `Scope` is
what `irc_table_entry.cpp` makes: the location in lower case up to the first
"metadata", wherever that is, and an error if there is none. It does not depend
on the catalog and need not fit the table's files. The name of a secret
(`ConfigName`, `StorageName`) has the schema and the table and lacks the catalog.
The secret manager is external and modelled from how `GetScanFunction` relies on
it: a query sees what was committed before it began and what it created, a
conflict throws, and of the secrets whose scope is a prefix of a path one with
the longest scope is used (`LookupSecret`).

Time passes in ticks (`Tick`). The cache is an `unordered_map` without a lock: a
store beside another may be lost, a lookup beside a store may miss; that it may
crash is left out. `causes` and `began` record history for the properties and
guard no action.

## The runs

| Run | Shows | Bounds |
|---|---|---|
| `MCFileList` | `TypeOK`, `ExpandedInOrder`, `ManifestsAreSplit` | chunks of 2 rows; at most 2 manifests of at most 3 entries (ADDED or DELETED), and 3 smaller ones so that the manifest list has two chunks; callers ask up to 3 files ahead |
| `MCFileListSequential` | `NoMoreMeansAll`, `CallsReturn`, `ImplementsLazyFileList` | the same tables, callers ask for the next file only |
| `MCFileListExpand` | `FirstTwoExpanded` is violated | one manifest of at most 4 entries |
| `MCDeleteData` | `TypeOK`, `ResultIsExact`, `OnlyDeletesDropped`, `StableDeletes`, `ExecutionEnds` | 2 threads, chunks of 2 data files, chunks of 2 rows, small delete manifests with ADDED and DELETED entries, at most one failure, executions again without bound |
| `MCDeleteDataRetry` | `DeletesKnown` is violated | the same, with two delete manifests of one ADDED entry each |
| `MCTableFunctions` | `TypeOK`, `ImplementsRowStream`, `OnlyBoundariesSkipped` | at most 2 manifests of at most 3 entries, and 3 manifests of ADDED entries; up to 7 snapshots; chunks of 2 rows |
| `MCIcebergSnapshotsAll` | `ListsSnapshots` is violated | up to 16 snapshots, chunks of 3 |
| `MCVersionResolution` | `TypeOK`, `ReadsCurrentVersion`, `GuessFindsGreatest`, `FailsOnlyIfDisturbed` | one call; a writer that goes from version 8 to 11 and may remove every version but the current one |
| `MCTableSchema` | `TypeOK`, `SchemaTypeOK`, `LatestIsLatest`, `AsOfIsLatestBefore`, `IdIsFound`, `BindsCurrentSchema`, `EntryHasCurrentSchema`, `FailsForCause` | all arrays of at most 3 snapshots with 3 ids, numbers of 3 bits; 2 schemas; format versions 1 to 3; all types up to 3 levels deep over two leaves, all simple types under their names |
| `MCSnapshotSelectionEarly` | `TooEarlyFails` is violated | the same arrays |
| `MCCatalogSet` | `TypeOK`, `ReturnedStays`, `MissesOnlyIfOverlapped`, `CallsReturn` | 2 threads with 2 calls each, 2 listed names and one that is not; any request fails or not |
| `MCTableCredentials` | `TypeOK`, `ScanAuthorized`, `FailsOnlyWithCause` | 2 catalogs, one REST and one that is Glue, S3 Tables or REST at a host that is signed; 4 tables, of which two have one name, one a bucket named for metadata and one no "metadata" in its location; 3 assignments of answers; 2 user secrets, 2 connections with 2 queries in all, times 0 and 1, at most one failed request |

The chunk size is the bound that matters: with chunks of two rows and files of
three or four, a file ends inside a chunk, at its end and one row after it, and
a DELETED row is the first, the last or all of a chunk. The code treats every
further chunk like the second. Versions 8 to 11 take the digits from one to two,
where the order of names and of numbers part. Three snapshots are enough for
each to be looked at before, after and between others with an equal timestamp,
and numbers of three bits have both signs; the proofs do without both bounds.
Two threads with two calls each let a lookup meet the first load of another
thread, its own second use of a filled entry, and a failed load before it.

In `MCTableCredentials` queries begin when both catalogs are attached, and the
connections are symmetric. Tokens and credentials last one tick: an answer can
be cached by one query, found by another, and expire before, between and after
the two accesses; two queries are the least with which one can find what another
left, and one failed request can hit any request of ATTACH or of a query. The
answers (`MCDelegations`) have every kind of config and of
`storage-credentials`, both together, and every fault. The two tables of one
name are read by one query, and the files of the second lie below those of the
first, so scopes nest. That a cached value is replaced by one that has expired
already needs a third query; the proof covers it.

In `MCTableSchema` three levels are the least at which a
comma is nested in a type that is nested itself, and the two leaves are one with
a comma in its text and one without.

`CHECK_DEADLOCK FALSE` is used only where the system stops: a table function
that returned its last chunk, or a call that has returned.

### Fairness

A thread that has entered the extension runs on: `WF` of the steps of a call in
FileList, of each thread and of the end of an execution in DeleteData. Nothing
forces DuckDB to ask for another file or to execute a plan again. A table
function is called until it returns no rows, so IcebergMetadata has `WF` of all
its steps, the call included. `delete_lock` needs no strong fairness: an execution has
finitely many chunks, so the other threads stop taking the lock. In CatalogSet
`WF` of the steps of each thread is enough for the same reason: the calls of a
thread are finitely many. Safety in VersionResolution, TableSchema and TableCredentials
needs none, and no liveness is claimed there: nothing obliges a user to attach
a catalog again or a query to be repeated.

### What the violations show

* `FirstTwoExpanded`: `offset += count` in `ReadEntries`
  (`manifest_reader.cpp:58`) is right only when the slice was as long as the
  count. With a count of two or more and a DELETED row, live rows are passed
  over. `ProcessDeletes` reads with a count of `STANDARD_VECTOR_SIZE` and loses
  the delete files of a later chunk in the same way; the delete manifests of
  `MCDeleteData` that are longer than a chunk hold no DELETED entry, so that
  `ResultIsExact` can be asked apart from this. Callers that ask for the next
  file only use a count of one and are safe (`NoMoreMeansAll`, proved).
* `DeletesKnown`: the delete files that `ProcessDeletes` collected are a local,
  the iterator is a member (`iceberg_multi_file_reader.cpp:504`, `:525`); an
  exception loses the first and keeps the second. `ResultIsExact` therefore
  speaks of executions before the first failure only;
  `OnlyDeletesDropped` holds after failures too.
* `ListsSnapshots`: the iterator advances before the full chunk is noticed
  (`iceberg_snapshots.cpp:89-92`).
* `TooEarlyFails`: a timestamp before 1970 is negative, and the comparison with
  an unsigned number makes it large (`iceberg.cpp:328`): the scan reads the
  latest snapshot instead of failing.

What holds, but less than one may expect: `GuessFindsGreatest` is about the
order of names, in which `v9` comes after `v10`; `MissesOnlyIfOverlapped` allows
a lookup to miss a table that the catalog lists while another thread fills the
set, since a set with one entry counts as loaded (`irc_table_set.cpp:53`). It says
that failed requests leave the set usable and that nothing is missed by a lookup
that met no other thread; it is no check against loads that race.
`MCDeleteDataRetry` and `MCTableFunctions` say nothing of rows that are passed
over behind DELETED ones: the manifests of the first have one entry, and the
function of the second keeps DELETED rows.

`BindsCurrentSchema` says that a scan of an older snapshot has the columns of
the table's current schema, not those of the snapshot: the code does not look at
the schema of a snapshot. `FailsForCause` names what a catalog table cannot have:
a nested column in a catalog that answers as Iceberg's REST specification does,
since `ParseColumnDefinition` wants a string, columns of type `time`, `uuid` and
`fixed`, and, in a text, a decimal directly inside a map or a struct, whose comma
`TypeToLogicalType` takes for a separator. A scan by path reads all of them.

`ScanAuthorized` says whose keys a table is read with, and its conditions say for
which tables one may rely on that:

* `Placed`: one of the table's own scopes is the longest of those, of the secrets
  of any table of any catalog, that fit each of its files, and longer than
  `s3://`. Where scopes are equal, or none of its own fits, as with upper case
  letters or a metadata directory apart from the data, nothing is promised. The
  comment at `irc_table_entry.cpp:64` speaks of limiting the scope to the metadata
  location, but "metadata" may come earlier: tables in buckets named for metadata
  have the scope `s3://`, in different catalogs too.
* `Owned`: its config has keys of its own; for S3 Tables, where those of the
  catalog's secret are used, that secret is still there or no table's scope is all
  of `s3://`. Once the named secret is dropped, any of the user's may be
  used (`KeysOf`).
* `Alone`: when the query scans, none of its other tables has a secret of the same
  name. In a query of two tables of one name the second secret replaces the
  first before the first table is read. Each of them is bound with its own
  keys all the same, and what other connections and earlier queries did with the
  name does no harm.

It promises keys that had not expired when the query began, not keys that live
when the files are read; and not even that for `storage-credentials` beside a config
that expires, which the cache keeps as long as the config says (`KeptTooLong`).

`FailsOnlyWithCause` is about the failures with a cause elsewhere: a cached value
that is gone has expired or met a store (`HasCachedValue` and `GetCachedValue` each
read the clock, and the second throws an `InternalException`,
`irc_catalog.cpp:219`, although a request would have served the query); a REST catalog refuses only an expired
token, which nothing renews until it is attached again; AWS refuses only the keys
of a table, found because the catalog's secret is gone and a table's scope is
all of `s3://`; and no secret is found only if the user had none. A query
also fails for its own table's sake (an answer with a fault, such as a nested column,
a location without "metadata", a warehouse that is no ARN) and because a request
failed or another transaction created the same secret; these failures are steps of
the model, and the property says nothing of them.

## The proofs

**ManifestReaderProofs** has the lemmas about the reader that every user needs:
each step keeps the record well typed (`ReadLoopOK`, `ProduceEntryOK`,
`EndOfCallbackOK`, ...), the invariant `ReaderOK` of a reader between steps, and
when the offset never passes a row that was not looked at: `CountOneExact`, with
a count of one, and `WholeChunks`, with a count of a whole chunk and files whose
DELETED rows are all in their last chunk.

**FileListProofs** proves `TypeCorrect`, `FilesInOrder` and `SplitComplete` for
all tables, every vector size and every lookahead, from the assumptions
`VectorSizeAssumption`, `TablesAssumption` and `LookaheadAssumption`. `TypeOK`
and `ExpandedInOrder` are not inductive: what is expanded stays in order only
because the last file lies before the row that the reader looks at, which lies
in the manifest of the iterator, and manifests are in order in their list. The
inductive invariant `IInv` says this for each `pc`, together with how much of
the manifest list has been read and split. There is one lemma for each action.

For `Lookahead = 1` it goes on: every live row before the reader's position is
expanded (`OneInv`), from which `NothingIsLost` follows: `NoMoreMeansAll`. The
count of every `ReadEntries` is then one, and `CountOneExact` applies. With that,
`RefinesLazyFileList` shows step by step that the list implements the abstract
one: a call that returns a file returns the next live one, and no other step
changes what a caller sees. For a larger lookahead both theorems are false, as
`MCFileListExpand` shows, which is why they have the hypothesis.

**TableSchemaProofs** proves `TypeCorrect`, `LatestSelected`, `AsOfSelected` and
`IdSelected` for arrays of any length, any set of ids and numbers of any width,
from `RangeAssumption` and `TablesAssumption`. None of the last three says anything
while the loop runs. The inductive invariant `Inv` adds what the loop
has established about the prefix it has seen: `LatestSoFar` (the kept snapshot
is the latest of the prefix up to the limit, and `max_millis` is its
timestamp), `IdSoFar` (the only snapshot of the prefix with the id is the one
found), and `Outcome` (how the end of the loop depends on what it found, and
that a loop that found nothing has seen the whole array). `SelectsSnapshot` carries
them over to TableSchema: a query that is bound searches as SnapshotSelection
does.

Around the search, `BindsCurrent` proves `BindsCurrentSchema` for any tables, any
number of schemas and columns and types nested to any depth, from
`TypesAssumption`, `NumeralAssumption` and `WrittenAssumption`. Its core is
`TypesRead`: `ParseTypeValue` reads every type as it was meant. The parser and
`AsObject` are recursive functions over trees; that the defining equations hold
for them is proved by the least depth at which they could fail (`ObjectsDefined`,
`ParsedDefined`), and so is `TypesRead`, from the step `ParseStepRead` in which the
types inside are read right. `SchemaRead` adds the layouts of the document and
the search for the schema's id, and `StepsInv` what each step of a query has read:
the property alone says nothing before the last step. `StepsInOrder` proves
`SchemaTypeOK`.

The parser of a catalog finds the parts of a type by counting brackets in a
text. `EntryIsCurrent` (`EntryHasCurrentSchema`) and `FailsOnlyForCause`
(`FailsForCause`) say that it finds those that were put there, for texts nested
to any depth and structs of any number of members, with `NameAssumption` besides
the assumptions above. The argument has four parts:

* A text is `Closed`: its brackets balance and no prefix closes more than it has
  opened. A closed text within another one nests as it does by itself
  (`NestingStands`), and only the commas of `TopCommas` separate. `TextsClosed`
  shows that the text of every type is closed and that of no type but a decimal
  has such a comma.
* `Joins` says where each text ends in the row that `Joined` makes of them.
  Without commas of their own the texts are the `Children` again
  (`JoinsChildren`). A decimal in a map adds a child (`MapNotRead`), and in a
  struct the child behind its comma has no colon (`StructNotRead`): both throw.
* `CatalogStepRead`: a type is read from its text if its parts are, unless it is
  `Unknown`. `CatalogReads` follows by the depth of types, and says exactly which
  texts throw: those of types with a part that is unknown.
* `TypeToLogicalType` is a recursive function over texts. That its equation
  holds is proved by their length: every text that a step looks at is shorter
  (`TypeOfTextShorter`, `CatalogDefined`).

`EntryRead` puts the columns together for both kinds of answers, and `Filled` is
the step that fills the entry.

**DeleteDataProofs** proves `TypeCorrect`, `DeletesAreStable` (`StableDeletes`)
and `OnlyDeletedDropped` (`OnlyDeletesDropped`) for any threads, chunks,
manifests, vector size, comparison of paths and number of failures, from
`ThreadsAssumption`, `ChunksAssumption`, `ManifestsAssumption`,
`FailuresAssumption` and `VectorSizeAssumption`. The inductive invariant `Inv`
has a part for each piece of the argument, and a lemma shows that each part is
kept by every action:

* `Locks`: a thread is inside the lock exactly when it holds it.
* `ReaderInv`: while the reader has a manifest open, it is the one that the
  iterator points to, so a row of the reader is an entry of that manifest.
* `ListInv`: the collected delete files are live entries, so what is added to
  `delete_data` is a live delete.
* `PastManifests`: a thread at the lookup or past it is behind the last
  manifest, so another thread that takes the lock has nothing to process. This
  is why the pointer that `Apply` uses without the lock is safe.
* `ThreadInv`: the rows that `Apply` is past are kept or deleted.
* `QueryInv`: each chunk of an execution that has not failed waits, is at work,
  or is passed on with all rows but deleted ones.

`ExactResult` proves `ResultIsExact` from two more hypotheses, and is false
without either: `KeysDiffer`, no two data files have paths that differ in case
only, since `delete_data` does not tell such paths apart; and
`DeletedEntriesLast`, the DELETED entries of a delete manifest are in its last
chunk, since `ReadEntries` loses rows behind any other (`FirstTwoExpanded`). A
manifest without DELETED entries, or not longer than a chunk, is of this kind.
`ExactInv` adds that an execution before the first failure has read its manifests
without a gap and that all deletes of what it collected are added when a thread
leaves the lock. `KnownUntilFailure` is the half of `DeletesKnown` that is true: up
to the first exception a chunk is filtered only when all deletes are known.

**TableFunctionsProofs** is about the composed table functions, for all tables,
any number of snapshots and every vector size, from `VectorSizeAssumption`,
`TablesAssumption` and `CountsAssumption`.
`LoadInv` says that `Load` has read the manifest list and the manifests in order
without a gap; `FunctionInv` that what was returned, with the chunk that is being
filled, is a prefix of the rows of the table, and that the two indexes stand at its
end. From them come `TypeCorrect` and `RefinesRowStream`, the safety part of
`ImplementsRowStream`: each chunk is full or the rest, and the first empty one
comes after the last row. `LosesOnlyAtBoundaries` is `OnlyBoundariesSkipped` from
`SnapshotsInv`: with chunks of V snapshots the j-th one returned is the
(j + (j - 1) \div V)-th of the table. The lemmas about `FlattenSeq`, which is a
recursive function, are proved by looking at the least natural number for which
they fail (`LeastNatural`).

**CatalogSetProofs** proves `TypeCorrect`, `PointersStay` (`ReturnedStays`) and
`LookupsFind` (`MissesOnlyIfOverlapped`) for any threads, names and number of
calls, from `NamesAssumption`, `CallsAssumption` and `NoThreadAssumption`. Its
`Inv` adds `ScanHolds` (a scan holds the lock through its load: `TypeOK` is not
inductive without it), `Filling` (the name that is filled is in the map),
`SchemasFilled`, and `Loaded`: unless threads met in the map, what a load has
not inserted yet is still pending, a set with entries is complete or has a
thread that completes it, and who is past the load sees all entries.

**TableCredentialsProofs** proves `TypeCorrect`, `ScansAreAuthorized`
(`ScanAuthorized`) and `FailuresHaveCauses` (`FailsOnlyWithCause`) for any
catalogs, tables, locations, files, connections, secrets, answers, lifetimes and
bounds, from the assumptions of CatalogAttach and TableCredentials. Neither
property speaks of the steps before a scan or a failure; the inductive invariant
`Inv` does:

* `Configured`: an attached catalog has the prefix that it serves, so a request
  of a query is refused only for its token or its secret.
* `Begun`: a query runs only while all catalogs are attached, and between
  queries a connection holds nothing.
* `CacheExpiring` and `AnswerFresh`: what is cached has an expiry in its config, and
  an answer that secrets are made from had not expired when the query began,
  from the cache or not.
* `ValueFound`: a value that `HasCachedValue` found is still there, or the
  reason why not is recorded.
* `SecretsMade`: every secret of a table, committed or seen by a query, has the
  name and the scope of one of `TableSecrets` for some table.
* `BeingBound`: as many of the secrets of the table in hand as `made` counts are
  there, with the keys that the table is to be read with, made from an answer that
  was fresh.
* `BoundHaveSecrets`: they stay until the query ends, unless a table of the
  same name comes after it.

From the last three the theorem follows. `Longest`: of finitely many scopes that
fit a file one is the longest, so some secret is chosen (`LookupFinds`). It is no
other table's and no user's, as `Placed` makes each of these shorter than an own one
(`OwnSecretChosen`), and an own secret has the keys of `KeysOf` (`NewSecretGood`).
`FailuresHaveCauses` needs that a secret found for `s3://` which is not the user's
is a table's with such a scope (`TableKeysFound`, `RefusedHasCause`), and that
without a user's secret none is found (`NoneFound`).

**VersionResolutionProofs** proves `TypeCorrect`, `HintIsFollowed`
(`ReadsCurrentVersion`), `GuessIsGreatest` (`GuessFindsGreatest`) and
`FailuresExplained` (`FailsOnlyIfDisturbed`) for any number of versions and any
retention, from `VersionsAssumption`. `ReadsCurrentVersion` is about the end of a call; the
inductive invariant `Inv` says what leads there: the hint names the current
version or nothing (`WriterInv`), only a call that may guess looks at the
directory (`GlobIfGuessing`), and the version that a call has taken from the hint
was current since the call began, which no later step of the writer undoes
(`FollowsHint`).

The other two need to know about names. `Digits` is a recursive function; that
the defining equation holds for it, and that different versions have different
digits, is proved by least counterexample (`DigitsDefined`, `DigitsDiffer`). The
comparison of names is then a strict total order (`LexAsymmetric`, `LexTransitive`,
`LexTotal`), so each set of files that the writer can leave has a last name
(`LastExists`, which adding a file and removing some preserve). `FilesInv` says that
the file of the current version is there, all files are of one style and every
set of them has a last name, `UndisturbedInv` that a call that nothing disturbed still finds what it
began with, and `CallInv` what led to each failure.

Every invariant and action property of a passing run has its theorem.
Model-checked only is liveness, which is beyond the provers: `CallsReturn` of both
modules, `ExecutionEnds`, and that a table function ends, the fairness part of
`ImplementsRowStream`.

`SMTT(n)` or `ZenonT(n)` in a `BY` names a backend and allows it n seconds. It
stands at the leaves that take longest, so that the proofs do not depend on the
speed of the machine.

## What is left

The parts that keep state are modelled. What could be added:

1. Paths: `allow_moved_paths`, which is applied to data files and manifests but
   not to delete files, and the comparison of paths without case.
2. Files that are overwritten in place while they are read.
