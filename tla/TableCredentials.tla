-------------------------- MODULE TableCredentials --------------------------
(***************************************************************************)
(* Queries of tables in attached catalogs: FillEntry loads a table when it  *)
(* is looked up first, and GetScanFunction gets the credentials for its     *)
(* files, from the metadata cache of the catalog or by a request, and       *)
(* creates secrets from them before the table is bound                      *)
(* (src/src/storage/irc_table_entry.cpp, src/src/storage/irc_table_set.cpp, *)
(* src/src/catalog_api.cpp, src/src/storage/irc_catalog.cpp).  Connections  *)
(* run queries beside each other; credentials expire, and the cache, an     *)
(* unordered_map, has no lock.                                              *)
(*                                                                         *)
(* DuckDB's secret manager and transactions are external: a query sees the  *)
(* secrets committed before it began and its own, and may not replace one   *)
(* that another has replaced meanwhile; of the secrets whose scope is a     *)
(* prefix of a path, one with the longest scope is used.                    *)
(*                                                                         *)
(* A path is a sequence of pieces of text.  The pieces are chosen so that a *)
(* text is a prefix of another just if its pieces are, and "metadata" is    *)
(* found in a text just where it is a piece in lower case.                  *)
(*                                                                         *)
(* Accesses of the map that race are undefined: a store beside another may  *)
(* be lost, and a lookup beside a store may miss.  What was stored is not   *)
(* torn and nothing crashes in the model.                                   *)
(***************************************************************************)
EXTENDS CatalogAttach, Sequences, SequencesExt

CONSTANTS
    Connections,
    Tables,
    CatalogOf,      \* the catalog that lists a table
    SchemaOf,       \* the schema of that catalog that has it
    NameOf,         \* the name of a table in the secrets: schema and table
    Location,       \* where its metadata file is
    Files,          \* what a scan of it reads, the metadata file too
    Lower,          \* the pieces of text, each with its lower case
    Metadata,       \* the piece "metadata"
    Root,           \* the path s3://
    Delegations,    \* what the catalogs may answer about each table
    Queries,        \* the sets of tables that queries read
    NoKeys,
    NoTable,
    MaxQueries      \* bound: queries of all connections

Path == Seq(DOMAIN Lower)

\* What matters of the answer about a table: whether it has a config, with
\* keys, with an expiry; the prefixes of its storage-credentials; and what in
\* it the code throws at: an "expiry" that is no number, "metadata" without
\* the current schema or with a column it cannot parse, "options" with an
\* unknown path style, storage-credentials without "prefix".
Answer == [config : {"none", "settings", "keys"}, expiring : BOOLEAN,
           storage : Seq(Path),
           faults : SUBSET {"expiry", "metadata", "options", "prefix"}]

\* The base name of the secrets of t, and the one for storage-credential i.
ConfigName(t) == <<NameOf[t]>>
StorageName(t, i, prefix) == <<NameOf[t], i, prefix>>

SecretNames ==
    {ConfigName(t) : t \in Tables}
    \cup UNION {{StorageName(t, i, d[t].storage[i]) : i \in DOMAIN d[t].storage}
                   : d \in Delegations, t \in Tables}

ASSUME CatalogOfAssumption == CatalogOf \in [Tables -> Catalogs]
ASSUME PathsAssumption == /\ \A p \in DOMAIN Lower : Lower[p] \in DOMAIN Lower
                          /\ Location \in [Tables -> Path]
                          /\ \A t \in Tables : Files[t] \subseteq Path
                          /\ Root \in Path
ASSUME DelegationsAssumption ==
    \A d \in Delegations : /\ d \in [Tables -> Answer]
                           /\ \A t \in Tables :
                                 d[t].expiring => d[t].config # "none"
ASSUME QueriesAssumption == Queries \subseteq (SUBSET Tables) \ {{}}
ASSUME DistinctAssumption == /\ NoTable \notin Tables
                             /\ NoKeys \notin Tables \cup UserSecrets
                             /\ Tables \cap UserSecrets = {}
ASSUME MaxQueriesAssumption == MaxQueries \in Nat

VARIABLES
    delegation,     \* what the catalogs answer about each table
    filled,         \* the tables whose entry has been filled
    metadata_cache, \* when the cached answer for a table expires, 0: none
    secrets,        \* the committed secrets that were made for tables
    pc,
    table,          \* the table that a query is binding
    todo,           \* the tables that it has still to bind
    bound,
    response,       \* when the credentials of the answer at hand expire
    made,           \* how many of the table's secrets have been created
    seen,           \* the user's secrets as the query's transaction sees them
    visible,        \* the others as it sees them
    created,        \* the names of those that it created
    changed,        \* the names that others committed since it began
    queries,        \* how many queries began
    began,          \* when the query began
    error,          \* what it threw
    causes          \* what happened to the cached answer it had found

queryVars == <<table, todo, bound, response, made, seen, visible, created,
               changed, queries, began, error, causes>>
sharedVars == <<delegation, filled, metadata_cache, secrets>>
vars == <<attachVars, sharedVars, pc, queryVars>>

\* When the keys in config and in the storage-credentials expire; what has
\* no expiry is Forever.  0: there is no answer.
Time == 0 .. Forever
Times == [config : Time, storage : Time]
NoTimes == [config |-> 0, storage |-> 0]

\* A secret: whose keys, until when, and the path that is its scope.
Secret == [keys : Tables \cup UserSecrets \cup {NoKeys}, expires : Time,
           endpoint : {"own", "aws"}, scope : Path]
NoSecret == [keys |-> NoKeys, expires |-> 0, endpoint |-> "own", scope |-> <<>>]
UserSecret(s) == [keys |-> s, expires |-> Forever, endpoint |-> "own",
                  scope |-> Root]

Error == {"none", "request", "refused", "secret", "expiry", "metadata",
          "options", "prefix", "substring", "warehouse", "conflict", "cached",
          "bind"}

\* Where a query has a table in hand.
AtTable == {"fill", "filled", "has", "get", "fetch", "fetched", "create"}

TypeOK ==
    /\ AttachTypeOK
    /\ delegation \in Delegations
    /\ filled \subseteq Tables
    /\ metadata_cache \in [Tables -> Times]
    /\ secrets \in [SecretNames -> Secret]
    /\ pc \in [Connections -> AtTable \cup {"idle", "lookup", "scan", "failed"}]
    /\ table \in [Connections -> Tables \cup {NoTable}]
    /\ todo \in [Connections -> SUBSET Tables]
    /\ bound \in [Connections -> SUBSET Tables]
    /\ response \in [Connections -> Times]
    /\ made \in [Connections -> Nat]
    /\ seen \in [Connections -> SUBSET UserSecrets]
    /\ visible \in [Connections -> [SecretNames -> Secret]]
    /\ created \in [Connections -> SUBSET SecretNames]
    /\ changed \in [Connections -> SUBSET SecretNames]
    /\ queries \in 0 .. MaxQueries
    /\ began \in [Connections -> 0 .. MaxTime]
    /\ error \in [Connections -> Error]
    /\ causes \in [Connections -> SUBSET {"expiry", "overlap"}]
    /\ \A c \in Catalogs : catalogs[c].at \in {"config", "attached"}
          => catalogs[c].catalog_type = "OTHER" <=> catalogs[c].token # 0
    /\ \A q \in Connections :
          /\ todo[q] \cap bound[q] = {}
          /\ pc[q] = "idle" => table[q] = NoTable /\ created[q] = {}
          /\ pc[q] \in AtTable => table[q] \in todo[q]
          /\ pc[q] = "failed" <=> error[q] # "none"

Init ==
    /\ AttachInit
    /\ delegation \in Delegations
    /\ filled = {}
    /\ metadata_cache = [t \in Tables |-> NoTimes]
    /\ secrets = [n \in SecretNames |-> NoSecret]
    /\ pc = [q \in Connections |-> "idle"]
    /\ table = [q \in Connections |-> NoTable]
    /\ todo = [q \in Connections |-> {}]
    /\ bound = [q \in Connections |-> {}]
    /\ response = [q \in Connections |-> NoTimes]
    /\ made = [q \in Connections |-> 0]
    /\ seen = [q \in Connections |-> {}]
    /\ visible = [q \in Connections |-> [n \in SecretNames |-> NoSecret]]
    /\ created = [q \in Connections |-> {}]
    /\ changed = [q \in Connections |-> {}]
    /\ queries = 0
    /\ began = [q \in Connections |-> 0]
    /\ error = [q \in Connections |-> "none"]
    /\ causes = [q \in Connections |-> {}]

Goto(q, label) == pc' = [pc EXCEPT ![q] = label]
CatalogOfTable(q) == catalogs[CatalogOf[table[q]]]

-----------------------------------------------------------------------------
(* A query begins and ends *)

\* Queries begin when all catalogs are attached.
Begin(q) ==
    /\ pc[q] = "idle"
    /\ queries < MaxQueries
    /\ queries' = queries + 1
    /\ \A c \in Catalogs : catalogs[c].at = "attached"
    /\ \E tables \in Queries : todo' = [todo EXCEPT ![q] = tables]
    /\ seen' = [seen EXCEPT ![q] = userSecrets]
    /\ visible' = [visible EXCEPT ![q] = secrets]
    /\ began' = [began EXCEPT ![q] = now]
    /\ Goto(q, "lookup")
    /\ UNCHANGED <<attachVars, sharedVars, table, bound, response, made,
                   created, changed, error, causes>>

Leave(q) ==
    /\ Goto(q, "idle")
    /\ table' = [table EXCEPT ![q] = NoTable]
    /\ todo' = [todo EXCEPT ![q] = {}]
    /\ bound' = [bound EXCEPT ![q] = {}]
    /\ response' = [response EXCEPT ![q] = NoTimes]
    /\ made' = [made EXCEPT ![q] = 0]
    /\ seen' = [seen EXCEPT ![q] = {}]
    /\ visible' = [visible EXCEPT ![q] = [n \in SecretNames |-> NoSecret]]
    /\ created' = [created EXCEPT ![q] = {}]
    /\ began' = [began EXCEPT ![q] = 0]
    /\ error' = [error EXCEPT ![q] = "none"]
    /\ causes' = [causes EXCEPT ![q] = {}]

\* The tables are read and the transaction commits.
Commit(q) ==
    /\ pc[q] = "scan"
    /\ secrets' = [n \in SecretNames |-> IF n \in created[q]
                                        THEN visible[q][n] ELSE secrets[n]]
    /\ changed' = [u \in Connections |->
                     IF u = q \/ pc[u] = "idle" THEN {}
                     ELSE changed[u] \cup created[q]]
    /\ Leave(q)
    /\ UNCHANGED <<attachVars, delegation, filled, metadata_cache, queries>>

\* The transaction of a query that failed is rolled back.
RollBack(q) ==
    /\ pc[q] = "failed"
    /\ changed' = [changed EXCEPT ![q] = {}]
    /\ Leave(q)
    /\ UNCHANGED <<attachVars, sharedVars, queries>>

Throw(q, what) ==
    /\ Goto(q, "failed")
    /\ error' = [error EXCEPT ![q] = what]

-----------------------------------------------------------------------------
(* Secrets *)

\* The text of a path in lower case, and where "metadata" is found in it.
LowerCase(path) == [i \in DOMAIN path |-> Lower[path[i]]]
Cuts(t) == {i \in DOMAIN Location[t] : LowerCase(Location[t])[i] = Metadata}

\* The scope of a secret made from config: what of the location in lower case
\* is before the first "metadata".
Scope(t) == SubSeq(LowerCase(Location[t]), 1, Min(Cuts(t)) - 1)

\* A secret is made from config only if there are no storage-credentials.
UsesConfig(t) == /\ delegation[t].config # "none"
                 /\ delegation[t].storage = <<>>

\* The secrets that are created for t, in order.
TableSecrets(t) ==
    IF UsesConfig(t)
    THEN IF Cuts(t) = {} THEN <<>>
         ELSE <<[name |-> ConfigName(t), scope |-> Scope(t)]>>
    ELSE [i \in DOMAIN delegation[t].storage |->
            [name |-> StorageName(t, i, delegation[t].storage[i]),
             scope |-> delegation[t].storage[i]]]

\* The secrets that the query's transaction sees, and those of them that the
\* secret manager may choose for a path.
Visible(q) == {UserSecret(s) : s \in seen[q]}
              \cup ({visible[q][n] : n \in SecretNames} \ {NoSecret})

LookupSecret(q, path) ==
    LET fitting == {s \in Visible(q) : IsPrefix(s.scope, path)}
    IN  {s \in fitting : \A o \in fitting : Len(o.scope) <= Len(s.scope)}

\* IRCatalog::GetSecret in a query, where secrets made for tables are found
\* too.  Empty: it throws.
SecretsFor(q) ==
    LET name == CatalogOfTable(q).secret_name
    IN  IF name \in seen[q] THEN {UserSecret(name)} ELSE LookupSecret(q, Root)

-----------------------------------------------------------------------------
(* Looking a table up, and the requests for it *)

\* A lookup in the tables of a schema waits for one that fills an entry, which
\* holds the lock of the set.
Locked(t) == \E u \in Connections : /\ pc[u] \in {"fill", "filled"}
                                    /\ SchemaOf[table[u]] = SchemaOf[t]
                                    /\ CatalogOf[table[u]] = CatalogOf[t]

Lookup(q) ==
    /\ pc[q] = "lookup"
    /\ \E t \in todo[q] :
          /\ ~Locked(t)
          /\ table' = [table EXCEPT ![q] = t]
          /\ Goto(q, IF t \in filled THEN "has" ELSE "fill")
    /\ UNCHANGED <<attachVars, sharedVars, todo, bound, response, made, seen,
                   visible, created, changed, queries, began, error, causes>>

\* A catalog serves its tables under the prefix of its overrides, or that of
\* its defaults if there is none.
ServedPrefix(c) ==
    IF Overrides[c] = NoPrefix THEN Defaults[c] ELSE Overrides[c]

\* As Authorized, with the secrets that the query sees.
Served(q) == /\ IF IsAws(CatalogOfTable(q)) THEN SecretsFor(q) # {}
                ELSE now < CatalogOfTable(q).token
             /\ CatalogOfTable(q).prefix = ServedPrefix(CatalogOf[table[q]])

\* The catalog sends keys that last at least one tick.
Expiries(t, time) ==
    [config |-> IF delegation[t].expiring THEN time.config ELSE Forever,
     storage |-> IF delegation[t].storage # <<>> THEN time.storage ELSE Forever]

\* GetTableMetadata sends its request.
Request(q) ==
    /\ pc[q] \in {"fill", "fetch"}
    /\ Served(q)
    /\ \E config, storage \in now + 1 .. now + Lifetime :
          response' = [response EXCEPT ![q] =
             Expiries(table[q], [config |-> config, storage |-> storage])]
    /\ Goto(q, IF pc[q] = "fill" THEN "filled" ELSE "fetched")
    /\ UNCHANGED <<attachVars, sharedVars, table, todo, bound, made, seen,
                   visible, created, changed, queries, began, error, causes>>

\* The catalog does not know the prefix, or not the token; AWS may refuse what
\* is signed with the keys of a table.
Refused(q) ==
    \/ CatalogOfTable(q).prefix # ServedPrefix(CatalogOf[table[q]])
    \/ IF IsAws(CatalogOfTable(q))
       THEN \E s \in SecretsFor(q) : s.keys \notin UserSecrets
       ELSE CatalogOfTable(q).token <= now

\* A request fails, or there is no secret to sign it with, or the catalog
\* answers with an error, which api_result_to_doc throws.
RequestThrows(q) ==
    /\ pc[q] \in {"fill", "fetch"}
    /\ \/ RequestFails /\ Throw(q, "request")
       \/ /\ IsAws(CatalogOfTable(q)) /\ SecretsFor(q) = {}
          /\ Throw(q, "secret")
          /\ UNCHANGED failures
       \/ /\ Refused(q)
          /\ Throw(q, "refused")
          /\ UNCHANGED failures
    /\ UNCHANGED <<now, userSecrets, catalogs, sharedVars, table, todo, bound,
                   response, made, seen, visible, created, changed, queries,
                   began, causes>>

-----------------------------------------------------------------------------
(* The metadata cache *)

\* SetCachedValue keeps only what has a config with an expiry, and throws if
\* that is no number.
BadExpiry(t) == delegation[t].expiring /\ "expiry" \in delegation[t].faults
Caches(t) == delegation[t].expiring /\ ~BadExpiry(t)

\* Another connection is storing into the cache of the same catalog.
Racing(q) == \E u \in Connections \ {q} :
                 /\ pc[u] \in {"filled", "fetched"}
                 /\ Caches(table[u])
                 /\ CatalogOf[table[u]] = CatalogOf[table[q]]

\* The connections that have found a value of t and will fetch it next.
Reading(t) == {u \in Connections : pc[u] = "get" /\ table[u] = t}

SetCachedValue(q) ==
    LET t == table[q]
    IN  \/ /\ Caches(t)
           /\ metadata_cache' = [metadata_cache EXCEPT ![t] = response[q]]
           /\ causes' = IF response[q].config > now THEN causes
                        ELSE [u \in Connections |->
                                IF u \in Reading(t)
                                THEN causes[u] \cup {"expiry"} ELSE causes[u]]
        \/ /\ Caches(t) => Racing(q)
           /\ UNCHANGED <<metadata_cache, causes>>

\* The end of GetTableMetadata.  FillEntry goes on and fills the entry,
\* GetTableMetadataCached returns.
Store(q) ==
    LET t == table[q]
    IN  /\ pc[q] \in {"filled", "fetched"}
        /\ ~BadExpiry(t)
        /\ SetCachedValue(q)
        /\ \/ /\ pc[q] = "filled"
              /\ "metadata" \notin delegation[t].faults
              /\ filled' = filled \cup {t}
              /\ response' = [response EXCEPT ![q] = NoTimes]
              /\ Goto(q, "has")
           \/ /\ pc[q] = "fetched"
              /\ UNCHANGED <<filled, response>>
              /\ Goto(q, "create")
        /\ UNCHANGED <<attachVars, delegation, secrets, table, todo, bound,
                       made, seen, visible, created, changed, queries, began,
                       error>>

\* The expiry is no number; or FillEntry throws at the metadata, with the
\* answer in the cache and the entry as it was.
StoreThrows(q) ==
    LET t == table[q]
    IN  /\ \/ /\ pc[q] \in {"filled", "fetched"}
              /\ BadExpiry(t)
              /\ Throw(q, "expiry")
              /\ UNCHANGED <<metadata_cache, causes>>
           \/ /\ pc[q] = "filled"
              /\ ~BadExpiry(t)
              /\ "metadata" \in delegation[t].faults
              /\ SetCachedValue(q)
              /\ Throw(q, "metadata")
        /\ UNCHANGED <<attachVars, delegation, filled, secrets, table, todo,
                       bound, response, made, seen, visible, created, changed,
                       queries, began>>

\* Mutant of Live: a value counts until it is replaced.
EverCached(t) == metadata_cache[t].config # 0

\* The test of HasCachedValue.
Live(t) == metadata_cache[t].config > now

HasCachedValue(q) ==
    /\ pc[q] = "has"
    /\ \/ Live(table[q]) /\ Goto(q, "get")
       \/ (Live(table[q]) => Racing(q)) /\ Goto(q, "fetch")
    /\ UNCHANGED <<attachVars, sharedVars, queryVars>>

\* GetCachedValue looks the value up and tests it again.
GetCachedValue(q) ==
    /\ pc[q] = "get"
    /\ metadata_cache[table[q]].config > now
    /\ response' = [response EXCEPT ![q] = metadata_cache[table[q]]]
    /\ causes' = [causes EXCEPT ![q] = {}]
    /\ Goto(q, "create")
    /\ UNCHANGED <<attachVars, sharedVars, table, todo, bound, made, seen,
                   visible, created, changed, queries, began, error>>

\* "Cached value does not exist"
GetCachedValueThrows(q) ==
    /\ pc[q] = "get"
    /\ metadata_cache[table[q]].config > now => Racing(q)
    /\ Throw(q, "cached")
    /\ causes' = [causes EXCEPT ![q] = IF Racing(q) THEN @ \cup {"overlap"}
                                       ELSE @]
    /\ UNCHANGED <<attachVars, sharedVars, table, todo, bound, response, made,
                   seen, visible, created, changed, queries, began>>

-----------------------------------------------------------------------------
(* GetTableCredentials and GetScanFunction *)

IsGlue(catalog) == catalog.host \in {"glue", "gluelike"}
IsS3Tables(catalog) == catalog.host \in {"s3tables", "s3tableslike"}

\* What they may throw before a secret is created: there is none to take the
\* region from, ParseConfigOptions does not know the path style, a
\* storage-credential has no prefix, the location has no "metadata", or the
\* warehouse of an S3 Tables host is no ARN to take the region from.
Errors(q) ==
    LET t == table[q]
        answer == delegation[t]
    IN  {e \in {"secret", "options", "prefix", "substring", "warehouse"} :
           \/ e = "secret" /\ SecretsFor(q) = {}
           \/ /\ e = "options" /\ e \in answer.faults
              /\ answer.config # "none" \/ answer.storage # <<>>
           \/ e = "prefix" /\ e \in answer.faults /\ answer.storage # <<>>
           \/ e = "substring" /\ UsesConfig(t) /\ Cuts(t) = {}
           \/ /\ e = "warehouse" /\ UsesConfig(t)
              /\ IsS3Tables(CatalogOfTable(q))
              /\ CatalogOfTable(q).warehouse # "arn"}

\* The order in which they are found; each of the storage-credentials has its
\* own path style.
Order == [secret |-> 1, options |-> 2, prefix |-> 2, substring |-> 3,
          warehouse |-> 4]

StorageSecret(t, answer, scope) ==
    [keys |-> t, expires |-> answer.storage, endpoint |-> "own", scope |-> scope]

\* Keys, if config has any; the endpoint is overridden for glue, all options
\* are for s3tables, by those of the secret found.
ConfigSecret(t, catalog, answer, found) ==
    [keys |-> IF IsS3Tables(catalog) THEN found.keys
              ELSE IF delegation[t].config = "keys" THEN t ELSE NoKeys,
     expires |-> IF IsS3Tables(catalog) THEN found.expires ELSE answer.config,
     endpoint |-> IF IsGlue(catalog) \/ IsS3Tables(catalog) THEN "aws"
                  ELSE "own",
     scope |-> Scope(t)]

\* Another transaction has created the secret, or did since this one began.
Conflict(q, name) ==
    name \in changed[q] \cup UNION {created[u] : u \in Connections \ {q}}

\* Mutant of CreateSecret: IGNORE_ON_CONFLICT.
KeepSecret(q, name, secret) ==
    /\ visible' = [visible EXCEPT ![q][name] = IF @ = NoSecret THEN secret
                                              ELSE @]
    /\ created' = [created EXCEPT ![q] = @ \cup {name}]

\* SecretManager::CreateSecret with REPLACE_ON_CONFLICT.
CreateSecret(q, name, secret) ==
    /\ visible' = [visible EXCEPT ![q][name] = secret]
    /\ created' = [created EXCEPT ![q] = @ \cup {name}]

\* All secrets of the table in hand have been created.
AllMade(q) == made[q] = Len(TableSecrets(table[q]))

\* The next secret of the table is created.
CreateTableSecret(q) ==
    LET t == table[q]
        next == TableSecrets(t)[made[q] + 1]
    IN  /\ pc[q] = "create"
        /\ ~AllMade(q)
        /\ made[q] = 0 => Errors(q) = {}
        /\ ~Conflict(q, next.name)
        /\ \/ /\ UsesConfig(t)
              /\ \E found \in SecretsFor(q) :
                    CreateSecret(q, next.name,
                       ConfigSecret(t, CatalogOfTable(q), response[q], found))
           \/ /\ ~UsesConfig(t)
              /\ CreateSecret(q, next.name,
                    StorageSecret(t, response[q], next.scope))
        /\ made' = [made EXCEPT ![q] = @ + 1]
        /\ UNCHANGED <<attachVars, sharedVars, pc, table, todo, bound, response,
                       seen, changed, queries, began, error, causes>>

\* iceberg_scan is bound to the location, whose metadata it reads.
BindScan(q) ==
    /\ pc[q] = "create"
    /\ AllMade(q)
    /\ made[q] = 0 => Errors(q) = {}
    /\ bound' = [bound EXCEPT ![q] = @ \cup {table[q]}]
    /\ todo' = [todo EXCEPT ![q] = @ \ {table[q]}]
    /\ table' = [table EXCEPT ![q] = NoTable]
    /\ response' = [response EXCEPT ![q] = NoTimes]
    /\ made' = [made EXCEPT ![q] = 0]
    /\ Goto(q, IF todo[q] = {table[q]} THEN "scan" ELSE "lookup")
    /\ UNCHANGED <<attachVars, sharedVars, seen, visible, created, changed,
                   queries, began, error, causes>>

\* The first of the errors above, a conflict that the secret manager finds, or the
\* location that cannot be read.
GetScanFunctionThrows(q) ==
    /\ pc[q] = "create"
    /\ \/ /\ made[q] = 0
          /\ \E e \in Errors(q) : /\ \A o \in Errors(q) : Order[e] <= Order[o]
                                 /\ Throw(q, e)
          /\ UNCHANGED failures
       \/ /\ ~AllMade(q)
          /\ made[q] = 0 => Errors(q) = {}
          /\ Conflict(q, TableSecrets(table[q])[made[q] + 1].name)
          /\ Throw(q, "conflict")
          /\ UNCHANGED failures
       \/ /\ AllMade(q)
          /\ made[q] = 0 => Errors(q) = {}
          /\ RequestFails
          /\ Throw(q, "bind")
    /\ UNCHANGED <<now, userSecrets, catalogs, sharedVars, table, todo, bound,
                   response, made, seen, visible, created, changed, queries,
                   began, causes>>

-----------------------------------------------------------------------------

Tick ==
    /\ now < MaxTime
    /\ now' = now + 1
    /\ causes' = [q \in Connections |->
                    IF /\ pc[q] = "get"
                       /\ metadata_cache[table[q]].config = now'
                    THEN causes[q] \cup {"expiry"} ELSE causes[q]]
    /\ UNCHANGED <<userSecrets, failures, catalogs, sharedVars, pc, table, todo,
                   bound, response, made, seen, visible, created, changed,
                   queries, began, error>>

Step(q) == \/ Lookup(q)
           \/ Request(q)
           \/ RequestThrows(q)
           \/ Store(q)
           \/ StoreThrows(q)
           \/ HasCachedValue(q)
           \/ GetCachedValue(q)
           \/ GetCachedValueThrows(q)
           \/ CreateTableSecret(q)
           \/ BindScan(q)
           \/ GetScanFunctionThrows(q)
           \/ Commit(q)
           \/ RollBack(q)

Next == \/ /\ \/ \E c \in Catalogs : AttachStep(c)
              \/ \E s \in UserSecrets : DropSecret(s)
           /\ UNCHANGED <<sharedVars, pc, queryVars>>
        \/ Tick
        \/ \E q \in Connections : Begin(q) \/ Step(q)

Spec == Init /\ [][Next]_vars

-----------------------------------------------------------------------------
(* Properties *)

\* The keys that t is to be read with: its own, or those of the catalog's
\* secret if they take the place of those in config.
KeysOf(q, t) ==
    LET catalog == catalogs[CatalogOf[t]]
    IN  IF ~(UsesConfig(t) /\ IsS3Tables(catalog)) THEN {t}
        ELSE IF catalog.secret_name \in seen[q] THEN {catalog.secret_name}
             ELSE seen[q]

\* The cache keeps storage-credentials as long as the keys in config last.
KeptTooLong(t) == delegation[t].expiring /\ delegation[t].storage # <<>>

\* Whatever secret is chosen for a file of t has keys that t is to be read
\* with, which had not expired when the query began.
ReadsOwn(q, t) ==
    \A file \in Files[t] :
        /\ LookupSecret(q, file) # {}
        /\ \A s \in LookupSecret(q, file) :
              /\ s.keys \in KeysOf(q, t)
              /\ KeptTooLong(t) \/ s.expires > began[q]

SecretsOf(t) == ToSet(TableSecrets(t))
NamesOf(t) == {s.name : s \in SecretsOf(t)}

\* The secrets of all tables, of any catalog, but those with the names of t's.
OtherSecrets(t) == {s \in UNION {SecretsOf(u) : u \in Tables} :
                        s.name \notin NamesOf(t)}

\* Of the scopes that fit a file of t one of its own is the longest.
Placed(t) ==
    LET own == SecretsOf(t)
        others == OtherSecrets(t)
    IN  \A file \in Files[t] :
           \E s \in own :
              /\ IsPrefix(s.scope, file)
              /\ Len(Root) < Len(s.scope)
              /\ \A o \in others : IsPrefix(o.scope, file)
                                      => Len(o.scope) < Len(s.scope)

\* It has keys of its own; and where those of a user's secret take their
\* place, that secret is found and no table's.
Owned(q, t) ==
    LET catalog == catalogs[CatalogOf[t]]
    IN  UsesConfig(t) =>
           IF ~IsS3Tables(catalog) THEN delegation[t].config = "keys"
           ELSE \/ catalog.secret_name \in seen[q]
                \/ \A u \in Tables : \A s \in SecretsOf(u) :
                      ~IsPrefix(s.scope, Root)

\* What one may rely on for t.
Covered(q, t) == Owned(q, t) /\ Placed(t)

\* No other table of the query has a secret of the same name.
Alone(q, t) == \A u \in bound[q] \ {t} : NamesOf(u) \cap NamesOf(t) = {}

\* When a table is bound and when a query scans its tables, whatever secret
\* is chosen for the files of one has its keys, which had not expired when the
\* query began, whichever of its answers came from the cache, whatever
\* secrets earlier queries and other connections left, and even if a table of
\* another catalog had a secret of the same name.
ScanAuthorized ==
    \A q \in Connections :
        /\ pc[q] = "scan" =>
              \A t \in bound[q] : Alone(q, t) /\ Covered(q, t) => ReadsOwn(q, t)
        /\ pc[q] = "create" /\ made[q] # 0 /\ AllMade(q) =>
              (Covered(q, table[q]) => ReadsOwn(q, table[q]))

\* GetCachedValue throws only if the value that HasCachedValue found expired,
\* was replaced by one that had, or met a store, in between.  A catalog
\* refuses a request only if its token has expired, or, for AWS, if the secret
\* it names is gone and a table has a secret for all of s3://.  No secret is
\* found only if the user had none at all when the query began.
FailsOnlyWithCause ==
    \A q \in Connections :
        LET catalog == CatalogOfTable(q)
        IN  /\ error[q] = "cached" => causes[q] # {}
            /\ error[q] = "refused" =>
                  IF IsAws(catalog)
                  THEN /\ catalog.secret_name \notin seen[q]
                       /\ \E t \in Tables : \E s \in SecretsOf(t) :
                             IsPrefix(s.scope, Root)
                  ELSE /\ catalog.catalog_type = "OTHER"
                       /\ catalog.token <= now
            /\ error[q] = "secret" => seen[q] = {}

=============================================================================
