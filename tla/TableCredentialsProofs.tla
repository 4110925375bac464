----------------------- MODULE TableCredentialsProofs -----------------------
(***************************************************************************)
(* For any catalogs, tables, locations, connections, secrets and answers,   *)
(* and any bounds: a table is bound and scanned with live keys of its own,  *)
(* and the failures that have a remote cause have that cause.               *)
(***************************************************************************)
EXTENDS TableCredentials, SequenceTheorems, WellFoundedInduction, TLAPS

-----------------------------------------------------------------------------
(* Numbers *)

Less == {ss \in Nat \X Nat : ss[1] < ss[2]}

\* A nonempty set of natural numbers has a least element.
LEMMA LeastNatural ==
    ASSUME NEW S, S \subseteq Nat, S # {}
    PROVE  \E n \in S : \A m \in S : n <= m
<1>1. IsWellFoundedOn(Less, Nat)
  BY NatLessThanWellFounded, SMT DEF OpToRel, Less
<1>2. PICK n \in S : \A m \in Nat : <<m, n>> \in Less => m \notin S
  BY <1>1, WFMin, Zenon
<1>3. ASSUME NEW m \in S
      PROVE  n <= m
  <2>1. m \in Nat /\ n \in Nat /\ <<m, n>> \notin Less
    BY <1>2
  <2>2. ~(m < n)
    BY <2>1 DEF Less
  <2> QED
    BY <2>1, <2>2
<1> QED
  BY <1>3

\* Of secrets whose scopes are not longer than a path, one has the longest.
LEMMA Longest ==
    ASSUME NEW S, NEW bound_ \in Nat, S # {},
           \A s \in S : Len(s.scope) \in Nat /\ Len(s.scope) <= bound_
    PROVE  \E s \in S : \A o \in S : Len(o.scope) <= Len(s.scope)
<1> DEFINE rest == {bound_ - Len(s.scope) : s \in S}
<1>1. rest \subseteq Nat /\ rest # {}
  OBVIOUS
<1>2. PICK n \in rest : \A m \in rest : n <= m
  <2> HIDE DEF rest
  <2> QED
    BY <1>1, LeastNatural
<1>3. PICK s \in S : n = bound_ - Len(s.scope)
  BY <1>2
<1>4. \A o \in S : bound_ - Len(o.scope) \in rest
  OBVIOUS
<1>5. \A o \in S : n <= bound_ - Len(o.scope)
  <2> HIDE DEF rest
  <2> QED
    BY <1>2, <1>4
<1> QED
  BY <1>3, <1>5

-----------------------------------------------------------------------------
(* The parts of TypeOK *)

SharedTypes ==
    /\ delegation \in Delegations
    /\ filled \subseteq Tables
    /\ metadata_cache \in [Tables -> Times]
    /\ secrets \in [SecretNames -> Secret]

Label == AtTable \cup {"idle", "lookup", "scan", "failed"}

ControlTypes ==
    /\ pc \in [Connections -> Label]
    /\ table \in [Connections -> Tables \cup {NoTable}]
    /\ todo \in [Connections -> SUBSET Tables]
    /\ bound \in [Connections -> SUBSET Tables]
    /\ error \in [Connections -> Error]
    /\ \A q \in Connections :
          /\ todo[q] \cap bound[q] = {}
          /\ pc[q] = "idle" => table[q] = NoTable /\ created[q] = {}
          /\ pc[q] \in AtTable => table[q] \in todo[q]
          /\ pc[q] = "failed" <=> error[q] # "none"

TransactionTypes ==
    /\ response \in [Connections -> Times]
    /\ made \in [Connections -> Nat]
    /\ seen \in [Connections -> SUBSET UserSecrets]
    /\ visible \in [Connections -> [SecretNames -> Secret]]
    /\ created \in [Connections -> SUBSET SecretNames]
    /\ changed \in [Connections -> SUBSET SecretNames]

GhostTypes ==
    /\ queries \in 0 .. MaxQueries
    /\ began \in [Connections -> 0 .. MaxTime]
    /\ causes \in [Connections -> SUBSET {"expiry", "overlap"}]

Tokens ==
    \A c \in Catalogs : catalogs[c].at \in {"config", "attached"}
        => catalogs[c].catalog_type = "OTHER" <=> catalogs[c].token # 0

\* The type invariant, taken apart by what reads and writes the variables.
LEMMA TypeParts ==
    TypeOK <=> /\ AttachTypeOK /\ Tokens
               /\ SharedTypes /\ ControlTypes /\ TransactionTypes /\ GhostTypes
BY DEF TypeOK, Tokens, SharedTypes, ControlTypes, TransactionTypes, GhostTypes,
       Label

-----------------------------------------------------------------------------
(* The inductive invariant *)

\* A catalog that waits for a token is no AWS catalog, one past that is none
\* or has a host of AWS, and one that is attached has the prefix it serves.
Configured ==
    \A c \in Catalogs :
        /\ catalogs[c].at = "token" => catalogs[c].catalog_type = "OTHER"
        /\ catalogs[c].at \in {"config", "attached"}
              => catalogs[c].catalog_type = "OTHER" \/ IsAws(catalogs[c])
        /\ catalogs[c].at = "attached" => catalogs[c].prefix = ServedPrefix(c)

\* Between its queries a connection holds nothing; a query has begun when all
\* catalogs were attached, fails at a table, and makes secrets for one.
Begun ==
    \A q \in Connections :
        /\ pc[q] = "idle" => bound[q] = {}
        /\ pc[q] \in {"lookup", "scan"} => table[q] = NoTable
        /\ pc[q] = "failed" => table[q] \in Tables
        /\ pc[q] \notin {"create", "failed"} => made[q] = 0
        /\ pc[q] # "idle" =>
              /\ began[q] <= now
              /\ \A c \in Catalogs : catalogs[c].at = "attached"

\* Only answers with an expiry are cached.
CacheExpiring ==
    \A t \in Tables : metadata_cache[t].config # 0 => delegation[t].expiring

\* The answer that secrets are made from had not expired when the query
\* began, but for storage-credentials that the cache may have kept.
AnswerFresh ==
    \A q \in Connections : pc[q] \in {"fetched", "create"} =>
        /\ response[q].config > began[q]
        /\ ~delegation[table[q]].expiring => response[q].storage > began[q]

\* A value that HasCachedValue found is there, or it is noted why not.
ValueFound ==
    \A q \in Connections : pc[q] = "get" =>
        metadata_cache[table[q]].config > now \/ causes[q] # {}

\* What is stored under a name was made for a table.
MadeForTables(store) ==
    \A n \in SecretNames : store[n] # NoSecret =>
        \E t \in Tables : \E s \in SecretsOf(t) :
            s.name = n /\ s.scope = store[n].scope

SecretsMade ==
    /\ MadeForTables(secrets)
    /\ \A q \in Connections : MadeForTables(visible[q])

\* What t may be read with, as secret s of it.
GoodFor(q, t, s, secret) ==
    /\ secret.scope = s.scope
    /\ Owned(q, t) => /\ secret.keys \in KeysOf(q, t)
                      /\ KeptTooLong(t) \/ secret.expires > began[q]

\* The secrets of the table in hand that have been created are good.
MadeGood(q) ==
    LET list == TableSecrets(table[q])
    IN  /\ made[q] <= Len(list)
        /\ \A i \in 1 .. made[q] :
              GoodFor(q, table[q], list[i], visible[q][list[i].name])

BeingBound == \A q \in Connections : pc[q] = "create" => MadeGood(q)

\* No other table that the query has bound or has in hand has a secret of the
\* same name.
Undisturbed(q, t) ==
    \A u \in (bound[q] \cup {table[q]}) \ {t, NoTable} :
        NamesOf(u) \cap NamesOf(t) = {}

\* What a query has created for its tables stays until it ends.
BoundHaveSecrets ==
    \A q \in Connections : \A t \in bound[q] : Undisturbed(q, t) =>
        \A s \in SecretsOf(t) : GoodFor(q, t, s, visible[q][s.name])

Inv == /\ TypeOK
       /\ Configured
       /\ Begun
       /\ CacheExpiring
       /\ AnswerFresh
       /\ ValueFound
       /\ SecretsMade
       /\ BeingBound
       /\ BoundHaveSecrets
       /\ FailsOnlyWithCause

-----------------------------------------------------------------------------
(* The operators *)

USE DEF attachVars, sharedVars, queryVars

\* Time does not run backwards, and Forever is later than any of it.
LEMMA TimeTypes ==
    /\ MaxTime \in Nat /\ Lifetime \in Nat
    /\ Forever \in Time /\ Forever > MaxTime
    /\ 0 \in Time /\ NoTimes \in Times
    /\ \A n \in 0 .. MaxTime : \A time \in n + 1 .. n + Lifetime :
          time \in Time /\ time > n
BY TimeAssumption DEF Forever, Time, Times, NoTimes

\* NoSecret and the user's secrets are secrets.
LEMMA PlainSecrets ==
    /\ NoSecret \in Secret
    /\ \A s \in UserSecrets : UserSecret(s) \in Secret
<1>1. <<>> \in Path /\ Root \in Path
  BY PathsAssumption, EmptySeq DEF Path
<1> QED
  BY <1>1, TimeTypes DEF NoSecret, UserSecret, Secret

\* What a catalog answers about a table.
LEMMA AnswerTypes ==
    ASSUME SharedTypes, NEW t \in Tables
    PROVE  /\ delegation[t] \in Answer
           /\ delegation[t].storage \in Seq(Path)
           /\ delegation[t].config \in {"none", "settings", "keys"}
<1>1. delegation[t] \in Answer
  BY DelegationsAssumption DEF SharedTypes
<1> QED
  BY <1>1 DEF Answer

\* The scope that is cut off at "metadata" is a path.
LEMMA ScopeTypes ==
    ASSUME NEW t \in Tables, Cuts(t) # {}
    PROVE  Scope(t) \in Path
<1> DEFINE text == LowerCase(Location[t])
           cut == Min(Cuts(t))
<1>1. Location[t] \in Seq(DOMAIN Lower)
  BY PathsAssumption DEF Path
<1>2. /\ Len(Location[t]) \in Nat
      /\ DOMAIN Location[t] = 1 .. Len(Location[t])
      /\ \A i \in 1 .. Len(Location[t]) : Location[t][i] \in DOMAIN Lower
  BY <1>1, LenProperties
<1>3. \A i \in 1 .. Len(Location[t]) : text[i] \in DOMAIN Lower
  BY <1>2, PathsAssumption DEF LowerCase
<1>4. Cuts(t) \subseteq Nat /\ Cuts(t) \subseteq 1 .. Len(Location[t])
  BY <1>2 DEF Cuts
<1>5. cut \in Cuts(t)
  <2>1. \E n \in Cuts(t) : \A m \in Cuts(t) : n <= m
    BY <1>4, LeastNatural
  <2> QED
    BY <2>1 DEF Min
<1>6. \A i \in 1 .. cut - 1 : text[i] \in DOMAIN Lower
  <2> HIDE DEF text, cut
  <2> QED
    BY <1>2, <1>3, <1>4, <1>5
<1>7. cut - 1 \in Int
  BY <1>4, <1>5
<1>8. SubSeq(text, 1, cut - 1) \in Seq(DOMAIN Lower)
  <2> HIDE DEF text, cut
  <2> QED
    BY <1>6, <1>7, SubSeqProperties
<1> QED
  BY <1>8 DEF Scope, Path

\* The secrets of a table have names and scopes.
LEMMA TableSecretsTypes ==
    ASSUME SharedTypes, NEW t \in Tables
    PROVE  /\ Len(TableSecrets(t)) \in Nat
           /\ DOMAIN TableSecrets(t) = 1 .. Len(TableSecrets(t))
           /\ \A i \in 1 .. Len(TableSecrets(t)) :
                 /\ TableSecrets(t)[i].name \in SecretNames
                 /\ TableSecrets(t)[i].scope \in Path
                 /\ UsesConfig(t) => TableSecrets(t)[i].scope = Scope(t)
                 /\ TableSecrets(t)[i] \in SecretsOf(t)
           /\ \A i, j \in 1 .. Len(TableSecrets(t)) :
                 i # j => TableSecrets(t)[i].name # TableSecrets(t)[j].name
<1> DEFINE storage == delegation[t].storage
           list == TableSecrets(t)
<1>1. /\ Len(storage) \in Nat /\ storage \in [1 .. Len(storage) -> Path]
  BY AnswerTypes, LenProperties
<1>2. CASE UsesConfig(t) /\ Cuts(t) = {}
  <2>1. list = <<>>
    BY <1>2 DEF TableSecrets
  <2> QED
    BY <2>1
<1>3. CASE UsesConfig(t) /\ Cuts(t) # {}
  <2>1. list = <<[name |-> ConfigName(t), scope |-> Scope(t)]>>
    BY <1>3 DEF TableSecrets
  <2>2. ConfigName(t) \in SecretNames /\ Scope(t) \in Path
    BY <1>3, ScopeTypes DEF SecretNames
  <2>3. /\ Len(list) = 1 /\ DOMAIN list = 1 .. 1
        /\ list[1] = [name |-> ConfigName(t), scope |-> Scope(t)]
    BY <2>1
  <2> HIDE DEF list
  <2> QED
    BY <2>2, <2>3 DEF SecretsOf, ToSet, list
<1>4. CASE ~UsesConfig(t)
  <2>1. list = [i \in 1 .. Len(storage) |->
                  [name |-> StorageName(t, i, storage[i]), scope |-> storage[i]]]
    BY <1>1, <1>4 DEF TableSecrets
  <2>2. \A i \in 1 .. Len(storage) : StorageName(t, i, storage[i]) \in SecretNames
    <3> TAKE i \in 1 .. Len(storage)
    <3> HIDE DEF list
    <3>1. delegation \in Delegations /\ i \in DOMAIN delegation[t].storage
      BY <1>1 DEF SharedTypes
    <3> DEFINE namesIn(d, u) == {StorageName(u, j, d[u].storage[j]) :
                                   j \in DOMAIN d[u].storage}
    <3>2. StorageName(t, i, storage[i]) \in namesIn(delegation, t)
      BY <3>1, Zenon
    <3>3. SecretNames = {ConfigName(u) : u \in Tables}
              \cup UNION {namesIn(d, u) : d \in Delegations, u \in Tables}
      BY DEF SecretNames
    <3> HIDE DEF namesIn
    <3>4. namesIn(delegation, t) \in {namesIn(d, u) : d \in Delegations, u \in Tables}
      BY <3>1
    <3> DEFINE all == {namesIn(d, u) : d \in Delegations, u \in Tables}
    <3>5. SecretNames = {ConfigName(u) : u \in Tables} \cup UNION all
      BY <3>3
    <3>6. namesIn(delegation, t) \in all
      BY <3>4
    <3> HIDE DEF all
    <3> QED
      BY <3>2, <3>5, <3>6
  <2>3. /\ Len(list) = Len(storage) /\ DOMAIN list = 1 .. Len(storage)
        /\ \A i \in 1 .. Len(storage) :
              /\ list[i].name = StorageName(t, i, storage[i])
              /\ list[i].scope = storage[i]
    BY <1>1, <2>1
  <2>4. \A i, j \in 1 .. Len(storage) :
           i # j => StorageName(t, i, storage[i]) # StorageName(t, j, storage[j])
    BY DEF StorageName
  <2> HIDE DEF list, storage
  <2> QED
    BY <1>1, <1>4, <2>2, <2>3, <2>4 DEF SecretsOf, ToSet, list
<1> QED
  BY <1>2, <1>3, <1>4

\* The same, of the secrets as a set.
LEMMA SecretsOfTypes ==
    ASSUME SharedTypes, NEW t \in Tables, NEW s \in SecretsOf(t)
    PROVE  /\ s.name \in SecretNames /\ s.scope \in Path
           /\ s.name \in NamesOf(t)
           /\ \E i \in 1 .. Len(TableSecrets(t)) : s = TableSecrets(t)[i]
<1>1. PICK i \in DOMAIN TableSecrets(t) : s = TableSecrets(t)[i]
  BY DEF SecretsOf, ToSet
<1>2. i \in 1 .. Len(TableSecrets(t))
  BY <1>1, TableSecretsTypes
<1> QED
  BY <1>1, <1>2, TableSecretsTypes DEF NamesOf

\* Whatever the secret manager finds is a secret.
LEMMA FoundTypes ==
    ASSUME TypeOK, NEW q \in Connections
    PROVE  /\ Visible(q) \subseteq Secret
           /\ \A path : LookupSecret(q, path) \subseteq Visible(q)
           /\ SecretsFor(q) \subseteq Secret
<1>1. TransactionTypes
  BY TypeParts
<1>2. Visible(q) \subseteq Secret
  BY <1>1, PlainSecrets DEF Visible, TransactionTypes
<1>3. \A path : LookupSecret(q, path) \subseteq Visible(q)
  BY DEF LookupSecret
<1>4. SecretsFor(q) \subseteq Secret
  BY <1>1, <1>2, <1>3, PlainSecrets DEF SecretsFor, TransactionTypes
<1> QED
  BY <1>2, <1>3, <1>4

\* The secrets that are made for tables are secrets.
LEMMA MadeTypes ==
    ASSUME SharedTypes, NEW t \in Tables, NEW answer \in Times
    PROVE  /\ \A scope \in Path : StorageSecret(t, answer, scope) \in Secret
           /\ \A catalog : \A found \in Secret :
                 Cuts(t) # {} => ConfigSecret(t, catalog, answer, found) \in Secret
<1>1. answer.config \in Time /\ answer.storage \in Time
  BY DEF Times
<1>2. \A found \in Secret : /\ found.keys \in Tables \cup UserSecrets \cup {NoKeys}
                            /\ found.expires \in Time
  BY DEF Secret
<1>3. Cuts(t) # {} => Scope(t) \in Path
  BY ScopeTypes
<1> QED
  BY <1>1, <1>2, <1>3 DEF StorageSecret, ConfigSecret, Secret

-----------------------------------------------------------------------------
(* Types *)

\* The initial state is well typed.
LEMMA InitTypes == Init => TypeOK
<1> SUFFICES ASSUME Init PROVE TypeOK
  OBVIOUS
<1>1. Detached \in Catalog
  BY DEF Detached, Catalog, Prefix
<1>2. AttachTypeOK
  BY <1>1, TimeAssumption, AttachFailuresAssumption
     DEF Init, AttachInit, AttachTypeOK
<1>3. Tokens
  BY DEF Init, AttachInit, Tokens, Detached
<1>4. SharedTypes
  BY PlainSecrets, TimeTypes DEF Init, SharedTypes
<1>5. ControlTypes
  BY DEF Init, ControlTypes, Label, AtTable, Error
<1>6. TransactionTypes
  BY PlainSecrets, TimeTypes DEF Init, TransactionTypes
<1>7. GhostTypes
  BY TimeAssumption, MaxQueriesAssumption DEF Init, GhostTypes
<1> QED
  BY <1>2, <1>3, <1>4, <1>5, <1>6, <1>7, TypeParts

\* What ATTACH reads from its options makes a catalog.
LEMMA AttachTypes ==
    ASSUME AttachTypeOK, Tokens, Configured, NEW c \in Catalogs, AttachStep(c)
    PROVE  AttachTypeOK' /\ Tokens'
<1>1. CASE Attach(c)
  <2>1. PICK o \in Options[c] :
            \/ catalogs' = [catalogs EXCEPT ![c] = AwsCatalog(o)]
            \/ RestOptions(o) /\ catalogs' = [catalogs EXCEPT ![c] = RestCatalog(o)]
    BY <1>1 DEF Attach
  <2>2. o \in AttachOption
    BY OptionsAssumption
  <2>3. AwsCatalog(o) \in Catalog /\ AwsCatalog(o).catalog_type # "OTHER"
        /\ AwsCatalog(o).token = 0
    BY <2>2 DEF AwsCatalog, Catalog, Detached, AttachOption, Prefix
  <2>4. RestOptions(o) => RestCatalog(o) \in Catalog
    BY <2>2 DEF RestOptions, RestCatalog, Catalog, Detached, AttachOption, Prefix
  <2>5. RestCatalog(o).at = "token"
    BY DEF RestCatalog, Detached
  <2> QED
    BY <1>1, <2>1, <2>3, <2>4, <2>5 DEF Attach, AttachTypeOK, Tokens
<1>2. CASE GetToken(c)
  <2>1. PICK lifetime \in TokenLifetimes :
            catalogs' = [catalogs EXCEPT ![c].token = now + lifetime,
                                         ![c].at = "config"]
    BY <1>2 DEF GetToken
  <2>2. now + lifetime \in Nat /\ now + lifetime # 0
    BY TokenAssumption, TimeAssumption DEF AttachTypeOK
  <2>3. catalogs[c] \in Catalog /\ c \in DOMAIN catalogs
    BY DEF AttachTypeOK
  <2> DEFINE new == [catalogs[c] EXCEPT !.token = now + lifetime, !.at = "config"]
  <2>4. catalogs' = [catalogs EXCEPT ![c] = new]
    BY <2>1, <2>3
  <2>5. new \in Catalog /\ new.token # 0 /\ new.catalog_type = catalogs[c].catalog_type
    BY <2>2, <2>3 DEF Catalog
  <2> QED
    <3>1. new.catalog_type = "OTHER"
      BY <1>2, <2>5 DEF GetToken, Configured
    <3> HIDE DEF new
    <3> QED
      BY <1>2, <2>4, <2>5, <3>1 DEF GetToken, AttachTypeOK, Tokens
<1>3. CASE GetConfig(c)
  <2>1. ReadPrefix(c) \in Prefix
    BY DEF ReadPrefix, Prefix
  <2> DEFINE new == [catalogs[c] EXCEPT !.prefix = ReadPrefix(c),
                                        !.at = "attached"]
  <2>2. /\ catalogs \in [Catalogs -> Catalog] /\ catalogs[c] \in Catalog
        /\ UNCHANGED <<now, userSecrets, failures>>
    BY <1>3 DEF GetConfig, AttachTypeOK
  <2>3. catalogs' = [catalogs EXCEPT ![c] = new]
    BY <1>3, <2>2 DEF GetConfig
  <2>4. /\ new \in Catalog
        /\ new.token = catalogs[c].token
        /\ new.catalog_type = catalogs[c].catalog_type
    BY <2>1, <2>2 DEF Catalog
  <2>5. catalogs[c].catalog_type = "OTHER" <=> catalogs[c].token # 0
    BY <1>3 DEF GetConfig, Tokens
  <2> HIDE DEF new
  <2>6. catalogs' \in [Catalogs -> Catalog]
    BY <2>2, <2>3, <2>4
  <2>7. Tokens'
    BY <2>2, <2>3, <2>4, <2>5 DEF Tokens
  <2> QED
    BY <2>2, <2>6, <2>7 DEF AttachTypeOK
<1>4. CASE AttachThrows(c)
  <2>1. Detached \in Catalog
    BY DEF Detached, Catalog, Prefix
  <2>2. failures' \in 0 .. MaxFailures
    BY <1>4, AttachFailuresAssumption DEF AttachThrows, RequestFails, AttachTypeOK
  <2> QED
    BY <1>4, <2>1, <2>2 DEF AttachThrows, AttachTypeOK, Tokens, Detached
<1> QED
  BY <1>1, <1>2, <1>3, <1>4 DEF AttachStep

\* A step of a query.
QueryStep(q) == Begin(q) \/ Step(q)

\* The steps that throw.
Throws(q) == \/ RequestThrows(q) \/ StoreThrows(q)
             \/ GetCachedValueThrows(q) \/ GetScanFunctionThrows(q)

\* A query changes no catalog, and counts at most one failed request.
LEMMA QueryKeepsCatalogs ==
    ASSUME NEW q, QueryStep(q)
    PROVE  /\ UNCHANGED <<now, userSecrets, catalogs, delegation>>
           /\ UNCHANGED failures \/ RequestFails
BY DEF QueryStep, Step, Begin, Lookup, Request, RequestThrows, Store,
       StoreThrows, HasCachedValue, GetCachedValue, GetCachedValueThrows,
       CreateTableSecret, BindScan, GetScanFunctionThrows, Commit, RollBack

\* Catalogs stay well typed, and hold a token only if they use one.
LEMMA CatalogTypes ==
    ASSUME AttachTypeOK, Tokens, Configured, Next
    PROVE  AttachTypeOK' /\ Tokens'
<1>1. CASE \E c \in Catalogs : AttachStep(c)
  BY <1>1, AttachTypes
<1>2. CASE \E s \in UserSecrets : DropSecret(s)
  BY <1>2 DEF DropSecret, AttachTypeOK, Tokens
<1>3. CASE Tick
  BY <1>3, TimeAssumption DEF Tick, AttachTypeOK, Tokens
<1>4. ASSUME NEW q \in Connections, QueryStep(q)
      PROVE  AttachTypeOK' /\ Tokens'
  <2>1. failures' \in 0 .. MaxFailures
    BY <1>4, QueryKeepsCatalogs, AttachFailuresAssumption
       DEF AttachTypeOK, RequestFails
  <2> QED
    BY <1>4, <2>1, QueryKeepsCatalogs DEF AttachTypeOK, Tokens
<1> QED
  BY <1>1, <1>2, <1>3, <1>4 DEF Next, QueryStep

\* SetCachedValue keeps the types, and stores only what has an expiry.
LEMMA CacheTypes ==
    ASSUME SharedTypes, TransactionTypes, GhostTypes, NEW q \in Connections,
           table[q] \in Tables, SetCachedValue(q)
    PROVE  /\ metadata_cache' \in [Tables -> Times]
           /\ causes' \in [Connections -> SUBSET {"expiry", "overlap"}]
           /\ \A u \in Connections : causes[u] \subseteq causes'[u]
           /\ \A t \in Tables : \/ metadata_cache'[t] = metadata_cache[t]
                                \/ t = table[q] /\ delegation[t].expiring
<1>1. response[q] \in Times
  BY DEF TransactionTypes
<1>2. CASE UNCHANGED <<metadata_cache, causes>>
  BY <1>2 DEF SharedTypes, GhostTypes
<1>3. CASE /\ delegation[table[q]].expiring
           /\ metadata_cache' = [metadata_cache EXCEPT ![table[q]] = response[q]]
           /\ causes' = IF response[q].config > now THEN causes
                        ELSE [u \in Connections |->
                                IF u \in Reading(table[q])
                                THEN causes[u] \cup {"expiry"} ELSE causes[u]]
  <2>1. metadata_cache' \in [Tables -> Times]
    BY <1>1, <1>3 DEF SharedTypes
  <2>2. /\ causes' \in [Connections -> SUBSET {"expiry", "overlap"}]
        /\ \A u \in Connections : causes[u] \subseteq causes'[u]
    BY <1>3 DEF GhostTypes
  <2>3. \A t \in Tables : \/ metadata_cache'[t] = metadata_cache[t]
                          \/ t = table[q] /\ delegation[t].expiring
    BY <1>3 DEF SharedTypes
  <2> QED
    BY <2>1, <2>2, <2>3
<1> QED
  BY <1>2, <1>3 DEF SetCachedValue, Caches

\* What connections share stays well typed in a step of a query.
LEMMA SharedStep ==
    ASSUME TypeOK, NEW q \in Connections, QueryStep(q)
    PROVE  SharedTypes'
<1>1. SharedTypes /\ ControlTypes /\ TransactionTypes /\ GhostTypes
  BY TypeParts
<1>2. CASE Store(q) \/ StoreThrows(q)
  <2>1. table[q] \in Tables
    BY <1>1, <1>2 DEF Store, StoreThrows, ControlTypes, AtTable
  <2>2. filled' \subseteq Tables
    BY <1>1, <1>2, <2>1 DEF Store, StoreThrows, SharedTypes
  <2>3. SetCachedValue(q) \/ UNCHANGED metadata_cache
    BY <1>2 DEF Store, StoreThrows
  <2>4. metadata_cache' \in [Tables -> Times]
    BY <1>1, <2>1, <2>3, CacheTypes DEF SharedTypes
  <2> QED
    BY <1>1, <1>2, <2>2, <2>4 DEF Store, StoreThrows, SharedTypes
<1>3. CASE Commit(q)
  <2>1. \A n \in SecretNames : visible[q][n] \in Secret /\ secrets[n] \in Secret
    BY <1>1 DEF SharedTypes, TransactionTypes
  <2>2. secrets' \in [SecretNames -> Secret]
    BY <1>3, <2>1 DEF Commit
  <2> QED
    BY <1>1, <1>3, <2>2 DEF Commit, SharedTypes
<1>4. CASE ~Store(q) /\ ~StoreThrows(q) /\ ~Commit(q)
  <2>1. UNCHANGED sharedVars
    BY <1>4 DEF QueryStep, Step, Begin, Lookup, Request, RequestThrows,
                HasCachedValue, GetCachedValue, GetCachedValueThrows,
                CreateTableSecret, BindScan, GetScanFunctionThrows, RollBack
  <2> QED
    BY <1>1, <2>1 DEF SharedTypes
<1> QED
  BY <1>2, <1>3, <1>4

\* A query that goes on with the same table in hand.
LEMMA SameTable ==
    ASSUME ControlTypes, NEW q \in Connections,
           NEW label \in AtTable, Goto(q, label),
           UNCHANGED <<table, todo, bound, error, created>>, pc[q] \in AtTable
    PROVE  ControlTypes'
<1>1. label \in Label /\ label \notin {"idle", "failed"}
  BY DEF Label, AtTable
<1>2. pc[q] \notin {"idle", "failed"}
  BY DEF AtTable
<1> QED
  BY <1>1, <1>2 DEF ControlTypes, Goto

\* A query that throws.
LEMMA ThrowTypes ==
    ASSUME ControlTypes, NEW q \in Connections,
           NEW what \in Error \ {"none"}, Throw(q, what),
           UNCHANGED <<table, todo, bound, created>>, pc[q] # "idle"
    PROVE  ControlTypes'
<1>1. "failed" \in Label /\ "failed" \notin AtTable
  BY DEF Label, AtTable
<1> QED
  BY <1>1 DEF ControlTypes, Throw, Goto

\* What the steps that throw have in common.
LEMMA ThrowsWhat ==
    ASSUME NEW q, Throws(q)
    PROVE  /\ \E what \in Error \ {"none"} : Throw(q, what)
           /\ pc[q] \in AtTable
           /\ UNCHANGED <<table, todo, bound, response, made, seen, visible,
                          created, changed, queries, began, secrets>>
<1>1. CASE RequestThrows(q)
  BY <1>1 DEF RequestThrows, Error, AtTable
<1>2. CASE StoreThrows(q)
  BY <1>2 DEF StoreThrows, Error, AtTable
<1>3. CASE GetCachedValueThrows(q)
  BY <1>3 DEF GetCachedValueThrows, Error, AtTable
<1>4. CASE GetScanFunctionThrows(q)
  <2>1. Errors(q) \subseteq Error \ {"none"}
    BY DEF Errors, Error
  <2>2. \E what \in Error \ {"none"} : Throw(q, what)
    BY <1>4, <2>1 DEF GetScanFunctionThrows, Error
  <2> QED
    BY <1>4, <2>2 DEF GetScanFunctionThrows, AtTable
<1> QED
  BY <1>1, <1>2, <1>3, <1>4 DEF Throws

\* A connection that leaves its query keeps its variables well typed.
LEMMA LeaveTypes ==
    ASSUME ControlTypes, TransactionTypes, GhostTypes, NEW q \in Connections,
           Leave(q)
    PROVE  /\ ControlTypes'
           /\ changed' \in [Connections -> SUBSET SecretNames]
                 => TransactionTypes'
           /\ UNCHANGED queries => GhostTypes'
<1>1. ControlTypes'
  BY DEF Leave, Goto, ControlTypes, TransactionTypes, Label, AtTable, Error
<1>2. /\ response' \in [Connections -> Times]
      /\ made' \in [Connections -> Nat]
      /\ seen' \in [Connections -> SUBSET UserSecrets]
      /\ visible' \in [Connections -> [SecretNames -> Secret]]
      /\ created' \in [Connections -> SUBSET SecretNames]
  BY PlainSecrets, TimeTypes DEF Leave, TransactionTypes
<1>3. /\ began' \in [Connections -> 0 .. MaxTime]
      /\ causes' \in [Connections -> SUBSET {"expiry", "overlap"}]
  BY TimeAssumption DEF Leave, GhostTypes
<1> QED
  BY <1>1, <1>2, <1>3 DEF TransactionTypes, GhostTypes

\* The label of a connection and what it holds fit, whatever step it takes.
LEMMA ControlStep ==
    ASSUME TypeOK, Begun, NEW q \in Connections, QueryStep(q)
    PROVE  ControlTypes'
<1>1. SharedTypes /\ ControlTypes /\ TransactionTypes /\ GhostTypes
  BY TypeParts
<1>2. CASE Begin(q)
  <2>1. PICK tables \in Queries : todo' = [todo EXCEPT ![q] = tables]
    BY <1>2 DEF Begin
  <2>2. tables \subseteq Tables
    BY QueriesAssumption
  <2> QED
    BY <1>1, <1>2, <2>1, <2>2
       DEF Begin, Begun, Goto, ControlTypes, Label, AtTable
<1>3. CASE Lookup(q)
  BY <1>1, <1>3 DEF Lookup, Goto, ControlTypes, Label, AtTable
<1>4. CASE Request(q) \/ HasCachedValue(q) \/ GetCachedValue(q) \/ Store(q)
  <2>1. \E label \in AtTable : Goto(q, label)
    BY <1>4 DEF Request, HasCachedValue, GetCachedValue, Store, AtTable
  <2>2. UNCHANGED <<table, todo, bound, error, created>> /\ pc[q] \in AtTable
    BY <1>4 DEF Request, HasCachedValue, GetCachedValue, Store, AtTable
  <2> QED
    BY <1>1, <2>1, <2>2, SameTable
<1>5. CASE Throws(q)
  <2>1. pc[q] # "idle"
    BY <1>5, ThrowsWhat DEF AtTable
  <2> QED
    BY <1>1, <1>5, <2>1, ThrowsWhat, ThrowTypes
<1>6. CASE CreateTableSecret(q)
  <2>1. UNCHANGED <<pc, table, todo, bound, error>> /\ pc[q] = "create"
    BY <1>6 DEF CreateTableSecret
  <2>2. \A u \in Connections \ {q} : created'[u] = created[u]
    BY <1>1, <1>6 DEF CreateTableSecret, CreateSecret, TransactionTypes
  <2> QED
    BY <1>1, <2>1, <2>2 DEF ControlTypes
<1>7. CASE BindScan(q)
  <2>1. /\ table[q] \in todo[q] /\ pc[q] = "create" /\ UNCHANGED <<created, error>>
        /\ bound' = [bound EXCEPT ![q] = bound[q] \cup {table[q]}]
        /\ todo' = [todo EXCEPT ![q] = todo[q] \ {table[q]}]
        /\ table' = [table EXCEPT ![q] = NoTable]
    BY <1>1, <1>7 DEF BindScan, ControlTypes, AtTable
  <2>2. \E label \in {"scan", "lookup"} : Goto(q, label)
    BY <1>7 DEF BindScan
  <2>3. /\ todo' \in [Connections -> SUBSET Tables]
        /\ bound' \in [Connections -> SUBSET Tables]
        /\ \A u \in Connections : todo'[u] \cap bound'[u] = {}
    BY <1>1, <2>1 DEF ControlTypes
  <2>4. /\ table' \in [Connections -> Tables \cup {NoTable}]
        /\ pc' \in [Connections -> Label]
        /\ \A u \in Connections \ {q} : /\ pc'[u] = pc[u]
                                        /\ table'[u] = table[u]
                                        /\ todo'[u] = todo[u]
        /\ pc'[q] \in {"scan", "lookup"}
    BY <1>1, <2>1, <2>2 DEF Goto, ControlTypes, Label
  <2> QED
    BY <1>1, <2>1, <2>3, <2>4 DEF ControlTypes, AtTable
<1>8. CASE Commit(q) \/ RollBack(q)
  BY <1>1, <1>8, LeaveTypes DEF Commit, RollBack
<1> QED
  BY <1>2, <1>3, <1>4, <1>5, <1>6, <1>7, <1>8 DEF QueryStep, Step, Throws

\* A secret that is created is seen by its transaction alone.
LEMMA CreateTypes ==
    ASSUME TransactionTypes, NEW q \in Connections, NEW n \in SecretNames,
           NEW secret \in Secret, CreateSecret(q, n, secret)
    PROVE  /\ visible' \in [Connections -> [SecretNames -> Secret]]
           /\ created' \in [Connections -> SUBSET SecretNames]
           /\ visible'[q] = [visible[q] EXCEPT ![n] = secret]
           /\ \A u \in Connections \ {q} : visible'[u] = visible[u]
<1>1. visible[q] \in [SecretNames -> Secret]
  BY DEF TransactionTypes
<1>2. [visible[q] EXCEPT ![n] = secret] \in [SecretNames -> Secret]
  BY <1>1
<1>3. visible' = [visible EXCEPT ![q] = [visible[q] EXCEPT ![n] = secret]]
  BY DEF CreateSecret, TransactionTypes
<1> QED
  BY <1>2, <1>3 DEF CreateSecret, TransactionTypes

\* What CreateTableSecret creates: the next secret of the table, good for it.
LEMMA CreatedSecret ==
    ASSUME TypeOK, NEW q \in Connections, CreateTableSecret(q),
           made[q] <= Len(TableSecrets(table[q]))
    PROVE  LET t == table[q]
               next == TableSecrets(t)[made[q] + 1]
           IN  /\ t \in Tables
               /\ made[q] + 1 \in 1 .. Len(TableSecrets(t))
               /\ next.name \in SecretNames
               /\ \E secret \in Secret :
                     /\ CreateSecret(q, next.name, secret)
                     /\ secret.scope = next.scope
                     /\ \/ /\ UsesConfig(t)
                           /\ \E found \in SecretsFor(q) :
                                 secret = ConfigSecret(t, CatalogOfTable(q),
                                                       response[q], found)
                        \/ /\ ~UsesConfig(t)
                           /\ secret = StorageSecret(t, response[q], next.scope)
<1> DEFINE t == table[q]
           next == TableSecrets(t)[made[q] + 1]
<1>1. SharedTypes /\ ControlTypes /\ TransactionTypes
  BY TypeParts
<1>2. t \in Tables /\ response[q] \in Times /\ made[q] \in Nat
  BY <1>1 DEF CreateTableSecret, ControlTypes, TransactionTypes, AtTable
<1>3. Len(TableSecrets(t)) \in Nat
  BY <1>1, <1>2, TableSecretsTypes
<1>4. made[q] + 1 \in 1 .. Len(TableSecrets(t))
  BY <1>2, <1>3 DEF CreateTableSecret, AllMade
<1>5. /\ next.name \in SecretNames /\ next.scope \in Path
      /\ UsesConfig(t) => next.scope = Scope(t)
  BY <1>1, <1>2, <1>4, TableSecretsTypes
<1>6. CASE UsesConfig(t)
  <2>1. PICK found \in SecretsFor(q) :
            CreateSecret(q, next.name,
               ConfigSecret(t, CatalogOfTable(q), response[q], found))
    BY <1>6 DEF CreateTableSecret
  <2>2. Cuts(t) # {}
    BY <1>3, <1>4, <1>6 DEF TableSecrets
  <2> DEFINE secret == ConfigSecret(t, CatalogOfTable(q), response[q], found)
  <2>3. secret \in Secret
    BY <1>1, <1>2, <2>2, FoundTypes, MadeTypes
  <2>4. secret.scope = next.scope
    BY <1>5, <1>6 DEF ConfigSecret
  <2> QED
    BY <1>2, <1>4, <1>5, <1>6, <2>1, <2>3, <2>4
<1>7. CASE ~UsesConfig(t)
  <2> DEFINE secret == StorageSecret(t, response[q], next.scope)
  <2>1. CreateSecret(q, next.name, secret)
    BY <1>7 DEF CreateTableSecret
  <2>2. secret \in Secret
    BY <1>1, <1>2, <1>5, MadeTypes
  <2>3. secret.scope = next.scope
    BY DEF StorageSecret
  <2> QED
    BY <1>2, <1>4, <1>5, <1>7, <2>1, <2>2, <2>3
<1> QED
  BY <1>6, <1>7

\* The secrets of a transaction stay well typed in a step of a query.
LEMMA TransactionStep ==
    ASSUME TypeOK, BeingBound, NEW q \in Connections, QueryStep(q)
    PROVE  TransactionTypes'
<1>1. /\ AttachTypeOK /\ SharedTypes /\ ControlTypes /\ TransactionTypes
      /\ GhostTypes
  BY TypeParts
<1>2. CASE Begin(q)
  BY <1>1, <1>2 DEF Begin, AttachTypeOK, SharedTypes, TransactionTypes
<1>3. CASE Lookup(q) \/ HasCachedValue(q) \/ Throws(q)
  <2>1. UNCHANGED <<response, made, seen, visible, created, changed>>
    BY <1>3, ThrowsWhat DEF Lookup, HasCachedValue
  <2> QED
    BY <1>1, <2>1 DEF TransactionTypes
<1>4. CASE Request(q)
  <2>1. PICK config \in now + 1 .. now + Lifetime,
             storage \in now + 1 .. now + Lifetime :
                response' = [response EXCEPT ![q] =
                   Expiries(table[q], [config |-> config, storage |-> storage])]
    BY <1>4 DEF Request
  <2>2. config \in Time /\ storage \in Time
    BY <1>1, TimeTypes DEF AttachTypeOK
  <2>3. Expiries(table[q], [config |-> config, storage |-> storage]) \in Times
    BY <2>2, TimeTypes DEF Expiries, Times
  <2> QED
    BY <1>1, <1>4, <2>1, <2>3 DEF Request, TransactionTypes
<1>5. CASE Store(q) \/ GetCachedValue(q)
  <2>1. table[q] \in Tables
    BY <1>1, <1>5 DEF Store, GetCachedValue, ControlTypes, AtTable
  <2>2. metadata_cache[table[q]] \in Times
    BY <1>1, <2>1 DEF SharedTypes
  <2>3. response' \in [Connections -> Times]
    BY <1>1, <1>5, <2>2, TimeTypes DEF Store, GetCachedValue, TransactionTypes
  <2> QED
    BY <1>1, <1>5, <2>3 DEF Store, GetCachedValue, TransactionTypes
<1>6. CASE CreateTableSecret(q)
  <2>1. made[q] <= Len(TableSecrets(table[q]))
    BY <1>6 DEF CreateTableSecret, BeingBound, MadeGood
  <2>2. \E n \in SecretNames, secret \in Secret : CreateSecret(q, n, secret)
    BY <1>6, <2>1, CreatedSecret
  <2>3. /\ visible' \in [Connections -> [SecretNames -> Secret]]
        /\ created' \in [Connections -> SUBSET SecretNames]
    BY <1>1, <2>2, CreateTypes
  <2>4. made' \in [Connections -> Nat]
    BY <1>1, <1>6 DEF CreateTableSecret, TransactionTypes
  <2> QED
    BY <1>1, <1>6, <2>3, <2>4 DEF CreateTableSecret, TransactionTypes
<1>7. CASE BindScan(q)
  BY <1>1, <1>7, TimeTypes DEF BindScan, TransactionTypes
<1>8. CASE Commit(q)
  <2>1. changed' \in [Connections -> SUBSET SecretNames]
    BY <1>1, <1>8 DEF Commit, TransactionTypes
  <2> QED
    BY <1>1, <1>8, <2>1, LeaveTypes DEF Commit
<1>9. CASE RollBack(q)
  <2>1. changed' \in [Connections -> SUBSET SecretNames]
    BY <1>1, <1>9 DEF RollBack, TransactionTypes
  <2> QED
    BY <1>1, <1>9, <2>1, LeaveTypes DEF RollBack
<1> QED
  BY <1>2, <1>3, <1>4, <1>5, <1>6, <1>7, <1>8, <1>9 DEF QueryStep, Step, Throws

\* The history of a query stays well typed.
LEMMA GhostStep ==
    ASSUME TypeOK, NEW q \in Connections, QueryStep(q)
    PROVE  GhostTypes'
<1>1. AttachTypeOK /\ SharedTypes /\ ControlTypes /\ TransactionTypes /\ GhostTypes
  BY TypeParts
<1>2. CASE Begin(q)
  <2>1. queries' \in 0 .. MaxQueries
    BY <1>1, <1>2, MaxQueriesAssumption DEF Begin, GhostTypes
  <2>2. began' \in [Connections -> 0 .. MaxTime]
    BY <1>1, <1>2 DEF Begin, GhostTypes, AttachTypeOK
  <2> QED
    BY <1>1, <1>2, <2>1, <2>2 DEF Begin, GhostTypes
<1>3. CASE Lookup(q) \/ Request(q) \/ HasCachedValue(q) \/ RequestThrows(q)
           \/ CreateTableSecret(q) \/ BindScan(q) \/ GetScanFunctionThrows(q)
  <2>1. UNCHANGED <<queries, began, causes>>
    BY <1>3 DEF Lookup, Request, HasCachedValue, RequestThrows,
                CreateTableSecret, BindScan, GetScanFunctionThrows
  <2> QED
    BY <1>1, <2>1 DEF GhostTypes
<1>4. CASE Store(q) \/ StoreThrows(q)
  <2>1. table[q] \in Tables /\ UNCHANGED <<queries, began>>
    BY <1>1, <1>4 DEF Store, StoreThrows, ControlTypes, AtTable
  <2>2. SetCachedValue(q) \/ UNCHANGED causes
    BY <1>4 DEF Store, StoreThrows
  <2>3. causes' \in [Connections -> SUBSET {"expiry", "overlap"}]
    BY <1>1, <2>1, <2>2, CacheTypes DEF GhostTypes
  <2> QED
    BY <1>1, <2>1, <2>3 DEF GhostTypes
<1>5. CASE GetCachedValue(q) \/ GetCachedValueThrows(q)
  BY <1>1, <1>5 DEF GetCachedValue, GetCachedValueThrows, GhostTypes
<1>6. CASE Commit(q) \/ RollBack(q)
  BY <1>1, <1>6, LeaveTypes DEF Commit, RollBack
<1> QED
  BY <1>2, <1>3, <1>4, <1>5, <1>6 DEF QueryStep, Step

\* Every step keeps the types.
LEMMA TypeStep ==
    ASSUME TypeOK, Configured, Begun, BeingBound, Next
    PROVE  TypeOK'
<1>1. /\ AttachTypeOK /\ Tokens /\ SharedTypes /\ ControlTypes
      /\ TransactionTypes /\ GhostTypes
  BY TypeParts
<1>2. AttachTypeOK' /\ Tokens'
  BY <1>1, CatalogTypes
<1>3. CASE UNCHANGED <<sharedVars, pc, queryVars>>
  BY <1>1, <1>2, <1>3, TypeParts
     DEF SharedTypes, ControlTypes, TransactionTypes, GhostTypes, TypeOK, Tokens
<1>4. CASE Tick
  <2>1. causes' \in [Connections -> SUBSET {"expiry", "overlap"}]
    BY <1>1, <1>4 DEF Tick, GhostTypes
  <2> QED
    BY <1>1, <1>2, <1>4, <2>1
       DEF Tick, TypeOK, Tokens, SharedTypes, ControlTypes, TransactionTypes,
           GhostTypes, Label
<1>5. ASSUME NEW q \in Connections, QueryStep(q)
      PROVE  TypeOK'
  <2>1. SharedTypes' /\ ControlTypes' /\ TransactionTypes' /\ GhostTypes'
    BY <1>5, SharedStep, ControlStep, TransactionStep, GhostStep
  <2> QED
    BY <1>2, <2>1
       DEF TypeOK, Tokens, SharedTypes, ControlTypes, TransactionTypes,
           GhostTypes, Label
<1> QED
  BY <1>3, <1>4, <1>5 DEF Next, QueryStep

-----------------------------------------------------------------------------
(* Attached catalogs and begun queries *)

\* A catalog past its token is none of AWS or has its host, and an attached
\* one has the prefix it serves.
LEMMA ConfiguredStep ==
    ASSUME TypeOK, Configured, Next
    PROVE  Configured'
<1>1. AttachTypeOK
  BY TypeParts
<1>2. CASE UNCHANGED catalogs
  BY <1>2 DEF Configured, ServedPrefix, IsAws
<1>3. ASSUME NEW c \in Catalogs, AttachStep(c)
      PROVE  Configured'
  <2>1. catalogs[c] \in Catalog /\ catalogs \in [Catalogs -> Catalog]
    BY <1>1 DEF AttachTypeOK
  <2>2. CASE Attach(c)
    <3>1. \E o \in Options[c] : \/ catalogs' = [catalogs EXCEPT ![c] = AwsCatalog(o)]
                                \/ catalogs' = [catalogs EXCEPT ![c] = RestCatalog(o)]
      BY <2>2 DEF Attach
    <3>2. \A o : /\ AwsCatalog(o).at = "config"
                 /\ IsAws(AwsCatalog(o))
                 /\ RestCatalog(o).at = "token"
                 /\ RestCatalog(o).catalog_type = "OTHER"
      BY DEF AwsCatalog, RestCatalog, Detached, IsAws
    <3> QED
      BY <2>1, <3>1, <3>2 DEF Configured, ServedPrefix, IsAws
  <2>3. CASE GetToken(c)
    <3>1. PICK lifetime :
              catalogs' = [catalogs EXCEPT ![c].token = now + lifetime,
                                           ![c].at = "config"]
      BY <2>3 DEF GetToken
    <3> DEFINE new == [catalogs[c] EXCEPT !.token = now + lifetime,
                                          !.at = "config"]
    <3>2. catalogs' = [catalogs EXCEPT ![c] = new]
      BY <2>1, <3>1
    <3>3. new.at = "config" /\ new.catalog_type = catalogs[c].catalog_type
      BY <2>1 DEF Catalog
    <3> HIDE DEF new
    <3> QED
      BY <2>1, <2>3, <3>2, <3>3 DEF GetToken, Configured, ServedPrefix, IsAws
  <2>4. CASE GetConfig(c)
    <3> DEFINE new == [catalogs[c] EXCEPT !.prefix = ReadPrefix(c),
                                          !.at = "attached"]
    <3>1. catalogs' = [catalogs EXCEPT ![c] = new]
      BY <2>1, <2>4 DEF GetConfig
    <3>2. /\ new.at = "attached" /\ new.prefix = ReadPrefix(c)
          /\ new.catalog_type = catalogs[c].catalog_type
          /\ new.host = catalogs[c].host
      BY <2>1 DEF Catalog
    <3>3. ReadPrefix(c) = ServedPrefix(c)
      BY DEF ReadPrefix, ServedPrefix
    <3> HIDE DEF new
    <3> QED
      BY <2>1, <2>4, <3>1, <3>2, <3>3
         DEF GetConfig, Configured, ServedPrefix, IsAws
  <2>5. CASE AttachThrows(c)
    BY <2>1, <2>5 DEF AttachThrows, Configured, Detached, ServedPrefix, IsAws
  <2> QED
    BY <1>3, <2>2, <2>3, <2>4, <2>5 DEF AttachStep
<1>4. ASSUME NEW q \in Connections, QueryStep(q)
      PROVE  UNCHANGED catalogs
  BY <1>4, QueryKeepsCatalogs
<1> QED
  BY <1>2, <1>3, <1>4 DEF Next, QueryStep, Tick, DropSecret

\* What is attached stays as it is.
LEMMA AttachedStays ==
    ASSUME TypeOK, Next, NEW c \in Catalogs, catalogs[c].at = "attached"
    PROVE  catalogs'[c] = catalogs[c]
<1>1. ASSUME NEW d \in Catalogs, AttachStep(d)
      PROVE  catalogs'[c] = catalogs[c]
  <2>1. catalogs \in [Catalogs -> Catalog]
    BY TypeParts DEF AttachTypeOK
  <2>2. d # c
    BY <1>1 DEF AttachStep, Attach, GetToken, GetConfig, AttachThrows
  <2>3. \E new : catalogs' = [catalogs EXCEPT ![d] = new]
    <3>1. ASSUME NEW token,
                 catalogs' = [catalogs EXCEPT ![d].token = token,
                                              ![d].at = "config"]
          PROVE  catalogs' = [catalogs EXCEPT ![d] =
                      [catalogs[d] EXCEPT !.token = token, !.at = "config"]]
      BY <2>1, <3>1
    <3>2. CASE GetConfig(d)
      <4>1. catalogs' = [catalogs EXCEPT ![d] =
                [catalogs[d] EXCEPT !.prefix = ReadPrefix(d), !.at = "attached"]]
        BY <2>1, <3>2 DEF GetConfig
      <4> QED
        BY <4>1
    <3> QED
      BY <1>1, <3>1, <3>2 DEF AttachStep, Attach, GetToken, AttachThrows
  <2> QED
    BY <2>1, <2>2, <2>3
<1>2. ASSUME NEW q \in Connections, QueryStep(q)
      PROVE  catalogs'[c] = catalogs[c]
  BY <1>2, QueryKeepsCatalogs
<1> QED
  BY <1>1, <1>2 DEF Next, QueryStep, Tick, DropSecret

\* What the steps do to the clock and the answers.
LEMMA ClockAndAnswers ==
    ASSUME TypeOK, Next
    PROVE  /\ now \in 0 .. MaxTime /\ now' \in {now, now + 1}
           /\ UNCHANGED delegation
<1>1. now \in 0 .. MaxTime
  BY TypeParts DEF AttachTypeOK
<1>2. ASSUME NEW q \in Connections, QueryStep(q)
      PROVE  UNCHANGED <<now, delegation>>
  BY <1>2, QueryKeepsCatalogs
<1>3. ASSUME NEW c \in Catalogs, AttachStep(c)
      PROVE  UNCHANGED now
  BY <1>3 DEF AttachStep, Attach, GetToken, GetConfig, AttachThrows
<1> QED
  BY <1>1, <1>2, <1>3 DEF Next, QueryStep, Tick, DropSecret

\* A step of one query leaves the others where they are; at most it notes a
\* cause for them.
LEMMA OthersKeep ==
    ASSUME TypeOK, NEW q \in Connections, QueryStep(q),
           NEW u \in Connections \ {q}
    PROVE  /\ pc'[u] = pc[u]
           /\ table'[u] = table[u]
           /\ bound'[u] = bound[u]
           /\ response'[u] = response[u]
           /\ made'[u] = made[u]
           /\ seen'[u] = seen[u]
           /\ visible'[u] = visible[u]
           /\ began'[u] = began[u]
           /\ error'[u] = error[u]
           /\ causes[u] \subseteq causes'[u]
<1>1. SharedTypes /\ ControlTypes /\ TransactionTypes /\ GhostTypes
  BY TypeParts
<1>2. CASE Begin(q)
  BY <1>1, <1>2 DEF Begin, Goto, ControlTypes, TransactionTypes, GhostTypes
<1>3. CASE Lookup(q) \/ Request(q) \/ RequestThrows(q) \/ HasCachedValue(q)
           \/ GetCachedValue(q) \/ GetCachedValueThrows(q)
           \/ GetScanFunctionThrows(q)
  <2>1. UNCHANGED <<bound, made, seen, visible, began>>
    BY <1>3
       DEF Lookup, Request, RequestThrows, HasCachedValue, GetCachedValue,
           GetCachedValueThrows, GetScanFunctionThrows
  <2>2. /\ pc'[u] = pc[u] /\ error'[u] = error[u]
    BY <1>1, <1>3
       DEF Lookup, Request, RequestThrows, HasCachedValue, GetCachedValue,
           GetCachedValueThrows, GetScanFunctionThrows, Throw, Goto, ControlTypes
  <2>3. /\ table'[u] = table[u] /\ response'[u] = response[u]
        /\ causes'[u] = causes[u]
    BY <1>1, <1>3
       DEF Lookup, Request, RequestThrows, HasCachedValue, GetCachedValue,
           GetCachedValueThrows, GetScanFunctionThrows,
           ControlTypes, TransactionTypes, GhostTypes
  <2> QED
    BY <2>1, <2>2, <2>3
<1>4. CASE Store(q) \/ StoreThrows(q)
  <2>1. table[q] \in Tables
    BY <1>1, <1>4 DEF Store, StoreThrows, ControlTypes, AtTable
  <2>2. SetCachedValue(q) \/ UNCHANGED causes
    BY <1>4 DEF Store, StoreThrows
  <2>3. causes[u] \subseteq causes'[u]
    BY <1>1, <2>1, <2>2, CacheTypes
  <2>4. UNCHANGED <<table, bound, made, seen, visible, began>>
    BY <1>4 DEF Store, StoreThrows
  <2>5. pc'[u] = pc[u] /\ response'[u] = response[u] /\ error'[u] = error[u]
    BY <1>1, <1>4
       DEF Store, StoreThrows, Throw, Goto, ControlTypes, TransactionTypes
  <2> QED
    BY <2>3, <2>4, <2>5
<1>5. CASE CreateTableSecret(q)
  <2>1. visible'[u] = visible[u] /\ made'[u] = made[u]
    BY <1>1, <1>5 DEF CreateTableSecret, CreateSecret, TransactionTypes
  <2> QED
    BY <1>5, <2>1 DEF CreateTableSecret
<1>6. CASE BindScan(q)
  BY <1>1, <1>6 DEF BindScan, Goto, ControlTypes, TransactionTypes
<1>7. CASE Commit(q) \/ RollBack(q)
  BY <1>1, <1>7
     DEF Commit, RollBack, Leave, Goto, ControlTypes, TransactionTypes,
         GhostTypes
<1> QED
  BY <1>2, <1>3, <1>4, <1>5, <1>6, <1>7 DEF QueryStep, Step

\* What the step of a query does to its own start and its tables.
LEMMA OwnBeginning ==
    ASSUME TypeOK, NEW q \in Connections, QueryStep(q)
    PROVE  \/ /\ Begin(q)
              /\ pc[q] = "idle" /\ pc'[q] = "lookup"
              /\ began'[q] = now /\ UNCHANGED <<bound, table, made>>
           \/ /\ Commit(q) \/ RollBack(q)
              /\ pc'[q] = "idle" /\ bound'[q] = {} /\ made'[q] = 0
              /\ table'[q] = NoTable
           \/ /\ ~Begin(q) /\ ~Commit(q) /\ ~RollBack(q)
              /\ pc[q] # "idle" /\ pc'[q] # "idle"
              /\ UNCHANGED <<began, seen>>
<1>1. ControlTypes /\ TransactionTypes /\ GhostTypes
  BY TypeParts
<1>2. CASE Begin(q)
  BY <1>1, <1>2 DEF Begin, Goto, ControlTypes, GhostTypes
<1>3. CASE Commit(q) \/ RollBack(q)
  BY <1>1, <1>3 DEF Commit, RollBack, Leave, Goto, ControlTypes, TransactionTypes
<1>4. CASE ~Begin(q) /\ ~Commit(q) /\ ~RollBack(q)
  <2>1. UNCHANGED <<began, seen>> /\ pc[q] # "idle"
    BY <1>4 DEF QueryStep, Step, Lookup, Request, RequestThrows, Store,
                StoreThrows, HasCachedValue, GetCachedValue,
                GetCachedValueThrows, CreateTableSecret, BindScan,
                GetScanFunctionThrows
  <2>2. UNCHANGED pc \/ \E label \in Label \ {"idle"} : Goto(q, label)
    <3>1. CASE Throws(q)
      BY <3>1, ThrowsWhat DEF Throw, Label
    <3> QED
      BY <1>4, <3>1
         DEF QueryStep, Step, Throws, Lookup, Request, Store, HasCachedValue,
             GetCachedValue, CreateTableSecret, BindScan, Label, AtTable
  <2> QED
    BY <1>1, <1>4, <2>1, <2>2 DEF Goto, ControlTypes
<1> QED
  BY <1>2, <1>3, <1>4

\* A query fails at the table that it has in hand.
LEMMA FailsAtTable ==
    ASSUME TypeOK, NEW q \in Connections, QueryStep(q), pc'[q] = "failed"
    PROVE  /\ Throws(q)
           /\ pc[q] \in AtTable
           /\ table'[q] = table[q] /\ table[q] \in Tables
<1>1. ControlTypes
  BY TypeParts
<1>2. ~Begin(q) /\ ~Commit(q) /\ ~RollBack(q) /\ ~BindScan(q)
  BY <1>1 DEF Begin, Commit, RollBack, Leave, BindScan, Goto, ControlTypes
<1>3. Throws(q)
  BY <1>1, <1>2
     DEF QueryStep, Step, Throws, Lookup, Request, Store, HasCachedValue,
         GetCachedValue, CreateTableSecret, Goto, ControlTypes
<1>4. pc[q] \in AtTable /\ UNCHANGED table
  BY <1>3, ThrowsWhat
<1> QED
  BY <1>1, <1>3, <1>4 DEF ControlTypes

\* What a query holds where it is, after a step of its own.
LEMMA OwnTable ==
    ASSUME TypeOK, Begun, NEW q \in Connections, QueryStep(q)
    PROVE  /\ pc'[q] \in {"lookup", "scan"} => table'[q] = NoTable
           /\ pc'[q] \notin {"create", "failed"} => made'[q] = 0
<1>1. ControlTypes /\ TransactionTypes
  BY TypeParts
<1>2. CASE Begin(q) \/ Commit(q) \/ RollBack(q)
  BY <1>1, <1>2, OwnBeginning DEF Begun, ControlTypes
<1>3. CASE Throws(q)
  BY <1>1, <1>3, ThrowsWhat DEF Throw, Goto, ControlTypes
<1>4. CASE Lookup(q) \/ Request(q) \/ HasCachedValue(q) \/ Store(q)
           \/ GetCachedValue(q)
  <2>1. pc[q] \notin {"create", "failed"} /\ UNCHANGED made
    BY <1>4 DEF Lookup, Request, HasCachedValue, Store, GetCachedValue
  <2>2. \E label \in AtTable : Goto(q, label)
    BY <1>4 DEF Lookup, Request, HasCachedValue, Store, GetCachedValue, AtTable
  <2>3. pc'[q] \notin {"lookup", "scan"}
    BY <1>1, <2>2 DEF Goto, ControlTypes, AtTable
  <2> QED
    BY <2>1, <2>3 DEF Begun
<1>5. CASE CreateTableSecret(q)
  BY <1>5 DEF CreateTableSecret
<1>6. CASE BindScan(q)
  BY <1>1, <1>6 DEF BindScan, ControlTypes, TransactionTypes
<1> QED
  BY <1>2, <1>3, <1>4, <1>5, <1>6 DEF QueryStep, Step, Throws

\* A query begins when all catalogs are attached, and fails at a table.
LEMMA BegunStep ==
    ASSUME TypeOK, Begun, Next
    PROVE  Begun'
<1>1. now \in Nat /\ now' \in Nat /\ now <= now'
  BY ClockAndAnswers, TimeAssumption
<1>2. \A u \in Connections : began[u] \in Nat
  BY TypeParts, TimeAssumption DEF GhostTypes
<1>3. CASE UNCHANGED <<pc, table, bound, made, began>>
  BY <1>1, <1>2, <1>3, AttachedStays DEF Begun
<1>4. ASSUME NEW q \in Connections, QueryStep(q)
      PROVE  Begun'
  <2>1. UNCHANGED <<now, catalogs>>
    BY <1>4, QueryKeepsCatalogs
  <2>2. pc'[q] = "idle" => bound'[q] = {}
    BY <1>4, OwnBeginning
  <2>3. pc'[q] # "idle" =>
           /\ began'[q] <= now
           /\ \A c \in Catalogs : catalogs[c].at = "attached"
    BY <1>1, <1>4, OwnBeginning DEF Begin, Begun
  <2>4. pc'[q] = "failed" => table'[q] \in Tables
    BY <1>4, FailsAtTable
  <2> QED
    BY <1>4, <2>1, <2>2, <2>3, <2>4, OwnTable, OthersKeep DEF Begun
<1> QED
  BY <1>3, <1>4 DEF Next, QueryStep, Tick

-----------------------------------------------------------------------------
(* Answers and the cache *)

\* Nothing but SetCachedValue changes the cache.
LEMMA CacheStays ==
    ASSUME NEW q \in Connections, QueryStep(q), ~Store(q), ~StoreThrows(q)
    PROVE  UNCHANGED metadata_cache
BY DEF QueryStep, Step, Begin, Lookup, Request, RequestThrows, HasCachedValue,
       GetCachedValue, GetCachedValueThrows, CreateTableSecret, BindScan,
       GetScanFunctionThrows, Commit, RollBack

\* What a store does to the cache, if anything.
LEMMA StoreTypes ==
    ASSUME TypeOK, NEW q \in Connections, Store(q) \/ StoreThrows(q)
    PROVE  /\ table[q] \in Tables
           /\ pc[q] \in {"filled", "fetched"}
           /\ SetCachedValue(q) \/ UNCHANGED <<metadata_cache, causes>>
<1>1. ControlTypes
  BY TypeParts
<1> QED
  BY <1>1 DEF Store, StoreThrows, ControlTypes, AtTable

\* Only answers with an expiry are cached.
LEMMA CacheExpiringStep ==
    ASSUME TypeOK, CacheExpiring, Next
    PROVE  CacheExpiring'
<1>1. SharedTypes /\ TransactionTypes /\ GhostTypes
  BY TypeParts
<1>2. UNCHANGED delegation
  BY ClockAndAnswers
<1>3. CASE UNCHANGED metadata_cache
  BY <1>2, <1>3 DEF CacheExpiring
<1>4. ASSUME NEW q \in Connections, Store(q) \/ StoreThrows(q)
      PROVE  CacheExpiring'
  BY <1>1, <1>2, <1>4, StoreTypes, CacheTypes DEF CacheExpiring
<1>5. ASSUME NEW q \in Connections, QueryStep(q)
      PROVE  CacheExpiring'
  BY <1>3, <1>4, <1>5, CacheStays
<1> QED
  BY <1>3, <1>5 DEF Next, QueryStep, Tick

\* What a request answers has not expired.
LEMMA RequestFresh ==
    ASSUME TypeOK, NEW q \in Connections, Request(q)
    PROVE  response'[q].config > now /\ response'[q].storage > now
<1>1. AttachTypeOK /\ TransactionTypes
  BY TypeParts
<1>2. PICK config \in now + 1 .. now + Lifetime,
           storage \in now + 1 .. now + Lifetime :
              response' = [response EXCEPT ![q] =
                 Expiries(table[q], [config |-> config, storage |-> storage])]
  BY DEF Request
<1>3. now \in 0 .. MaxTime
  BY <1>1 DEF AttachTypeOK
<1>4. config > now /\ storage > now
  BY <1>2, <1>3, TimeTypes
<1>5. Forever > now
  BY <1>3, TimeAssumption DEF Forever
<1>6. response'[q] = Expiries(table[q], [config |-> config, storage |-> storage])
  BY <1>1, <1>2 DEF TransactionTypes
<1> QED
  BY <1>4, <1>5, <1>6 DEF Expiries

\* The answer that secrets are made from had not expired when the query
\* began, but for storage-credentials that the cache may have kept.
LEMMA AnswerFreshStep ==
    ASSUME TypeOK, TypeOK', Begun, CacheExpiring, AnswerFresh, Next
    PROVE  AnswerFresh'
<1>1. /\ AttachTypeOK /\ SharedTypes /\ ControlTypes /\ TransactionTypes
      /\ GhostTypes
  BY TypeParts
<1>2. UNCHANGED delegation /\ now \in Nat
  BY ClockAndAnswers, TimeAssumption
<1>3. CASE UNCHANGED <<pc, table, response, began>>
  BY <1>2, <1>3 DEF AnswerFresh
<1>4. ASSUME NEW q \in Connections, QueryStep(q),
             pc'[q] \in {"fetched", "create"}
      PROVE  /\ response'[q].config > began'[q]
             /\ ~delegation[table'[q]].expiring
                   => response'[q].storage > began'[q]
  <2>1. /\ ~Begin(q) /\ ~Commit(q) /\ ~RollBack(q) /\ ~BindScan(q)
        /\ ~Throws(q) /\ ~Lookup(q) /\ ~HasCachedValue(q)
    <3>1. ~Throws(q)
      BY <1>1, <1>4, ThrowsWhat DEF Throw, Goto, ControlTypes
    <3>2. ~BindScan(q) /\ ~Lookup(q) /\ ~HasCachedValue(q)
      BY <1>1, <1>4 DEF BindScan, Lookup, HasCachedValue, Goto, ControlTypes
    <3> QED
      BY <1>4, <3>1, <3>2, OwnBeginning
  <2>2. began'[q] = began[q] /\ began[q] <= now /\ began[q] \in Nat
    <3>1. began[q] \in Nat
      BY <1>1, TimeAssumption DEF GhostTypes
    <3> QED
      BY <1>4, <2>1, <3>1, OwnBeginning DEF Begun
  <2>3. response'[q].config \in Nat /\ response'[q].storage \in Nat
    <3>1. response'[q] \in Times
      BY DEF TypeOK
    <3> QED
      BY <3>1, TimeAssumption DEF Times, Time, Forever
  <2>4. CASE Request(q)
    BY <1>2, <2>2, <2>3, <2>4, RequestFresh
  <2>5. CASE Store(q)
    <3>1. /\ pc[q] = "fetched" /\ response'[q] = response[q]
          /\ table'[q] = table[q]
      BY <1>1, <1>4, <2>5 DEF Store, Goto, ControlTypes
    <3> QED
      BY <2>2, <3>1 DEF AnswerFresh
  <2>6. CASE GetCachedValue(q)
    <3>1. /\ metadata_cache[table[q]].config > now
          /\ response'[q] = metadata_cache[table[q]]
          /\ table[q] \in Tables /\ table'[q] = table[q]
      BY <1>1, <2>6 DEF GetCachedValue, ControlTypes, TransactionTypes, AtTable
    <3>2. delegation[table[q]].expiring
      BY <1>2, <2>3, <3>1 DEF CacheExpiring
    <3> QED
      BY <1>2, <2>2, <2>3, <3>1, <3>2
  <2>7. CASE CreateTableSecret(q)
    <3>1. pc[q] = "create" /\ UNCHANGED <<response, table>>
      BY <2>7 DEF CreateTableSecret
    <3> QED
      BY <2>2, <3>1 DEF AnswerFresh
  <2> QED
    BY <1>4, <2>1, <2>4, <2>5, <2>6, <2>7 DEF QueryStep, Step, Throws
<1>5. ASSUME NEW q \in Connections, QueryStep(q)
      PROVE  AnswerFresh'
  BY <1>2, <1>4, <1>5, OthersKeep DEF AnswerFresh
<1> QED
  BY <1>3, <1>5 DEF Next, QueryStep, Tick

\* A query goes to fetch a cached value only when it found one.
LEMMA ReachesGet ==
    ASSUME TypeOK, NEW q \in Connections, QueryStep(q), pc'[q] = "get"
    PROVE  HasCachedValue(q) /\ Live(table[q]) /\ UNCHANGED table
<1>1. ControlTypes
  BY TypeParts
<1>2. ~Throws(q)
  BY <1>1, ThrowsWhat DEF Throw, Goto, ControlTypes
<1>3. ~Begin(q) /\ ~Commit(q) /\ ~RollBack(q)
  BY OwnBeginning
<1>4. ~Lookup(q) /\ ~Request(q) /\ ~Store(q) /\ ~GetCachedValue(q)
      /\ ~CreateTableSecret(q) /\ ~BindScan(q)
  BY <1>1 DEF Lookup, Request, Store, GetCachedValue, CreateTableSecret,
              BindScan, Goto, ControlTypes
<1>5. HasCachedValue(q)
  BY <1>2, <1>3, <1>4 DEF QueryStep, Step, Throws
<1> QED
  BY <1>1, <1>5 DEF HasCachedValue, Goto, ControlTypes

\* A value that was found is there, or it is noted why not.
LEMMA ValueFoundStep ==
    ASSUME TypeOK, ValueFound, Next
    PROVE  ValueFound'
<1>1. /\ AttachTypeOK /\ SharedTypes /\ ControlTypes /\ TransactionTypes
      /\ GhostTypes
  BY TypeParts
<1>2. /\ now \in Nat
      /\ \A t \in Tables : metadata_cache[t].config \in Nat
      /\ \A q \in Connections : pc[q] = "get" => table[q] \in Tables
  BY <1>1, TimeAssumption
     DEF AttachTypeOK, SharedTypes, ControlTypes, Times, Time, Forever, AtTable
<1>3. CASE Tick
  <2> SUFFICES ASSUME NEW q \in Connections, pc[q] = "get"
               PROVE  metadata_cache[table[q]].config > now' \/ causes'[q] # {}
    BY <1>3 DEF Tick, ValueFound
  <2>1. metadata_cache[table[q]].config > now \/ causes[q] # {}
    BY DEF ValueFound
  <2>2. metadata_cache[table[q]].config \in Nat /\ now' = now + 1
    BY <1>2, <1>3 DEF Tick
  <2>3. causes'[q] = IF metadata_cache[table[q]].config = now'
                     THEN causes[q] \cup {"expiry"} ELSE causes[q]
    BY <1>3 DEF Tick
  <2> QED
    BY <1>2, <2>1, <2>2, <2>3
<1>4. CASE UNCHANGED <<sharedVars, pc, queryVars>>
           /\ (\/ \E c \in Catalogs : AttachStep(c)
               \/ \E s \in UserSecrets : DropSecret(s))
  <2>1. UNCHANGED now
    BY <1>4 DEF AttachStep, Attach, GetToken, GetConfig, AttachThrows, DropSecret
  <2> QED
    BY <1>4, <2>1 DEF ValueFound
<1>5. ASSUME NEW q \in Connections, QueryStep(q), ~Store(q), ~StoreThrows(q)
      PROVE  ValueFound'
  <2>1. UNCHANGED <<now, metadata_cache>>
    BY <1>5, QueryKeepsCatalogs, CacheStays
  <2>2. pc'[q] = "get" => metadata_cache'[table'[q]].config > now'
    BY <1>5, <2>1, ReachesGet DEF Live
  <2> QED
    BY <1>5, <2>1, <2>2, OthersKeep DEF ValueFound
<1>6. ASSUME NEW q \in Connections, Store(q) \/ StoreThrows(q)
      PROVE  ValueFound'
  <2>1. UNCHANGED <<now, table>> /\ pc'[q] # "get"
    BY <1>1, <1>6 DEF Store, StoreThrows, Throw, Goto, ControlTypes
  <2>2. /\ table[q] \in Tables /\ pc[q] # "get"
        /\ SetCachedValue(q) \/ UNCHANGED <<metadata_cache, causes>>
    BY <1>6, StoreTypes
  <2>3. ASSUME NEW u \in Connections, pc'[u] = "get"
        PROVE  metadata_cache'[table'[u]].config > now' \/ causes'[u] # {}
    <3>1. u # q /\ pc[u] = "get" /\ table[u] \in Tables
      BY <1>1, <1>2, <1>6, <2>1, <2>3, OthersKeep DEF QueryStep, Step
    <3>2. metadata_cache[table[u]].config > now \/ causes[u] # {}
      BY <3>1 DEF ValueFound
    <3>3. CASE UNCHANGED <<metadata_cache, causes>>
      BY <2>1, <3>2, <3>3
    <3>4. CASE /\ metadata_cache' =
                     [metadata_cache EXCEPT ![table[q]] = response[q]]
               /\ causes' = IF response[q].config > now THEN causes
                            ELSE [v \in Connections |->
                                     IF v \in Reading(table[q])
                                     THEN causes[v] \cup {"expiry"}
                                     ELSE causes[v]]
      <4>1. CASE table[u] = table[q]
        <5>1. u \in Reading(table[q])
          BY <3>1, <4>1 DEF Reading
        <5>2. metadata_cache'[table[u]] = response[q]
          BY <1>1, <3>1, <3>4, <4>1 DEF SharedTypes
        <5> QED
          BY <2>1, <3>4, <5>1, <5>2
      <4>2. CASE table[u] # table[q]
        <5>1. metadata_cache'[table[u]] = metadata_cache[table[u]]
          BY <1>1, <3>1, <3>4, <4>2 DEF SharedTypes
        <5>2. causes[u] \subseteq causes'[u]
          BY <3>4
        <5> QED
          BY <2>1, <3>2, <5>1, <5>2
      <4> QED
        BY <4>1, <4>2
    <3> QED
      BY <2>2, <3>3, <3>4 DEF SetCachedValue
  <2> QED
    BY <2>3 DEF ValueFound
<1> QED
  BY <1>3, <1>4, <1>5, <1>6 DEF Next, QueryStep, Step

-----------------------------------------------------------------------------
(* Failures *)

\* Of the secrets that fit a path, one has the longest scope.
LEMMA LookupFinds ==
    ASSUME TypeOK, NEW q \in Connections, NEW path \in Path,
           NEW s \in Visible(q), IsPrefix(s.scope, path)
    PROVE  \E found \in LookupSecret(q, path) : Len(s.scope) <= Len(found.scope)
<1> DEFINE fitting == {o \in Visible(q) : IsPrefix(o.scope, path)}
<1>1. Len(path) \in Nat
  BY LenProperties DEF Path
<1>2. \A o \in fitting : Len(o.scope) \in Nat /\ Len(o.scope) <= Len(path)
  <2> TAKE o \in fitting
  <2>1. o.scope \in Seq(DOMAIN Lower)
    BY FoundTypes DEF Secret, Path
  <2> QED
    BY <2>1, LenProperties DEF IsPrefix
<1>3. \E found \in fitting : \A o \in fitting : Len(o.scope) <= Len(found.scope)
  <2>1. fitting # {}
    OBVIOUS
  <2> HIDE DEF fitting
  <2> QED
    BY <1>1, <1>2, <2>1, Longest
<1> QED
  BY <1>3 DEF LookupSecret

\* A path is a prefix of itself.
LEMMA RootFits == IsPrefix(Root, Root)
<1>1. Root \in Seq(DOMAIN Lower)
  BY PathsAssumption DEF Path
<1> QED
  BY <1>1, LenProperties DEF IsPrefix

\* GetSecret finds none in a query only if the user had none.
LEMMA NoneFound ==
    ASSUME TypeOK, NEW q \in Connections, SecretsFor(q) = {}
    PROVE  seen[q] = {}
<1> SUFFICES ASSUME NEW s \in seen[q] PROVE FALSE
  OBVIOUS
<1>1. CatalogOfTable(q).secret_name \notin seen[q]
  BY DEF SecretsFor
<1>2. LookupSecret(q, Root) = {}
  BY <1>1 DEF SecretsFor
<1>3. UserSecret(s) \in Visible(q) /\ IsPrefix(UserSecret(s).scope, Root)
  BY RootFits DEF Visible, UserSecret
<1> QED
  BY <1>2, <1>3, LookupFinds, PathsAssumption

\* What GetSecret finds has the keys of a table only if the named secret is
\* gone and a table has a secret for the root.
LEMMA TableKeysFound ==
    ASSUME TypeOK, SecretsMade, NEW q \in Connections,
           NEW s \in SecretsFor(q), s.keys \notin UserSecrets
    PROVE  /\ CatalogOfTable(q).secret_name \notin seen[q]
           /\ \E t \in Tables : \E o \in SecretsOf(t) : IsPrefix(o.scope, Root)
<1>1. seen[q] \subseteq UserSecrets
  BY TypeParts DEF TransactionTypes
<1>2. \A name \in seen[q] : UserSecret(name).keys \in UserSecrets
  BY <1>1 DEF UserSecret
<1>3. CatalogOfTable(q).secret_name \notin seen[q]
  BY <1>2 DEF SecretsFor
<1>4. s \in Visible(q) /\ IsPrefix(s.scope, Root)
  BY <1>3 DEF SecretsFor, LookupSecret
<1>5. PICK n \in SecretNames : s = visible[q][n] /\ s # NoSecret
  BY <1>2, <1>4 DEF Visible
<1> QED
  BY <1>3, <1>4, <1>5 DEF SecretsMade, MadeForTables

\* The cause that FailsOnlyWithCause asks for, at one connection.
HasCause(q) ==
    LET catalog == CatalogOfTable(q)
    IN  /\ error[q] = "cached" => causes[q] # {}
        /\ error[q] = "refused" =>
              IF IsAws(catalog)
              THEN /\ catalog.secret_name \notin seen[q]
                   /\ \E t \in Tables : \E s \in SecretsOf(t) :
                         IsPrefix(s.scope, Root)
              ELSE /\ catalog.catalog_type = "OTHER"
                   /\ catalog.token <= now
        /\ error[q] = "secret" => seen[q] = {}

\* A catalog refuses the request of a query only with a cause.
LEMMA RefusedHasCause ==
    ASSUME TypeOK, Configured, Begun, SecretsMade, NEW q \in Connections,
           pc[q] # "idle", table[q] \in Tables, Refused(q)
    PROVE  LET catalog == CatalogOfTable(q)
           IN  IF IsAws(catalog)
               THEN /\ catalog.secret_name \notin seen[q]
                    /\ \E t \in Tables : \E s \in SecretsOf(t) :
                          IsPrefix(s.scope, Root)
               ELSE /\ catalog.catalog_type = "OTHER"
                    /\ catalog.token <= now
<1>1. CatalogOf[table[q]] \in Catalogs
  BY CatalogOfAssumption
<1>2. CatalogOfTable(q).at = "attached"
  BY <1>1 DEF Begun, CatalogOfTable
<1>3. /\ CatalogOfTable(q).prefix = ServedPrefix(CatalogOf[table[q]])
      /\ CatalogOfTable(q).catalog_type = "OTHER" \/ IsAws(CatalogOfTable(q))
  BY <1>1, <1>2 DEF Configured, CatalogOfTable
<1> QED
  BY <1>3, TableKeysFound DEF Refused

\* The steps that throw have a cause.
LEMMA ThrowsWithCause ==
    ASSUME TypeOK, Configured, Begun, ValueFound, SecretsMade,
           NEW q \in Connections, QueryStep(q), pc'[q] = "failed"
    PROVE  HasCause(q)'
<1>1. ControlTypes /\ GhostTypes
  BY TypeParts
<1>2. Throws(q) /\ pc[q] # "idle" /\ table[q] \in Tables
  BY FailsAtTable DEF AtTable
<1>3. /\ UNCHANGED <<now, catalogs, delegation, table, seen>>
      /\ \A what : Throw(q, what) => error'[q] = what
  BY <1>1, <1>2, QueryKeepsCatalogs, ThrowsWhat DEF Throw, ControlTypes
<1>4. /\ CatalogOfTable(q)' = CatalogOfTable(q)
      /\ IsAws(CatalogOfTable(q))' <=> IsAws(CatalogOfTable(q))
      /\ \A t \in Tables : SecretsOf(t)' = SecretsOf(t)
  BY <1>3 DEF CatalogOfTable, IsAws, SecretsOf, TableSecrets, UsesConfig, Scope,
              Cuts, LowerCase, ConfigName, StorageName, ToSet
<1>5. \/ error'[q] \notin {"cached", "refused", "secret"}
      \/ error'[q] = "cached" /\ causes'[q] # {}
      \/ error'[q] = "refused" /\ Refused(q)
      \/ error'[q] = "secret" /\ SecretsFor(q) = {}
  <2>1. CASE RequestThrows(q)
    BY <1>3, <2>1 DEF RequestThrows
  <2>2. CASE StoreThrows(q)
    BY <1>3, <2>2 DEF StoreThrows
  <2>3. CASE GetCachedValueThrows(q)
    <3>1. error'[q] = "cached"
      BY <1>3, <2>3 DEF GetCachedValueThrows
    <3>2. Racing(q) \/ causes[q] # {}
      BY <2>3 DEF GetCachedValueThrows, ValueFound
    <3> QED
      BY <1>1, <2>3, <3>1, <3>2 DEF GetCachedValueThrows, GhostTypes
  <2>4. CASE GetScanFunctionThrows(q)
    BY <1>3, <2>4 DEF GetScanFunctionThrows, Errors
  <2> QED
    BY <1>2, <2>1, <2>2, <2>3, <2>4 DEF Throws
<1>6. CASE error'[q] = "refused" /\ Refused(q)
  BY <1>2, <1>3, <1>4, <1>6, RefusedHasCause DEF HasCause
<1>7. CASE error'[q] = "secret" /\ SecretsFor(q) = {}
  BY <1>3, <1>7, NoneFound DEF HasCause
<1> QED
  BY <1>5, <1>6, <1>7 DEF HasCause

\* A query that has failed keeps its cause.
LEMMA CauseStays ==
    ASSUME TypeOK, Begun, Next, NEW q \in Connections, HasCause(q),
           pc'[q] = pc[q], table'[q] = table[q], seen'[q] = seen[q],
           error'[q] = error[q], causes[q] \subseteq causes'[q]
    PROVE  HasCause(q)'
<1>1. CASE pc[q] # "failed"
  <2>1. error[q] = "none"
    BY <1>1, TypeParts DEF ControlTypes
  <2> QED
    BY <2>1 DEF HasCause
<1>2. CASE pc[q] = "failed"
  <2>1. table[q] \in Tables /\ CatalogOf[table[q]] \in Catalogs
    BY <1>2, CatalogOfAssumption DEF Begun
  <2>2. CatalogOfTable(q)' = CatalogOfTable(q)
    BY <1>2, <2>1, AttachedStays DEF Begun, CatalogOfTable
  <2>3. UNCHANGED delegation /\ now \in Nat /\ now' \in {now, now + 1}
    BY ClockAndAnswers, TimeAssumption
  <2>4. CatalogOfTable(q).token \in Nat
    <3>1. catalogs[CatalogOf[table[q]]] \in Catalog
      BY <2>1, TypeParts DEF AttachTypeOK
    <3> QED
      BY <3>1 DEF CatalogOfTable, Catalog
  <2>5. /\ IsAws(CatalogOfTable(q))' <=> IsAws(CatalogOfTable(q))
        /\ \A t \in Tables : SecretsOf(t)' = SecretsOf(t)
    BY <2>2, <2>3 DEF IsAws, SecretsOf, TableSecrets, UsesConfig, Scope,
                      Cuts, LowerCase, ConfigName, StorageName, ToSet
  <2> QED
    BY <2>2, <2>3, <2>4, <2>5 DEF HasCause
<1> QED
  BY <1>1, <1>2

\* Failures keep their causes, and new ones have one.
LEMMA FailsStep ==
    ASSUME TypeOK, TypeOK', Configured, Begun, ValueFound, SecretsMade,
           FailsOnlyWithCause, Next
    PROVE  FailsOnlyWithCause'
<1>1. \A q \in Connections : HasCause(q)
  BY DEF FailsOnlyWithCause, HasCause
<1>2. SUFFICES \A q \in Connections : HasCause(q)'
  BY <1>2 DEF FailsOnlyWithCause, HasCause
<1>3. CASE UNCHANGED <<pc, table, seen, error>> /\ \A u \in Connections :
                                          causes[u] \subseteq causes'[u]
  BY <1>1, <1>3, CauseStays
<1>4. CASE Tick
  BY <1>3, <1>4, TypeParts DEF Tick, GhostTypes
<1>5. ASSUME NEW q \in Connections, QueryStep(q), NEW u \in Connections
      PROVE  HasCause(u)'
  <2>1. CASE u # q
    BY <1>1, <1>5, <2>1, OthersKeep, CauseStays
  <2>2. CASE u = q /\ pc'[q] = "failed"
    BY <1>5, <2>2, ThrowsWithCause
  <2>3. CASE u = q /\ pc'[q] # "failed"
    <3>1. error'[q] = "none"
      BY <2>3 DEF TypeOK
    <3> QED
      BY <2>3, <3>1 DEF HasCause
  <2> QED
    BY <2>1, <2>2, <2>3
<1> QED
  BY <1>3, <1>4, <1>5 DEF Next, QueryStep

-----------------------------------------------------------------------------
(* Secrets *)

\* The secrets that tables ask for do not change.
LEMMA SecretsOfStay ==
    ASSUME TypeOK, Next
    PROVE  \A t \in Tables : /\ TableSecrets(t)' = TableSecrets(t)
                             /\ SecretsOf(t)' = SecretsOf(t)
                             /\ NamesOf(t)' = NamesOf(t)
                             /\ UsesConfig(t)' <=> UsesConfig(t)
                             /\ KeptTooLong(t)' <=> KeptTooLong(t)
<1>1. UNCHANGED delegation
  BY ClockAndAnswers
<1>2. \A t \in Tables : /\ TableSecrets(t)' = TableSecrets(t)
                        /\ UsesConfig(t)' <=> UsesConfig(t)
                        /\ KeptTooLong(t)' <=> KeptTooLong(t)
  BY <1>1 DEF TableSecrets, UsesConfig, KeptTooLong, Scope, Cuts, LowerCase,
              ConfigName, StorageName
<1>3. \A t \in Tables : SecretsOf(t)' = SecretsOf(t)
  BY <1>2 DEF SecretsOf, ToSet
<1> QED
  BY <1>2, <1>3 DEF NamesOf

\* The keys that a table is to be read with stay so while a query runs.
LEMMA KeysStay ==
    ASSUME TypeOK, Begun, Next, NEW t \in Tables, NEW q \in Connections,
           pc[q] # "idle", seen'[q] = seen[q]
    PROVE  /\ KeysOf(q, t)' = KeysOf(q, t)
           /\ Owned(q, t)' <=> Owned(q, t)
<1>1. catalogs'[CatalogOf[t]] = catalogs[CatalogOf[t]]
  BY CatalogOfAssumption, AttachedStays DEF Begun
<1>2. UNCHANGED delegation
  BY ClockAndAnswers
<1>3. UsesConfig(t)' <=> UsesConfig(t)
  BY SecretsOfStay
<1>4. \A u \in Tables : SecretsOf(u)' = SecretsOf(u)
  BY SecretsOfStay
<1>5. KeysOf(q, t)' = KeysOf(q, t)
  BY <1>1, <1>3 DEF KeysOf, IsS3Tables
<1>6. Owned(q, t)' <=> Owned(q, t)
  BY <1>1, <1>2, <1>3, <1>4 DEF Owned, IsS3Tables
<1> QED
  BY <1>5, <1>6

\* A secret that is good for a table stays good while the query runs.
LEMMA GoodStays ==
    ASSUME TypeOK, Begun, Next, NEW t \in Tables, NEW q \in Connections,
           pc[q] # "idle", seen'[q] = seen[q], began'[q] = began[q],
           NEW s, NEW before, GoodFor(q, t, s, before),
           visible'[q][s.name] = before
    PROVE  GoodFor(q, t, s, visible[q][s.name])'
BY KeysStay, SecretsOfStay DEF GoodFor

\* The other steps of a query leave what it sees and has bound.
LEMMA OtherStepsKeep ==
    ASSUME NEW q \in Connections, QueryStep(q), ~CreateTableSecret(q),
           ~BindScan(q), ~Begin(q), ~Commit(q), ~RollBack(q)
    PROVE  UNCHANGED <<secrets, visible, bound, began, seen, made>>
<1>1. CASE Throws(q)
  BY <1>1, ThrowsWhat
<1> QED
  BY <1>1 DEF QueryStep, Step, Throws, Lookup, Request, Store, HasCachedValue,
              GetCachedValue

\* What is stored under a name was made for a table.
LEMMA SecretsMadeStep ==
    ASSUME TypeOK, BeingBound, SecretsMade, Next
    PROVE  SecretsMade'
<1>1. SharedTypes /\ TransactionTypes
  BY TypeParts
<1> SUFFICES /\ MadeForTables(secrets')
             /\ \A q \in Connections : MadeForTables(visible'[q])
  BY SecretsOfStay DEF SecretsMade, MadeForTables
<1>2. CASE UNCHANGED <<secrets, visible>>
  BY <1>2 DEF SecretsMade
<1>3. MadeForTables([n \in SecretNames |-> NoSecret])
  BY DEF MadeForTables
<1>4. ASSUME NEW q \in Connections, QueryStep(q)
      PROVE  /\ MadeForTables(secrets')
             /\ \A u \in Connections : MadeForTables(visible'[u])
  <2>1. \A u \in Connections \ {q} : MadeForTables(visible'[u])
    BY <1>4, OthersKeep DEF SecretsMade
  <2>2. CASE Begin(q)
    <3>1. visible'[q] = secrets /\ UNCHANGED secrets
      BY <1>1, <2>2 DEF Begin, TransactionTypes
    <3> QED
      BY <2>1, <3>1 DEF SecretsMade
  <2>3. CASE Commit(q)
    <3>1. visible'[q] = [n \in SecretNames |-> NoSecret]
      BY <1>1, <2>3 DEF Commit, Leave, TransactionTypes
    <3>2. \A n \in SecretNames : secrets'[n] \in {visible[q][n], secrets[n]}
      BY <2>3 DEF Commit
    <3>3. MadeForTables(secrets')
      BY <3>2 DEF MadeForTables, SecretsMade
    <3> QED
      BY <1>3, <2>1, <3>1, <3>3
  <2>4. CASE RollBack(q)
    <3>1. /\ visible'[q] = [n \in SecretNames |-> NoSecret]
          /\ UNCHANGED secrets
      BY <1>1, <2>4 DEF RollBack, Leave, TransactionTypes
    <3> QED
      BY <1>3, <2>1, <3>1 DEF SecretsMade
  <2>5. CASE CreateTableSecret(q)
    <3> DEFINE next == TableSecrets(table[q])[made[q] + 1]
    <3>1. UNCHANGED secrets /\ made[q] <= Len(TableSecrets(table[q]))
      BY <2>5 DEF CreateTableSecret, BeingBound, MadeGood
    <3>2. PICK secret \in Secret : CreateSecret(q, next.name, secret)
                                   /\ secret.scope = next.scope
      BY <2>5, <3>1, CreatedSecret
    <3>3. /\ table[q] \in Tables /\ next \in SecretsOf(table[q])
          /\ next.name \in SecretNames
      BY <1>1, <2>5, <3>1, CreatedSecret, TableSecretsTypes
    <3> HIDE DEF next
    <3>4. /\ visible'[q] = [visible[q] EXCEPT ![next.name] = secret]
          /\ visible[q] \in [SecretNames -> Secret]
      BY <1>1, <3>2, <3>3, CreateTypes DEF TransactionTypes
    <3>5. MadeForTables(visible[q])
      BY DEF SecretsMade
    <3>6. MadeForTables(visible'[q])
      BY <3>2, <3>3, <3>4, <3>5 DEF MadeForTables
    <3> QED
      BY <2>1, <3>1, <3>6 DEF SecretsMade
  <2>6. CASE BindScan(q)
    BY <1>2, <2>6 DEF BindScan
  <2> QED
    BY <1>2, <1>4, <2>2, <2>3, <2>4, <2>5, <2>6, OtherStepsKeep
<1> QED
  BY <1>2, <1>4 DEF Next, QueryStep, Tick

\* What GetSecret finds has keys that a table may be read with that takes
\* them in the place of its own.
LEMMA FoundKeys ==
    ASSUME TypeOK, SecretsMade, NEW q \in Connections, table[q] \in Tables,
           UsesConfig(table[q]), IsS3Tables(CatalogOfTable(q)),
           Owned(q, table[q]), NEW found \in SecretsFor(q)
    PROVE  found.keys \in KeysOf(q, table[q]) /\ found.expires = Forever
<1> DEFINE name == CatalogOfTable(q).secret_name
<1>1. KeysOf(q, table[q]) = IF name \in seen[q] THEN {name} ELSE seen[q]
  BY DEF KeysOf, CatalogOfTable
<1>2. CASE name \in seen[q]
  <2>1. found = UserSecret(name)
    BY <1>2 DEF SecretsFor
  <2> QED
    BY <1>1, <1>2, <2>1 DEF UserSecret
<1>3. CASE name \notin seen[q]
  <2>1. found \in Visible(q) /\ IsPrefix(found.scope, Root)
    BY <1>3 DEF SecretsFor, LookupSecret
  <2>2. \A u \in Tables : \A s \in SecretsOf(u) : ~IsPrefix(s.scope, Root)
    BY <1>3 DEF Owned, CatalogOfTable
  <2>3. \A n \in SecretNames : found = visible[q][n] => found = NoSecret
    BY <2>1, <2>2 DEF SecretsMade, MadeForTables
  <2>4. PICK s \in seen[q] : found = UserSecret(s)
    BY <2>1, <2>3 DEF Visible
  <2> QED
    BY <1>1, <1>3, <2>4 DEF UserSecret
<1> QED
  BY <1>2, <1>3

\* The secret that is made of an answer is good for the table.
LEMMA NewSecretGood ==
    ASSUME TypeOK, AnswerFresh, BeingBound, SecretsMade,
           NEW q \in Connections, CreateTableSecret(q)
    PROVE  LET t == table[q]
               next == TableSecrets(t)[made[q] + 1]
           IN  \E secret \in Secret : /\ CreateSecret(q, next.name, secret)
                                      /\ GoodFor(q, t, next, secret)
<1> DEFINE t == table[q]
           next == TableSecrets(t)[made[q] + 1]
<1>1. SharedTypes /\ GhostTypes
  BY TypeParts
<1>2. pc[q] = "create" /\ made[q] <= Len(TableSecrets(t))
  BY DEF CreateTableSecret, BeingBound, MadeGood
<1>3. t \in Tables /\ made[q] + 1 \in 1 .. Len(TableSecrets(t))
  BY <1>2, CreatedSecret
<1>4. PICK secret \in Secret :
         /\ CreateSecret(q, next.name, secret)
         /\ secret.scope = next.scope
         /\ \/ /\ UsesConfig(t)
               /\ \E found \in SecretsFor(q) :
                     secret = ConfigSecret(t, CatalogOfTable(q),
                                           response[q], found)
            \/ /\ ~UsesConfig(t)
               /\ secret = StorageSecret(t, response[q], next.scope)
  BY <1>2, CreatedSecret
<1>5. /\ response[q].config > began[q]
      /\ ~delegation[t].expiring => response[q].storage > began[q]
  BY <1>2 DEF AnswerFresh
<1>6. Forever > began[q]
  BY <1>1, TimeAssumption DEF GhostTypes, Forever
<1>7. ASSUME Owned(q, t)
      PROVE  secret.keys \in KeysOf(q, t)
             /\ (KeptTooLong(t) \/ secret.expires > began[q])
  <2>1. CASE UsesConfig(t) /\ ~IsS3Tables(CatalogOfTable(q))
    <3>1. delegation[t].config = "keys"
      BY <1>7, <2>1 DEF Owned, CatalogOfTable
    <3>2. secret.keys = t /\ secret.expires = response[q].config
      BY <1>4, <2>1, <3>1 DEF ConfigSecret
    <3>3. KeysOf(q, t) = {t}
      BY <2>1 DEF KeysOf, CatalogOfTable
    <3> QED
      BY <1>5, <3>2, <3>3
  <2>2. CASE UsesConfig(t) /\ IsS3Tables(CatalogOfTable(q))
    <3>1. PICK found \in SecretsFor(q) :
             secret = ConfigSecret(t, CatalogOfTable(q), response[q], found)
      BY <1>4, <2>2
    <3>2. secret.keys = found.keys /\ secret.expires = found.expires
      BY <2>2, <3>1 DEF ConfigSecret
    <3> QED
      BY <1>3, <1>6, <1>7, <2>2, <3>2, FoundKeys
  <2>3. CASE ~UsesConfig(t)
    <3>1. secret = StorageSecret(t, response[q], next.scope)
      BY <1>4, <2>3
    <3>2. secret.keys = t /\ secret.expires = response[q].storage
      BY <3>1 DEF StorageSecret
    <3>3. KeysOf(q, t) = {t}
      BY <2>3 DEF KeysOf
    <3>4. delegation[t].storage # <<>>
      <4>1. CASE delegation[t].storage = <<>>
        <5>1. TableSecrets(t) = [i \in DOMAIN <<>> |->
                 [name |-> StorageName(t, i, delegation[t].storage[i]),
                  scope |-> delegation[t].storage[i]]]
          BY <2>3, <4>1 DEF TableSecrets
        <5>2. DOMAIN TableSecrets(t) = 1 .. Len(TableSecrets(t))
          BY <1>1, <1>3, TableSecretsTypes
        <5>3. DOMAIN TableSecrets(t) = {}
          BY <5>1
        <5> QED
          BY <1>3, <5>2, <5>3
      <4> QED
        BY <4>1
    <3> QED
      BY <1>5, <3>2, <3>3, <3>4 DEF KeptTooLong
  <2> QED
    BY <2>1, <2>2, <2>3
<1> QED
  BY <1>4, <1>7 DEF GoodFor

\* A query comes to create secrets from an answer, with none made.
LEMMA ReachesCreate ==
    ASSUME TypeOK, Begun, NEW q \in Connections, QueryStep(q),
           pc'[q] = "create", ~CreateTableSecret(q)
    PROVE  made'[q] = 0 /\ table'[q] = table[q] /\ table[q] \in Tables
<1>1. ControlTypes
  BY TypeParts
<1>2. ~Throws(q)
  BY <1>1, ThrowsWhat DEF Throw, Goto, ControlTypes
<1>3. ~Begin(q) /\ ~Commit(q) /\ ~RollBack(q)
  BY OwnBeginning
<1>4. ~Lookup(q) /\ ~Request(q) /\ ~HasCachedValue(q) /\ ~BindScan(q)
  BY <1>1 DEF Lookup, Request, HasCachedValue, BindScan, Goto, ControlTypes
<1>5. Store(q) \/ GetCachedValue(q)
  BY <1>2, <1>3, <1>4 DEF QueryStep, Step, Throws
<1>6. /\ UNCHANGED <<table, made>> /\ pc[q] \in AtTable
      /\ pc[q] \notin {"create", "failed"}
  BY <1>5 DEF Store, GetCachedValue, AtTable
<1> QED
  BY <1>1, <1>6 DEF Begun, ControlTypes

\* What has been made for the table in hand stays good while nothing changes.
LEMMA MadeStays ==
    ASSUME TypeOK, Begun, Next, NEW q \in Connections, MadeGood(q),
           pc[q] = "create", table'[q] = table[q], made'[q] = made[q],
           seen'[q] = seen[q], visible'[q] = visible[q], began'[q] = began[q]
    PROVE  MadeGood(q)'
<1>1. PICK t \in Tables : t = table[q]
  BY TypeParts DEF ControlTypes, AtTable
<1>2. PICK list : list = TableSecrets(t)
  OBVIOUS
<1>3. TableSecrets(t)' = list /\ table'[q] = t
  BY <1>1, <1>2, SecretsOfStay
<1>4. ASSUME NEW i \in 1 .. made[q]
      PROVE  GoodFor(q, t, list[i], visible[q][list[i].name])'
  <2>1. GoodFor(q, t, list[i], visible[q][list[i].name])
    BY <1>1, <1>2 DEF MadeGood
  <2>2. visible'[q][list[i].name] = visible[q][list[i].name]
    OBVIOUS
  <2> QED
    BY <1>1, <2>1, <2>2, GoodStays
<1>5. made'[q] <= Len(list)
  BY <1>1, <1>2 DEF MadeGood
<1> QED
  BY <1>3, <1>4, <1>5 DEF MadeGood

\* What is made for the table in hand is good for it.
LEMMA BeingBoundStep ==
    ASSUME TypeOK, Begun, AnswerFresh, SecretsMade, BeingBound, Next
    PROVE  BeingBound'
<1>1. SharedTypes /\ ControlTypes /\ TransactionTypes
  BY TypeParts
<1>2. CASE UNCHANGED <<pc, table, made, seen, visible, began>>
  BY <1>2, MadeStays DEF BeingBound
<1>3. ASSUME NEW q \in Connections, QueryStep(q), pc'[q] = "create",
             ~CreateTableSecret(q)
      PROVE  MadeGood(q)'
  <2>1. made'[q] = 0 /\ table'[q] = table[q] /\ table[q] \in Tables
    BY <1>3, ReachesCreate
  <2>2. /\ TableSecrets(table[q])' = TableSecrets(table[q])
        /\ Len(TableSecrets(table[q])) \in Nat
    BY <1>1, <2>1, SecretsOfStay, TableSecretsTypes
  <2> QED
    BY <2>1, <2>2 DEF MadeGood
<1>4. ASSUME NEW q \in Connections, CreateTableSecret(q)
      PROVE  MadeGood(q)'
  <2>1. /\ pc[q] = "create" /\ UNCHANGED <<table, seen, began>>
        /\ MadeGood(q) /\ made[q] <= Len(TableSecrets(table[q]))
        /\ made'[q] = made[q] + 1 /\ made[q] \in Nat
    BY <1>1, <1>4
       DEF CreateTableSecret, BeingBound, MadeGood, TransactionTypes
  <2>2. PICK t \in Tables : t = table[q]
    BY <1>4, <2>1, CreatedSecret
  <2>3. PICK list : list = TableSecrets(t)
    OBVIOUS
  <2>4. PICK next : next = list[made[q] + 1]
    OBVIOUS
  <2>5. made[q] + 1 \in 1 .. Len(list) /\ next.name \in SecretNames
    BY <1>4, <2>1, <2>2, <2>3, <2>4, CreatedSecret
  <2>6. PICK secret \in Secret : /\ CreateSecret(q, next.name, secret)
                                 /\ GoodFor(q, t, next, secret)
    BY <1>4, <2>2, <2>3, <2>4, NewSecretGood
  <2>7. /\ visible'[q] = [visible[q] EXCEPT ![next.name] = secret]
        /\ visible[q] \in [SecretNames -> Secret]
    BY <1>1, <2>5, <2>6, CreateTypes DEF TransactionTypes
  <2>8. \A i \in 1 .. made[q] : list[i].name \in SecretNames
                                /\ list[i].name # next.name
    BY <1>1, <2>1, <2>3, <2>4, <2>5, TableSecretsTypes
  <2>9. ASSUME NEW i \in 1 .. made'[q]
        PROVE  GoodFor(q, t, list[i], visible[q][list[i].name])'
    <3>1. CASE i = made[q] + 1
      <4>1. visible'[q][list[i].name] = secret /\ GoodFor(q, t, list[i], secret)
        BY <2>4, <2>5, <2>6, <2>7, <3>1
      <4> QED
        BY <2>1, <4>1, GoodStays
    <3>2. CASE i # made[q] + 1
      <4>1. i \in 1 .. made[q]
        BY <2>1, <3>2
      <4>2. GoodFor(q, t, list[i], visible[q][list[i].name])
        BY <2>1, <2>2, <2>3, <4>1 DEF MadeGood
      <4>3. visible'[q][list[i].name] = visible[q][list[i].name]
        BY <2>7, <2>8, <4>1
      <4> QED
        BY <2>1, <4>2, <4>3, GoodStays
    <3> QED
      BY <3>1, <3>2
  <2>10. /\ TableSecrets(t)' = list /\ table'[q] = t
         /\ made'[q] <= Len(list)
    BY <2>1, <2>2, <2>3, <2>5, SecretsOfStay
  <2> QED
    BY <2>9, <2>10 DEF MadeGood
<1>5. ASSUME NEW q \in Connections, QueryStep(q)
      PROVE  BeingBound'
  <2>1. ASSUME NEW u \in Connections \ {q}, pc'[u] = "create"
        PROVE  MadeGood(u)'
    BY <1>5, <2>1, OthersKeep, MadeStays DEF BeingBound
  <2>2. pc'[q] = "create" => MadeGood(q)'
    BY <1>3, <1>4, <1>5
  <2> QED
    BY <2>1, <2>2 DEF BeingBound
<1> QED
  BY <1>2, <1>5 DEF Next, QueryStep, Tick

\* The secrets of a table of a query are good, unless another has their names.
BoundGood(q, t) == Undisturbed(q, t) =>
    \A s \in SecretsOf(t) : GoodFor(q, t, s, visible[q][s.name])

\* They stay good while no table leaves the query and what it sees stays.
LEMMA BoundStays ==
    ASSUME TypeOK, Begun, Next, NEW q \in Connections, NEW t \in Tables,
           BoundGood(q, t), pc[q] # "idle",
           bound[q] \cup {table[q]} \subseteq bound'[q] \cup {table'[q], NoTable},
           bound'[q] \subseteq Tables, table'[q] \in Tables \cup {NoTable},
           visible'[q] = visible[q], seen'[q] = seen[q], began'[q] = began[q]
    PROVE  BoundGood(q, t)'
<1> SUFFICES ASSUME Undisturbed(q, t)', NEW s \in SecretsOf(t)
             PROVE  GoodFor(q, t, s, visible[q][s.name])'
  <2>1. SecretsOf(t)' = SecretsOf(t)
    BY SecretsOfStay
  <2> QED
    BY <2>1 DEF BoundGood
<1>1. \A u \in Tables : NamesOf(u)' = NamesOf(u)
  BY SecretsOfStay
<1>2. Undisturbed(q, t)
  BY <1>1 DEF Undisturbed
<1>3. GoodFor(q, t, s, visible[q][s.name])
  BY <1>2 DEF BoundGood
<1> QED
  BY <1>3, GoodStays

\* A table is bound with the secrets that were created for it.
LEMMA BoundStep ==
    ASSUME TypeOK, TypeOK', Begun, BeingBound, BoundHaveSecrets, Next
    PROVE  BoundHaveSecrets'
<1>1. SharedTypes /\ ControlTypes /\ TransactionTypes /\ GhostTypes
  BY TypeParts
<1>2. /\ bound' \in [Connections -> SUBSET Tables]
      /\ table' \in [Connections -> Tables \cup {NoTable}]
  BY DEF TypeOK
<1>3. \A q \in Connections : \A t \in bound[q] : t \in Tables /\ BoundGood(q, t)
  BY <1>1 DEF BoundHaveSecrets, BoundGood, ControlTypes
<1>4. SUFFICES \A q \in Connections : \A t \in bound'[q] : BoundGood(q, t)'
  BY <1>4 DEF BoundHaveSecrets, BoundGood
<1>5. \A q \in Connections : pc[q] = "idle" => bound[q] = {}
  BY DEF Begun
<1>6. ASSUME NEW q \in Connections, bound'[q] = bound[q],
             table[q] \in {NoTable, table'[q]},
             visible'[q] = visible[q], seen'[q] = seen[q], began'[q] = began[q],
             NEW t \in bound'[q]
      PROVE  BoundGood(q, t)'
  <2>1. /\ bound[q] \cup {table[q]} \subseteq bound'[q] \cup {table'[q], NoTable}
        /\ bound'[q] \subseteq Tables /\ table'[q] \in Tables \cup {NoTable}
        /\ t \in Tables /\ BoundGood(q, t) /\ pc[q] # "idle"
    BY <1>2, <1>3, <1>5, <1>6
  <2> QED
    BY <1>6, <2>1, BoundStays
<1>7. CASE UNCHANGED <<bound, table, visible, seen, began>>
  BY <1>6, <1>7
<1>8. ASSUME NEW q \in Connections, CreateTableSecret(q), NEW t \in bound'[q]
      PROVE  BoundGood(q, t)'
  <2>1. /\ pc[q] = "create" /\ UNCHANGED <<bound, table, seen, began>>
        /\ made[q] <= Len(TableSecrets(table[q]))
    BY <1>8 DEF CreateTableSecret, BeingBound, MadeGood
  <2> DEFINE next == TableSecrets(table[q])[made[q] + 1]
  <2>2. /\ table[q] \in Tables /\ next.name \in SecretNames
        /\ next.name \in NamesOf(table[q])
    BY <1>1, <1>8, <2>1, CreatedSecret, TableSecretsTypes DEF NamesOf
  <2>3. PICK secret \in Secret : CreateSecret(q, next.name, secret)
    BY <1>8, <2>1, CreatedSecret
  <2> HIDE DEF next
  <2>4. /\ visible'[q] = [visible[q] EXCEPT ![next.name] = secret]
        /\ visible[q] \in [SecretNames -> Secret]
    BY <1>1, <2>2, <2>3, CreateTypes DEF TransactionTypes
  <2>5. t \in bound[q] /\ t \in Tables /\ t # table[q] /\ table[q] # NoTable
    <3>1. t \in bound[q] /\ table[q] \in todo[q] /\ todo[q] \cap bound[q] = {}
      BY <1>1, <1>8, <2>1 DEF ControlTypes, AtTable
    <3> QED
      BY <1>1, <2>2, <3>1, DistinctAssumption DEF ControlTypes
  <2>6. ASSUME Undisturbed(q, t)', NEW s \in SecretsOf(t)
        PROVE  GoodFor(q, t, s, visible[q][s.name])'
    <3>1. \A u \in Tables : NamesOf(u)' = NamesOf(u)
      BY SecretsOfStay
    <3>2. Undisturbed(q, t)
      BY <1>1, <2>1, <2>5, <2>6, <3>1 DEF Undisturbed, ControlTypes
    <3>3. GoodFor(q, t, s, visible[q][s.name])
      BY <1>3, <2>5, <3>2 DEF BoundGood
    <3>4. NamesOf(table[q]) \cap NamesOf(t) = {}
      BY <2>5, <3>2 DEF Undisturbed
    <3>5. s.name \in NamesOf(t) /\ s.name \in SecretNames
      BY <1>1, <2>5, SecretsOfTypes
    <3>6. visible'[q][s.name] = visible[q][s.name]
      BY <2>2, <2>4, <3>4, <3>5
    <3> QED
      BY <2>1, <2>5, <3>3, <3>6, GoodStays
  <2>7. SecretsOf(t)' = SecretsOf(t)
    BY <2>5, SecretsOfStay
  <2> QED
    BY <2>6, <2>7 DEF BoundGood
<1>9. ASSUME NEW q \in Connections, BindScan(q), NEW t \in bound'[q]
      PROVE  BoundGood(q, t)'
  <2>1. /\ pc[q] = "create" /\ UNCHANGED <<visible, seen, began>>
        /\ bound'[q] = bound[q] \cup {table[q]} /\ table'[q] = NoTable
        /\ made[q] = Len(TableSecrets(table[q]))
        /\ table[q] \in Tables /\ MadeGood(q)
    BY <1>1, <1>9 DEF BindScan, AllMade, BeingBound, ControlTypes, AtTable
  <2>2. t \in Tables /\ BoundGood(q, t)
    <3>1. CASE t \in bound[q]
      BY <1>3, <3>1
    <3>2. CASE t = table[q]
      <4>1. ASSUME NEW s \in SecretsOf(t)
            PROVE  GoodFor(q, t, s, visible[q][s.name])
        <5>1. PICK i \in 1 .. Len(TableSecrets(t)) : s = TableSecrets(t)[i]
          BY <1>1, <2>1, <3>2, <4>1, SecretsOfTypes
        <5> QED
          BY <2>1, <3>2, <5>1 DEF MadeGood
      <4> QED
        BY <2>1, <3>2, <4>1 DEF BoundGood
    <3> QED
      BY <1>9, <2>1, <3>1, <3>2
  <2>3. bound[q] \cup {table[q]} \subseteq bound'[q] \cup {table'[q], NoTable}
    BY <2>1
  <2> QED
    BY <1>2, <2>1, <2>2, <2>3, BoundStays
<1>10. ASSUME NEW q \in Connections, QueryStep(q), NEW u \in Connections,
              NEW t \in bound'[u]
       PROVE  BoundGood(u, t)'
  <2>1. CASE u # q
    BY <1>6, <1>10, <2>1, OthersKeep
  <2>2. CASE u = q /\ (Begin(q) \/ Commit(q) \/ RollBack(q))
    <3>1. bound'[q] = {}
      BY <1>5, <1>10, <2>2, OwnBeginning
    <3> QED
      BY <1>10, <2>2, <3>1
  <2>3. CASE u = q /\ CreateTableSecret(q)
    BY <1>8, <1>10, <2>3
  <2>4. CASE u = q /\ BindScan(q)
    BY <1>9, <1>10, <2>4
  <2>5. CASE /\ u = q /\ ~CreateTableSecret(q) /\ ~BindScan(q)
             /\ ~Begin(q) /\ ~Commit(q) /\ ~RollBack(q)
    <3>1. UNCHANGED <<visible, bound, began, seen>>
      BY <1>10, <2>5, OtherStepsKeep
    <3>2. table[q] \in {NoTable, table'[q]}
      <4>1. CASE Lookup(q)
        BY <4>1 DEF Lookup, Begun
      <4>2. CASE Throws(q)
        BY <4>2, ThrowsWhat
      <4> QED
        BY <1>10, <2>5, <4>1, <4>2
           DEF QueryStep, Step, Throws, Request, Store, HasCachedValue,
               GetCachedValue
    <3> QED
      BY <1>6, <1>10, <2>5, <3>1, <3>2
  <2> QED
    BY <2>1, <2>2, <2>3, <2>4, <2>5
<1> QED
  BY <1>7, <1>10 DEF Next, QueryStep, Tick

-----------------------------------------------------------------------------
(* The invariant and what follows from it *)

\* The invariant holds before anything is attached.
LEMMA InitInv == Init => Inv
<1> SUFFICES ASSUME Init PROVE Inv
  OBVIOUS
<1>1. TypeOK
  BY InitTypes
<1>2. Configured
  BY DEF Init, AttachInit, Detached, Configured
<1>3. Begun /\ AnswerFresh /\ ValueFound /\ BeingBound /\ BoundHaveSecrets
  BY DEF Init, Begun, AnswerFresh, ValueFound, BeingBound, BoundHaveSecrets
<1>4. FailsOnlyWithCause
  BY DEF Init, FailsOnlyWithCause
<1>5. SecretsMade
  BY DEF Init, SecretsMade, MadeForTables
<1>6. CacheExpiring
  BY DEF Init, CacheExpiring, NoTimes
<1> QED
  BY <1>1, <1>2, <1>3, <1>4, <1>5, <1>6 DEF Inv

\* No step leaves the invariant.
LEMMA NextInv == Inv /\ Next => Inv'
<1> SUFFICES ASSUME Inv, Next PROVE Inv'
  OBVIOUS
<1>1. TypeOK'
  BY TypeStep DEF Inv
<1>2. Configured' /\ Begun' /\ CacheExpiring' /\ AnswerFresh' /\ ValueFound'
  BY <1>1, ConfiguredStep, BegunStep, CacheExpiringStep, AnswerFreshStep,
     ValueFoundStep DEF Inv
<1>3. SecretsMade' /\ BeingBound' /\ BoundHaveSecrets' /\ FailsOnlyWithCause'
  BY <1>1, SecretsMadeStep, BeingBoundStep, BoundStep, FailsStep DEF Inv
<1> QED
  BY <1>1, <1>2, <1>3 DEF Inv

\* Nor does a step that changes nothing.
LEMMA StutterInv == Inv /\ UNCHANGED vars => Inv'
<1> SUFFICES ASSUME Inv, UNCHANGED vars PROVE Inv'
  OBVIOUS
<1>1. TypeOK' /\ Configured' /\ Begun' /\ CacheExpiring' /\ AnswerFresh'
      /\ ValueFound'
  BY DEF vars, Inv, TypeOK, AttachTypeOK, Configured, ServedPrefix, IsAws,
         Begun, CacheExpiring, AnswerFresh, ValueFound
<1>2. \A t \in Tables : /\ TableSecrets(t)' = TableSecrets(t)
                        /\ UsesConfig(t)' <=> UsesConfig(t)
                        /\ KeptTooLong(t)' <=> KeptTooLong(t)
  BY DEF vars, TableSecrets, UsesConfig, KeptTooLong, Scope, Cuts, LowerCase,
         ConfigName, StorageName
<1>3. \A t \in Tables : SecretsOf(t)' = SecretsOf(t) /\ NamesOf(t)' = NamesOf(t)
  BY <1>2 DEF SecretsOf, NamesOf, ToSet
<1>4. SecretsMade' /\ FailsOnlyWithCause'
  BY <1>3 DEF vars, Inv, SecretsMade, MadeForTables, FailsOnlyWithCause,
              CatalogOfTable, IsAws
<1>5. \A q \in Connections : \A t \in Tables : /\ KeysOf(q, t)' = KeysOf(q, t)
                                               /\ Owned(q, t)' <=> Owned(q, t)
  BY <1>2, <1>3 DEF vars, KeysOf, Owned, IsS3Tables
<1>6. \A q \in Connections : \A t \in Tables : \A s, secret :
         GoodFor(q, t, s, secret)' <=> GoodFor(q, t, s, secret)
  BY <1>2, <1>5 DEF vars, GoodFor
<1>7. ControlTypes
  BY TypeParts DEF Inv
<1>8. BoundHaveSecrets'
  <2> SUFFICES ASSUME NEW q \in Connections, NEW t \in bound[q],
                      Undisturbed(q, t)', NEW s \in SecretsOf(t)
               PROVE  GoodFor(q, t, s, visible[q][s.name])'
    BY <1>3, <1>7 DEF vars, BoundHaveSecrets, ControlTypes
  <2>1. t \in Tables /\ bound[q] \cup {table[q]} \subseteq Tables \cup {NoTable}
    BY <1>7 DEF ControlTypes
  <2>2. Undisturbed(q, t)
    BY <1>3, <2>1 DEF vars, Undisturbed
  <2>3. GoodFor(q, t, s, visible[q][s.name])
    BY <2>2 DEF Inv, BoundHaveSecrets
  <2> QED
    BY <1>6, <2>1, <2>3 DEF vars
<1>9. BeingBound'
  <2> SUFFICES ASSUME NEW q \in Connections, pc[q] = "create"
               PROVE  MadeGood(q)'
    BY DEF vars, BeingBound
  <2>1. PICK t \in Tables : t = table[q]
    BY <1>7 DEF ControlTypes, AtTable
  <2>2. PICK list : list = TableSecrets(t)
    OBVIOUS
  <2>3. MadeGood(q)
    BY DEF Inv, BeingBound
  <2>4. \A i \in 1 .. made[q] :
           GoodFor(q, t, list[i], visible[q][list[i].name])'
    BY <1>6, <2>1, <2>2, <2>3 DEF vars, MadeGood
  <2>5. TableSecrets(t)' = list /\ table'[q] = t /\ UNCHANGED made
    BY <1>2, <2>1, <2>2 DEF vars
  <2>6. made[q] <= Len(list)
    BY <2>1, <2>2, <2>3 DEF MadeGood
  <2> QED
    BY <2>4, <2>5, <2>6 DEF MadeGood
<1> QED
  BY <1>1, <1>4, <1>8, <1>9 DEF Inv

\* The invariant holds always.
LEMMA SpecInv == Spec => []Inv
<1>1. Inv /\ [Next]_vars => Inv'
  BY NextInv, StutterInv
<1> QED
  BY <1>1, InitInv, PTL DEF Spec

\* Where its own secrets are good and placed, one of them is chosen.
LEMMA OwnSecretChosen ==
    ASSUME Inv, NEW q \in Connections, NEW t \in Tables, Covered(q, t),
           \A s \in SecretsOf(t) : GoodFor(q, t, s, visible[q][s.name])
    PROVE  ReadsOwn(q, t)
<1>1. TypeOK /\ SharedTypes /\ TransactionTypes /\ Owned(q, t) /\ Placed(t)
  BY TypeParts DEF Inv, Covered
<1> SUFFICES ASSUME NEW file \in Files[t]
             PROVE  /\ LookupSecret(q, file) # {}
                    /\ \A c \in LookupSecret(q, file) :
                          /\ c.keys \in KeysOf(q, t)
                          /\ KeptTooLong(t) \/ c.expires > began[q]
  BY DEF ReadsOwn
<1>2. PICK s \in SecretsOf(t) :
         /\ IsPrefix(s.scope, file)
         /\ Len(Root) < Len(s.scope)
         /\ \A o \in OtherSecrets(t) : IsPrefix(o.scope, file)
                                          => Len(o.scope) < Len(s.scope)
  BY <1>1 DEF Placed
<1> DEFINE have == visible[q][s.name]
<1>3. /\ have.scope = s.scope /\ have.keys \in KeysOf(q, t)
      /\ s.name \in SecretNames
  BY <1>1, <1>2, SecretsOfTypes DEF GoodFor
<1>4. KeysOf(q, t) \subseteq Tables \cup UserSecrets
  BY <1>1 DEF KeysOf, TransactionTypes
<1>5. have \in Visible(q)
  <2>1. have.keys # NoKeys
    BY <1>3, <1>4, DistinctAssumption
  <2>2. have # NoSecret
    BY <2>1 DEF NoSecret
  <2> QED
    BY <1>3, <2>2 DEF Visible
<1>6. file \in Path
  BY PathsAssumption
<1>7. LookupSecret(q, file) # {}
  BY <1>1, <1>2, <1>3, <1>5, <1>6, LookupFinds
<1>8. ASSUME NEW c \in LookupSecret(q, file)
      PROVE  /\ c.keys \in KeysOf(q, t)
             /\ KeptTooLong(t) \/ c.expires > began[q]
  <2>1. /\ c \in Visible(q) /\ IsPrefix(c.scope, file)
        /\ Len(s.scope) <= Len(c.scope)
    BY <1>2, <1>3, <1>5, <1>8 DEF LookupSecret
  <2>2. Len(s.scope) \in Nat /\ Len(c.scope) \in Nat /\ Len(Root) \in Nat
    <3>1. s.scope \in Path /\ c.scope \in Path /\ Root \in Path
      BY <1>1, <1>2, <2>1, SecretsOfTypes, FoundTypes, PathsAssumption DEF Secret
    <3> QED
      BY <3>1, LenProperties DEF Path
  <2>3. \A u \in seen[q] : c # UserSecret(u)
    BY <1>2, <2>1, <2>2 DEF UserSecret
  <2>4. PICK n \in SecretNames : c = visible[q][n] /\ c # NoSecret
    BY <2>1, <2>3 DEF Visible
  <2>5. PICK u \in Tables : \E o \in SecretsOf(u) : o.name = n /\ o.scope = c.scope
    BY <2>4 DEF Inv, SecretsMade, MadeForTables
  <2>6. PICK o \in SecretsOf(u) : o.name = n /\ o.scope = c.scope
    BY <2>5
  <2>7. n \in NamesOf(t)
    <3>1. CASE n \notin NamesOf(t)
      <4>1. o \in OtherSecrets(t)
        BY <2>6, <3>1 DEF OtherSecrets
      <4> QED
        BY <1>2, <2>1, <2>2, <2>6, <4>1
    <3> QED
      BY <3>1
  <2>8. PICK own \in SecretsOf(t) : own.name = n
    BY <2>7 DEF NamesOf
  <2> QED
    BY <1>1, <2>4, <2>8 DEF GoodFor
<1> QED
  BY <1>7, <1>8

\* Tables were bound with the secrets that a scan of them needs.
LEMMA InvAuthorizes == Inv => ScanAuthorized
<1> SUFFICES ASSUME Inv, NEW q \in Connections
             PROVE  /\ pc[q] = "scan" =>
                          \A t \in bound[q] :
                             Alone(q, t) /\ Covered(q, t) => ReadsOwn(q, t)
                    /\ pc[q] = "create" /\ made[q] # 0 /\ AllMade(q) =>
                          (Covered(q, table[q]) => ReadsOwn(q, table[q]))
  BY DEF ScanAuthorized
<1>1. SharedTypes /\ ControlTypes
  BY TypeParts DEF Inv
<1>2. ASSUME pc[q] = "scan", NEW t \in bound[q], Alone(q, t), Covered(q, t)
      PROVE  ReadsOwn(q, t)
  <2>1. table[q] = NoTable /\ t \in Tables
    BY <1>1, <1>2 DEF Inv, Begun, ControlTypes
  <2>2. Undisturbed(q, t)
    BY <1>2, <2>1 DEF Undisturbed, Alone
  <2> QED
    BY <1>2, <2>1, <2>2, OwnSecretChosen DEF Inv, BoundHaveSecrets
<1>3. ASSUME pc[q] = "create", AllMade(q), Covered(q, table[q])
      PROVE  ReadsOwn(q, table[q])
  <2>1. table[q] \in Tables /\ MadeGood(q)
    BY <1>1, <1>3 DEF Inv, BeingBound, ControlTypes, AtTable
  <2>2. ASSUME NEW s \in SecretsOf(table[q])
        PROVE  GoodFor(q, table[q], s, visible[q][s.name])
    <3>1. PICK i \in 1 .. Len(TableSecrets(table[q])) :
              s = TableSecrets(table[q])[i]
      BY <1>1, <2>1, SecretsOfTypes
    <3> QED
      BY <1>3, <2>1, <3>1 DEF AllMade, MadeGood
  <2> QED
    BY <1>3, <2>1, <2>2, OwnSecretChosen
<1> QED
  BY <1>2, <1>3

\* The state of attached catalogs, of their caches and of the queries is well
\* typed, for any catalogs, tables, connections and secrets.
THEOREM TypeCorrect == Spec => []TypeOK
BY SpecInv, PTL DEF Inv

\* When a table is bound and when it is scanned, whatever secret is chosen for
\* its files has its keys, which were live when the query began, wherever the
\* scopes and the names of all tables allow it, for any locations, answers,
\* catalogs, connections and secrets, any lifetimes and any failures.
THEOREM ScansAreAuthorized == Spec => []ScanAuthorized
BY SpecInv, InvAuthorizes, PTL

\* A cached value is missed, a request refused and a secret not found only
\* with a cause, for any catalogs, tables, connections, secrets and answers.
THEOREM FailuresHaveCauses == Spec => []FailsOnlyWithCause
BY SpecInv, PTL DEF Inv

=============================================================================
