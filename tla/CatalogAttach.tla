--------------------------- MODULE CatalogAttach ---------------------------
(***************************************************************************)
(* ATTACH of REST catalogs: IcebergCatalogAttach reads the options, finds a *)
(* secret, fetches a token, and asks the catalog for its configuration      *)
(* (src/src/iceberg_extension.cpp, src/src/catalog_api.cpp,                 *)
(* src/src/storage/irc_catalog.cpp).  Requests fail, tokens expire, and the *)
(* user may drop a secret between any two steps.                            *)
(*                                                                         *)
(* An attempt that throws leaves the catalog detached.  Regions, scopes and *)
(* URIs are data that no property tells apart; of a host it matters only    *)
(* which of the services it names the code takes it for.                    *)
(***************************************************************************)
EXTENDS Integers

CONSTANTS
    Catalogs,
    UserSecrets,    \* the names of the user's s3 secrets
    Unnamed,        \* ATTACH has no secret option
    Regional,       \* the user's secrets that have a region
    Options,        \* for each catalog, the options of the attempts
    Defaults,       \* for each catalog, the prefix among its defaults
    Overrides,      \* for each catalog, the prefix among its overrides
    NoPrefix,
    MaxTime,        \* bound: the clock's last time
    Lifetime,       \* bound: how long credentials last
    TokenLifetimes, \* how long tokens last
    MaxFailures     \* bound: requests that fail

\* When credentials without an expiry do.
Forever == MaxTime + Lifetime + 1

AttachOption == [known : BOOLEAN,
                 endpoint_type : {"", "glue", "s3_tables", "unknown"},
                 endpoint : {"", "rest", "glue", "gluelike", "s3tables",
                             "s3tableslike"},
                 secret : UserSecrets \cup {Unnamed},
                 warehouse : {"arn", "account", "plain"}]

ASSUME TimeAssumption == MaxTime \in Nat /\ Lifetime \in Nat \ {0}
ASSUME TokenAssumption == TokenLifetimes \subseteq Nat \ {0}
ASSUME AttachFailuresAssumption == MaxFailures \in Nat
ASSUME UnnamedAssumption == Unnamed \notin UserSecrets
ASSUME OptionsAssumption == Options \in [Catalogs -> SUBSET AttachOption]

VARIABLES
    now,
    userSecrets,    \* the user's secrets that have not been dropped
    failures,       \* how many requests failed
    catalogs        \* the attached databases and the attempts under way

attachVars == <<now, userSecrets, failures, catalogs>>

Prefix == {NoPrefix} \cup {Defaults[c] : c \in Catalogs}
                     \cup {Overrides[c] : c \in Catalogs}

Catalog == [at : {"detached", "token", "config", "attached"},
            catalog_type : {"AWS_S3TABLES", "AWS_GLUE", "OTHER", "INVALID"},
            \* "glue" and "s3tables" have a dot after the service, others not
            host : {"", "rest", "glue", "gluelike", "s3tables", "s3tableslike"},
            warehouse : {"arn", "account", "plain"},
            secret_name : UserSecrets \cup {Unnamed},
            token : Nat,      \* when it expires, 0: none
            prefix : Prefix]

Detached == [at |-> "detached", catalog_type |-> "INVALID", host |-> "",
             warehouse |-> "plain", secret_name |-> Unnamed, token |-> 0,
             prefix |-> NoPrefix]

AttachTypeOK ==
    /\ now \in 0 .. MaxTime
    /\ userSecrets \subseteq UserSecrets
    /\ failures \in 0 .. MaxFailures
    /\ catalogs \in [Catalogs -> Catalog]

AttachInit ==
    /\ now = 0
    /\ userSecrets = UserSecrets
    /\ failures = 0
    /\ catalogs = [c \in Catalogs |-> Detached]

-----------------------------------------------------------------------------
(* Secrets and requests *)

\* IRCatalog::GetSecret: the named secret, or what the secret manager finds
\* for s3://, if it has been dropped or none was named.  Empty: it throws.
GetSecret(secret_name) ==
    IF secret_name \in userSecrets THEN {secret_name} ELSE userSecrets

\* GetRequest takes a host for one of AWS if it begins with a service and a
\* dot, whatever the type of the catalog.
IsAws(catalog) == catalog.host \in {"glue", "s3tables"}

\* GetRequest signs what it sends to AWS with the secret and sends the token
\* to any other host.
Authorized(catalog) == IF IsAws(catalog)
                       THEN GetSecret(catalog.secret_name) # {}
                       ELSE now < catalog.token

\* GetConfig reads the defaults and then the overrides.
ReadPrefix(c) ==
    IF Overrides[c] # NoPrefix THEN Overrides[c] ELSE Defaults[c]

-----------------------------------------------------------------------------
(* IcebergCatalogAttach *)

\* SanityCheckGlueWarehouse, and the parts of the ARN of S3 Tables.
ValidWarehouse(o) == /\ o.endpoint_type = "glue" => o.warehouse = "account"
                     /\ o.endpoint_type = "s3_tables" => o.warehouse = "arn"

\* The options of an AWS catalog, whose secret must have a region.
AwsOptions(o, secret) == /\ o.endpoint_type \in {"glue", "s3_tables"}
                         /\ secret \in Regional
                         /\ ValidWarehouse(o)

\* The options of any other catalog.
RestOptions(o) == o.endpoint_type = "" /\ o.endpoint # ""

AwsCatalog(o) ==
    [Detached EXCEPT !.at = "config",
                     !.secret_name = o.secret,
                     !.warehouse = o.warehouse,
                     !.catalog_type = IF o.endpoint_type = "glue"
                                      THEN "AWS_GLUE" ELSE "AWS_S3TABLES",
                     !.host = IF o.endpoint_type = "glue"
                              THEN "glue" ELSE "s3tables"]

\* Mutant of RestCatalog: no token is fetched.
RestCatalogWithoutToken(o) ==
    [Detached EXCEPT !.at = "config",
                     !.secret_name = o.secret,
                     !.warehouse = o.warehouse,
                     !.catalog_type = "OTHER",
                     !.host = o.endpoint]

RestCatalog(o) ==
    [Detached EXCEPT !.at = "token",
                     !.secret_name = o.secret,
                     !.warehouse = o.warehouse,
                     !.catalog_type = "OTHER",
                     !.host = o.endpoint]

\* Reads the options and looks for a secret; without one, with an unknown
\* option or a wrong combination of them nothing is attached.
Attach(c) ==
    /\ catalogs[c].at = "detached"
    /\ \E o \in Options[c] :
          /\ o.known
          /\ \E secret \in GetSecret(o.secret) :
                \/ /\ AwsOptions(o, secret)
                   /\ catalogs' = [catalogs EXCEPT ![c] = AwsCatalog(o)]
                \/ /\ RestOptions(o)
                   /\ catalogs' = [catalogs EXCEPT ![c] = RestCatalog(o)]
    /\ UNCHANGED <<now, userSecrets, failures>>

\* CreateCatalogSecretFunction: GetToken with the keys of the secret found.
GetToken(c) ==
    /\ catalogs[c].at = "token"
    /\ \E lifetime \in TokenLifetimes :
          catalogs' = [catalogs EXCEPT ![c].token = now + lifetime,
                                       ![c].at = "config"]
    /\ UNCHANGED <<now, userSecrets, failures>>

GetConfig(c) ==
    /\ catalogs[c].at = "config"
    /\ Authorized(catalogs[c])
    /\ catalogs' = [catalogs EXCEPT ![c].prefix = ReadPrefix(c),
                                    ![c].at = "attached"]
    /\ UNCHANGED <<now, userSecrets, failures>>

RequestFails == failures < MaxFailures /\ failures' = failures + 1

\* A request fails, or the catalog does not accept the token or finds no
\* secret to sign with.
AttachThrows(c) ==
    /\ \/ catalogs[c].at \in {"token", "config"} /\ RequestFails
       \/ /\ catalogs[c].at = "config"
          /\ ~Authorized(catalogs[c])
          /\ UNCHANGED failures
    /\ catalogs' = [catalogs EXCEPT ![c] = Detached]
    /\ UNCHANGED <<now, userSecrets>>

\* DROP SECRET
DropSecret(s) ==
    /\ s \in userSecrets
    /\ userSecrets' = userSecrets \ {s}
    /\ UNCHANGED <<now, failures, catalogs>>

AttachStep(c) == Attach(c) \/ GetToken(c) \/ GetConfig(c) \/ AttachThrows(c)

=============================================================================
