------------------------- MODULE MCTableCredentials -------------------------
(* TableCredentials for two catalogs.  c1 has t1 and v, whose metadata file  *)
(* is in no directory "metadata"; c2 has t2, in a bucket named for metadata, *)
(* and u1, which has t1's schema and name, and a place among t1's files.     *)
EXTENDS TableCredentials, TLC

CONSTANTS c1, c2, t1, t2, u1, v, n1, n2, n3, p1, p2, s1, s2, q1, q2

MCCatalogOf == [t \in Tables |-> IF t \in {t1, v} THEN c1 ELSE c2]
MCSchemaOf == [t \in Tables |-> IF t = t2 THEN "lake" ELSE "sales"]
MCNameOf == [t \in Tables |-> IF t = t2 THEN n2 ELSE IF t = v THEN n3 ELSE n1]
MCQueries == {{t1, u1}, {t2}, {v}}

MCDefaults == [c \in Catalogs |-> IF c = c1 THEN p1 ELSE NoPrefix]
MCOverrides == [c \in Catalogs |-> IF c = c1 THEN p2 ELSE NoPrefix]

Rest == [known |-> TRUE, endpoint_type |-> "", endpoint |-> "rest",
         secret |-> Unnamed, warehouse |-> "plain"]
Glue == [Rest EXCEPT !.endpoint_type = "glue", !.warehouse = "account",
                     !.secret = s1]
S3Tables == [Glue EXCEPT !.endpoint_type = "s3_tables", !.warehouse = "arn"]

SignedRest == [Rest EXCEPT !.endpoint = "s3tables"]

MCOptions == [c \in Catalogs |-> IF c = c1 THEN {Rest}
                                 ELSE {Glue, S3Tables, SignedRest}]

\* s3://sales/t1/metadata, s3://sales/t1/u1/Metadata, s3://metadata-lake/..
MCRoot == <<"s3://">>
T1 == MCRoot \o <<"sales/", "t1/">>
U1 == T1 \o <<"u1/">>
T2 == MCRoot \o <<"metadata", "-lake/">>
V == MCRoot \o <<"sales/", "v/">>

MCLower == [p \in {"s3://", "sales/", "t1/", "u1/", "v/", "metadata",
                   "Metadata", "-lake/", "-trail/", "/"}
              |-> IF p = "Metadata" THEN "metadata" ELSE p]

MCLocation == [t \in Tables |-> CASE t = t1 -> T1 \o <<"metadata", "/">>
                                  [] t = u1 -> U1 \o <<"Metadata", "/">>
                                  [] t = t2 -> T2 \o <<"metadata", "/">>
                                  [] t = v -> V]

\* The metadata file and one of the data.
MCFiles == [t \in Tables |-> {MCLocation[t],
                              CASE t = t1 -> T1 [] t = u1 -> U1
                                [] t = t2 -> T2 [] t = v -> V}]

\* Answers: keys that expire, keys that do not, storage-credentials for one
\* prefix and for two, with and without a config that expires beside them.
None == [config |-> "none", expiring |-> FALSE, storage |-> <<>>, faults |-> {}]
Lasting == [None EXCEPT !.config = "keys"]
Vended == [Lasting EXCEPT !.expiring = TRUE]
Settings == [None EXCEPT !.config = "settings"]
Storage(paths) == [None EXCEPT !.storage = paths]
Both(paths) == [Vended EXCEPT !.storage = paths]
Faulty(answer, faults) == [answer EXCEPT !.faults = faults]

\* What t1, u1, t2 and v come with.
Sent(d1, d2, d3, d4) ==
    [t \in Tables |-> CASE t = t1 -> d1 [] t = u1 -> d2
                        [] t = t2 -> d3 [] t = v -> d4]

MCDelegations == {
    Sent(Vended, Lasting, Lasting, Vended),
    Sent(Both(<<T1>>), Vended, Faulty(Vended, {"metadata"}),
         Faulty(Vended, {"expiry"})),
    Sent(Storage(<<T1 \o <<"metadata">>, T1>>), Settings, None,
         Faulty(Storage(<<V>>), {"options", "prefix"}))}

MCSymmetry == Permutations(Connections)

=============================================================================
