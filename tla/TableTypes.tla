---------------------------- MODULE TableTypes ----------------------------
(***************************************************************************)
(* The two parsers of column types: the one of a scan, which reads nested   *)
(* types from JSON objects (src/src/common/schema.cpp), and the one of a    *)
(* catalog table, which reads every type from a text                        *)
(* (src/src/catalog_utils.cpp).                                             *)
(*                                                                         *)
(* A DuckDB type is a tuple: <<"INTEGER">>, <<"DECIMAL", 9, 2>>,            *)
(* <<"LIST", child>>, <<"MAP", key, value>> or <<"STRUCT", <<name, type>>,  *)
(* ...>>.  A text is a sequence of tokens.  A JSON value for a type is      *)
(* either [text |-> tokens] or an object with the field "type".             *)
(***************************************************************************)
EXTENDS Integers, Sequences, FiniteSets, SequencesExt

CONSTANTS
    Name,           \* the tokens that are not punctuation
    ColumnTypes,    \* the types of columns and of what they are made of
    MaxDepth,
    Depth,          \* how deep a type is nested
    Numeral         \* how numbers are written

\* What a parser that throws returns.
Thrown == <<"throws">>

\* A type made of parts throws if the parsing of a part does.
Made(parts, type) == IF Thrown \in Range(parts) THEN Thrown ELSE type

MadeStruct(names, types) ==
    Made(types, <<"STRUCT">> \o [k \in DOMAIN types |-> <<names[k], types[k]>>])

\* type_text.find(token) == 0.
StartsWith(text, token) == text # <<>> /\ text[1] = token

\* std::stoi and the cast of a string to a number: the inverse of printing.
Number(token) == CHOOSE n \in 0 .. 38 : Numeral[n] = token

-----------------------------------------------------------------------------
(* Types and how they are written: external *)

\* The names of the types in Iceberg's metadata.
IcebergNames ==
    [BOOLEAN |-> <<"boolean">>, INTEGER |-> <<"int">>, BIGINT |-> <<"long">>,
     FLOAT |-> <<"float">>, DOUBLE |-> <<"double">>, DATE |-> <<"date">>,
     TIME |-> <<"time">>, TIMESTAMP |-> <<"timestamp">>,
     TIMESTAMP_TZ |-> <<"timestamptz">>, VARCHAR |-> <<"string">>,
     UUID |-> <<"uuid">>, BLOB |-> <<"binary">>]

\* DuckDB has one type for bytes of a fixed and of any size.
FixedName == <<"fixed[", "16", "]">>

\* The names in a metadata file, and in the answer of a catalog.
FileNames == {IcebergNames, [IcebergNames EXCEPT !.BLOB = FixedName]}
AnswerNames == FileNames \union {[IcebergNames EXCEPT !.BIGINT = <<"bigint">>]}

Punctuation ==
    {"array<", "map<", "struct<", ">", ",", ":", "decimal(", ")", "fixed[", "]"}
Token == Name \union Punctuation

ASSUME NameAssumption ==
    /\ Name \intersect Punctuation = {}
    /\ \A names \in AnswerNames : \A type \in DOMAIN names :
          names[type] \in Seq(Token)

Simple(type) == Len(type) = 1
Nested(type) == type[1] \in {"LIST", "MAP", "STRUCT"}

SimpleTypes == {<<name>> : name \in DOMAIN IcebergNames}
DecimalTypes == {"DECIMAL"} \X (0 .. 38) \X (0 .. 38)
IsStruct(type) ==
    /\ type = <<"STRUCT">> \o Tail(type)
    /\ Tail(type) \in Seq(Name \X ColumnTypes)
    /\ Len(type) > 1

\* What a type is directly made of.
Inner(type) ==
    IF type[1] = "STRUCT" THEN {type[k][2] : k \in 2 .. Len(type)}
    ELSE IF Nested(type) THEN {type[k] : k \in 2 .. Len(type)}
    ELSE {}

\* Types are trees over simple types and decimals.
ASSUME TypesAssumption ==
    /\ MaxDepth \in Nat
    /\ Depth \in [ColumnTypes -> 0 .. MaxDepth]
    /\ \A type \in ColumnTypes :
          /\ \/ type \in SimpleTypes \union DecimalTypes
             \/ type \in {"LIST"} \X ColumnTypes
             \/ type \in {"MAP"} \X ColumnTypes \X ColumnTypes
             \/ IsStruct(type)
          /\ \A part \in Inner(type) : Depth[part] < Depth[type]

ASSUME NumeralAssumption ==
    /\ Numeral \in [0 .. 38 -> Name]
    /\ \A m, n \in 0 .. 38 : Numeral[m] = Numeral[n] => m = n

\* The name of a type that is not nested.
NameText(names, type) ==
    IF Simple(type) THEN names[type[1]]
    ELSE <<"decimal(", Numeral[type[2]], ",", Numeral[type[3]], ")">>

\* Types as JSON, the way of Iceberg's metadata: nested types are objects.
AsObject(names) ==
    LET object[type \in ColumnTypes] ==
          CASE type[1] = "LIST" ->
                 [type |-> "list", element |-> object[type[2]]]
            [] type[1] = "MAP" ->
                 [type |-> "map", key |-> object[type[2]],
                  value |-> object[type[3]]]
            [] type[1] = "STRUCT" ->
                 [type |-> "struct",
                  fields |-> [k \in 1 .. Len(type) - 1 |->
                                 [name |-> type[k + 1][1],
                                  type |-> object[type[k + 1][2]]]]]
            [] OTHER -> [text |-> NameText(names, type)]
    IN  object

\* Texts with commas between them.
Joined(texts) ==
    LET upTo[k \in 1 .. Len(texts)] ==
          IF k = 1 THEN texts[1] ELSE upTo[k - 1] \o <<",">> \o texts[k]
    IN  upTo[Len(texts)]

\* Types as texts: array<>, map<,>, struct<:,:>.
Text(names) ==
    LET text[type \in ColumnTypes] ==
          CASE type[1] = "LIST" -> <<"array<">> \o text[type[2]] \o <<">">>
            [] type[1] = "MAP" ->
                 <<"map<">> \o Joined(<<text[type[2]], text[type[3]]>>) \o <<">">>
            [] type[1] = "STRUCT" ->
                 <<"struct<">>
                 \o Joined([k \in 1 .. Len(type) - 1 |->
                              <<type[k + 1][1], ":">> \o text[type[k + 1][2]]])
                 \o <<">">>
            [] OTHER -> NameText(names, type)
    IN  text

-----------------------------------------------------------------------------
(* The parser of a scan *)

\* The names ParseTypeValue compares with.
ScanNames ==
    [boolean |-> "BOOLEAN", int |-> "INTEGER", long |-> "BIGINT",
     float |-> "FLOAT", double |-> "DOUBLE", date |-> "DATE", time |-> "TIME",
     timestamp |-> "TIMESTAMP", timestamptz |-> "TIMESTAMP_TZ",
     string |-> "VARCHAR", uuid |-> "UUID", binary |-> "BLOB"]

\* The type a text names.
ParseName(text) ==
    CASE Len(text) = 1 /\ text[1] \in DOMAIN ScanNames -> <<ScanNames[text[1]]>>
      [] StartsWith(text, "fixed[") -> <<"BLOB">>
      [] StartsWith(text, "decimal(") ->
           <<"DECIMAL", Number(text[2]), Number(text[4])>>
      [] OTHER -> Thrown

\* The JSON values that stand for types in metadata files.
TypeValue == {AsObject(names)[type] : names \in FileNames, type \in ColumnTypes}

\* The parsing of nested types; parsed has the types of the values inside.
ParseStruct(val, parsed) ==
    MadeStruct([k \in DOMAIN val.fields |-> val.fields[k].name],
               [k \in DOMAIN val.fields |-> parsed[val.fields[k].type]])

ParseList(val, parsed) ==
    LET child == parsed[val.element]
    IN  Made(<<child>>, <<"LIST", child>>)

ParseMap(val, parsed) ==
    LET key == parsed[val.key]
        value == parsed[val.value]
    IN  Made(<<key, value>>, <<"MAP", key, value>>)

ParseComplexType(val, parsed) ==
    CASE val.type = "struct" -> ParseStruct(val, parsed)
      [] val.type = "list" -> ParseList(val, parsed)
      [] val.type = "map" -> ParseMap(val, parsed)
      [] OTHER -> Thrown

ParseTypeValue[val \in TypeValue] ==
    IF "text" \in DOMAIN val THEN ParseName(val.text)
    ELSE ParseComplexType(val, ParseTypeValue)

-----------------------------------------------------------------------------
(* The parser of a catalog table *)

\* The names TypeToLogicalType compares with.
CatalogNames ==
    [tinyint |-> "TINYINT", smallint |-> "SMALLINT", bigint |-> "BIGINT",
     int |-> "INTEGER", long |-> "BIGINT", string |-> "VARCHAR",
     double |-> "DOUBLE", float |-> "FLOAT", boolean |-> "BOOLEAN",
     timestamp |-> "TIMESTAMP", timestamptz |-> "TIMESTAMP_TZ",
     binary |-> "BLOB", date |-> "DATE"]

Opening == {"array<", "map<", "struct<"}

\* What stands between the opening of a nested type and the last '>'.
Inside(text) == SubSeq(text, 2, SelectLastInSeq(text, LAMBDA t : t = ">") - 1)

\* Mutant of Nesting: an opening bracket is not noticed.
NestingUncounted(text, i) == 0

\* nested_opens when position i of the inside is looked at.
Nesting(text, i) ==
    Cardinality({j \in 1 .. i - 1 : text[j] \in Opening})
    - Cardinality({j \in 1 .. i - 1 : text[j] = ">"})

\* The positions of a set in their order.
Ascending(set) ==
    CHOOSE s \in [1 .. Cardinality(set) -> set] :
        \A j, k \in 1 .. Cardinality(set) : j < k => s[j] < s[k]

\* The inside of a map or a struct, split at the commas that are not nested.
\* The parenthesis of a decimal does not count as nesting.
Children(text) ==
    LET inside == Inside(text)
        commas == {i \in DOMAIN inside :
                      inside[i] = "," /\ Nesting(inside, i) <= 0}
        ends == <<0>> \o Ascending(commas) \o <<Len(inside) + 1>>
    IN  [k \in 1 .. Len(ends) - 1 |-> SubSeq(inside, ends[k] + 1, ends[k + 1] - 1)]

DecimalType(text) ==
    IF Contains(text, ")")
    THEN <<"DECIMAL", Number(text[2]), Number(text[4])>> ELSE Thrown

ArrayType(text, parsed) ==
    LET child == parsed[Inside(text)]
    IN  Made(<<child>>, <<"LIST", child>>)

MapType(text, parsed) ==
    LET children == Children(text)
        types == [k \in DOMAIN children |-> parsed[children[k]]]
    IN  IF Len(types) = 2 THEN Made(types, <<"MAP">> \o types) ELSE Thrown

StructType(text, parsed) ==
    LET children == Children(text)
    IN  MadeStruct([k \in DOMAIN children |-> children[k][1]],
                   [k \in DOMAIN children |->
                       IF Contains(children[k], ":")
                       THEN parsed[SubSeq(children[k], 3, Len(children[k]))]
                       ELSE Thrown])

\* The type a text stands for; parsed has the types of shorter texts.
TypeOfText(text, parsed) ==
    CASE Len(text) = 1 /\ text[1] \in DOMAIN CatalogNames ->
           <<CatalogNames[text[1]]>>
      [] StartsWith(text, "decimal(") -> DecimalType(text)
      [] StartsWith(text, "array<") /\ Contains(text, ">") ->
           ArrayType(text, parsed)
      [] StartsWith(text, "map<") /\ Contains(text, ">") ->
           MapType(text, parsed)
      [] StartsWith(text, "struct<") /\ Contains(text, ">") ->
           StructType(text, parsed)
      [] OTHER -> Thrown

\* ICUtils::TypeToLogicalType calls itself on the texts inside.
TypeToLogicalType[text \in Seq(Token)] == TypeOfText(text, TypeToLogicalType)

-----------------------------------------------------------------------------
(* Which types the parsers know *)

\* The types that each type is made of, itself included.
PartsOf[type \in ColumnTypes] ==
    {type} \union UNION {PartsOf[part] : part \in Inner(type)}

\* A decimal stands directly in a map or a struct.
DecimalInside(type) ==
    /\ type[1] \in {"MAP", "STRUCT"}
    /\ \E part \in Inner(type) : part[1] = "DECIMAL"

=============================================================================
