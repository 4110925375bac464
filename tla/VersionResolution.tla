------------------------- MODULE VersionResolution -------------------------
(***************************************************************************)
(* GetMetaDataPath: which metadata file a call reads                        *)
(* (src/src/common/iceberg.cpp, src/src/include/iceberg_options.hpp).  Each *)
(* access to the file system is a step, because the writer of the table     *)
(* runs in another process: it adds a metadata file, deletes the version    *)
(* hint and puts a new one in its place, and may remove old files.          *)
(* Contents are left out: a metadata file stands for its version.           *)
(***************************************************************************)
EXTENDS Integers, Sequences, FiniteSets

CONSTANTS
    FirstVersion,   \* the version of the table when the reader starts
    LastVersion,    \* bound: the writer stops at this version
    Retained        \* how many versions the writer never removes

ASSUME VersionsAssumption ==
    /\ FirstVersion \in Nat
    /\ LastVersion \in Nat /\ FirstVersion <= LastVersion
    /\ Retained \in Nat \ {0}

NoVersion == -1
Version == FirstVersion .. LastVersion
Style == {"v", "plain"}             \* v3.metadata.json and 3.metadata.json
Metadata == [style : Style, version : Version]

\* DEFAULT_TABLE_VERSION_FORMAT
version_name_format == <<"v", "plain">>

\* What the caller gives as table_version, the default, a hint file or a
\* version, and the setting unsafe_enable_version_guessing.
Request == [table_version : {"?", "version-hint.text", "number"},
            guessing : BOOLEAN]

VARIABLES
    files,          \* the metadata files
    hint,           \* the content of version-hint.text, NoVersion without it
    style,          \* how the writer names its files
    hinting,        \* the writer keeps a version hint
    committed,      \* the current version, the one a hint names
    writer,         \* where the writer stands
    request,
    version_hint,
    format,         \* position in version_name_format
    url,            \* the chosen file
    guessed,        \* url comes from GuessTableVersion
    started,        \* committed and hint when the call started
    disturbed,      \* the hint or a file was deleted during the call
    pc

tableVars == <<files, hint, style, hinting, committed, writer>>
callVars == <<request, version_hint, format, url, guessed>>
startVars == <<started, disturbed>>
vars == <<tableVars, callVars, startVars, pc>>

NoFile == [style |-> "v", version |-> NoVersion]

TypeOK ==
    /\ files \subseteq Metadata
    /\ hint \in Version \cup {NoVersion}
    /\ style \in Style
    /\ hinting \in BOOLEAN
    /\ committed \in Version
    /\ writer \in {"idle", "written", "hint deleted"}
    /\ request \in Request
    /\ version_hint \in Version \cup {NoVersion}
    /\ pc = "format" => version_hint \in Version
    /\ format \in 1 .. Len(version_name_format) + 1
    /\ url \in Metadata \cup {NoFile}
    /\ pc \in {"open", "done"} => url \in Metadata
    /\ guessed \in BOOLEAN
    /\ started \in [committed : Version,
                   hint : Version \cup {NoVersion}]
    /\ disturbed \in BOOLEAN
    /\ pc \in {"idle", "hint?", "hint", "format", "glob", "open", "done",
               "error"}

\* Before the call the writer rests.
Init ==
    /\ style \in Style
    /\ files = {[style |-> style, version |-> FirstVersion]}
    /\ committed = FirstVersion
    /\ hinting \in BOOLEAN
    /\ hint = IF hinting THEN FirstVersion ELSE NoVersion
    /\ writer = "idle"
    /\ request \in Request
    /\ version_hint = NoVersion
    /\ format = 1
    /\ url = NoFile
    /\ guessed = FALSE
    /\ started = [committed |-> committed, hint |-> hint]
    /\ disturbed = FALSE
    /\ pc = "idle"

-----------------------------------------------------------------------------
(* The writer, in another process *)

WriteMetadata ==
    /\ writer = "idle"
    /\ committed < LastVersion
    /\ files' = files \cup {[style |-> style, version |-> committed + 1]}
    /\ writer' = "written"
    /\ UNCHANGED <<hint, style, hinting, committed, callVars, startVars, pc>>

DeleteHint ==
    /\ writer = "written"
    /\ hint' = NoVersion
    /\ writer' = "hint deleted"
    /\ disturbed' = (disturbed \/ hinting)
    /\ UNCHANGED <<files, style, hinting, committed, callVars, started, pc>>

PublishHint ==
    /\ writer = "hint deleted"
    /\ committed' = committed + 1
    /\ hint' = IF hinting THEN committed' ELSE NoVersion
    /\ writer' = "idle"
    /\ UNCHANGED <<files, style, hinting, callVars, startVars, pc>>

RemoveOld ==
    /\ \E f \in files :
          /\ f.version <= committed - Retained
          /\ files' = files \ {f}
    /\ disturbed' = TRUE
    /\ UNCHANGED <<hint, style, hinting, committed, writer, callVars, started, pc>>

Writer == WriteMetadata \/ DeleteHint \/ PublishHint \/ RemoveOld

-----------------------------------------------------------------------------
(* The call *)

Fail ==
    /\ pc' = "error"
    /\ UNCHANGED <<tableVars, callVars, startVars>>

\* The kinds of table_version are told apart before any file is looked at.
\* A path that ends in .json is returned as it is: nothing is resolved.
GetMetaDataPath ==
    /\ pc = "idle"
    /\ started' = [committed |-> committed, hint |-> hint]
    /\ disturbed' = FALSE
    /\ \/ /\ request.table_version = "version-hint.text"
          /\ pc' = "hint"
          /\ UNCHANGED version_hint
       \/ /\ request.table_version = "number"
          /\ version_hint' \in Version
          /\ pc' = "format"
       \/ /\ request.table_version = "?"
          /\ pc' = "hint?"
          /\ UNCHANGED version_hint
    /\ UNCHANGED <<tableVars, request, format, url, guessed>>

\* Mutant of UnsafeVersionGuessingEnabled: the setting is not looked at.
GuessingAlwaysEnabled == TRUE

UnsafeVersionGuessingEnabled == request.guessing

HintFileExists ==
    /\ pc = "hint?"
    /\ \/ /\ hint # NoVersion
          /\ pc' = "hint"
          /\ UNCHANGED <<tableVars, callVars, startVars>>
       \/ /\ hint = NoVersion
          /\ UnsafeVersionGuessingEnabled
          /\ pc' = "glob"
          /\ UNCHANGED <<tableVars, callVars, startVars>>
       \/ /\ hint = NoVersion
          /\ ~UnsafeVersionGuessingEnabled
          /\ Fail

\* Mutant of GetTableVersionFromHint: a hint that is gone reads as empty.
ReadMissingHint ==
    /\ pc = "hint"
    /\ version_hint' = hint
    /\ pc' = "format"
    /\ UNCHANGED <<tableVars, request, format, url, guessed, startVars>>

\* FileToString throws when the file is gone by now.
GetTableVersionFromHint ==
    /\ pc = "hint"
    /\ \/ /\ hint # NoVersion
          /\ version_hint' = hint
          /\ pc' = "format"
          /\ UNCHANGED <<tableVars, request, format, url, guessed, startVars>>
       \/ /\ hint = NoVersion
          /\ Fail

\* One round of a loop over the formats: take a file that the format finds,
\* go on to the next format, or throw after the last one.
TryFormat(found) ==
    \/ /\ format <= Len(version_name_format)
       /\ url' \in found
       /\ guessed' = (pc = "glob")
       /\ pc' = "open"
       /\ UNCHANGED <<tableVars, request, version_hint, format, startVars>>
    \/ /\ format <= Len(version_name_format)
       /\ found = {}
       /\ format' = format + 1
       /\ UNCHANGED <<tableVars, request, version_hint, url, guessed,
                      startVars, pc>>
    \/ /\ format > Len(version_name_format)
       /\ Fail

InFormat(s) == format <= Len(version_name_format)
               /\ version_name_format[format] \in s

\* Mutant of GenerateMetaDataUrl: the file is not looked for.
NoExistenceCheck ==
    /\ pc = "format"
    /\ TryFormat({[style |-> "v", version |-> version_hint]})

\* The file that the format makes of version_hint.
GenerateMetaDataUrl ==
    /\ pc = "format"
    /\ TryFormat({f \in files : InFormat({f.style})
                                /\ f.version = version_hint})

-----------------------------------------------------------------------------
(* Guessing: file names in the order of their characters *)

\* The decimal digits of n.
Digits[n \in Nat] ==
    IF n < 10 THEN <<n>> ELSE Append(Digits[n \div 10], n % 10)

\* The part of a name in which names differ: an optional "v", the digits, and
\* the period before "metadata.json".  A period sorts before the digits, and
\* "v" after them.
Name(f) ==
    (IF f.style = "v" THEN <<10>> ELSE <<>>) \o Digits[f.version] \o <<-1>>

LexLess(s, t) ==
    \E k \in 1 .. Len(s) :
        /\ k <= Len(t)
        /\ SubSeq(s, 1, k - 1) = SubSeq(t, 1, k - 1)
        /\ s[k] < t[k]

\* Mutant of PickTableVersion: the first of the sorted names.
PickFirstVersion(found) ==
    {f \in found : \A g \in found \ {f} : LexLess(Name(f), Name(g))}

\* The last of the sorted names.
PickTableVersion(found) ==
    {f \in found : \A g \in found \ {f} : LexLess(Name(g), Name(f))}

\* The pattern of the plain format, "*.metadata.json", matches every file.
GuessTableVersion ==
    /\ pc = "glob"
    /\ TryFormat(PickTableVersion({f \in files : InFormat({"plain", f.style})}))

\* ReadMetaData, called by GetParseInfo with the path that was returned.
ReadMetaData ==
    /\ pc = "open"
    /\ \/ /\ url \in files
          /\ pc' = "done"
          /\ UNCHANGED <<tableVars, callVars, startVars>>
       \/ /\ url \notin files
          /\ Fail

Call == \/ GetMetaDataPath
        \/ HintFileExists
        \/ GetTableVersionFromHint
        \/ GenerateMetaDataUrl
        \/ GuessTableVersion
        \/ ReadMetaData

Next == Writer \/ Call

Spec == Init /\ [][Next]_vars

-----------------------------------------------------------------------------
(* Properties *)

\* A call that may not guess and is not told a version reads one that was
\* published and was the current one at some moment of the call: never an
\* uncommitted version, and never one already replaced when the call began.
\* (The hint is read after its existence is checked, and the file is looked
\* for after that, with the writer running in between.)
ReadsCurrentVersion ==
    /\ pc = "done"
    /\ ~request.guessing
    /\ request.table_version # "number"
    => url.version \in started.committed .. committed

\* "We take the lexographically "greatest" one as the latest version"
\* (src/src/include/iceberg_options.hpp:13): a guess finds a file that comes,
\* in the order of names, no earlier than the version that was current when
\* the call began, unless the writer deletes files meanwhile.  By number it may
\* be older: v9 comes after v10.
GuessFindsGreatest ==
    pc = "done" /\ guessed /\ ~disturbed =>
        ~LexLess(Name(url), Name([style |-> style,
                                  version |-> started.committed]))

\* A call fails only if the writer deleted the hint or a file meanwhile, or it
\* needs a hint and began without one, or it is given a version that is not
\* the current one.
FailsOnlyIfDisturbed ==
    pc = "error" =>
        \/ disturbed
        \/ /\ started.hint = NoVersion
           /\ ~(request.table_version = "?" /\ request.guessing)
        \/ /\ request.table_version = "number"
           /\ version_hint # started.committed

=============================================================================
