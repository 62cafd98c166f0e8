------------------------- MODULE LogConfigurations -------------------------
(***************************************************************************)
(* The configurations of the logging library (el::Configurations in        *)
(* src/libs/easyloggingpp): a repository of entries (level, type, value)   *)
(* in the order of their registration, how one is filled by calls, from    *)
(* another repository, from a text, from a file and with defaults.  A      *)
(* value is the sequence of its characters, or of words standing for them. *)
(***************************************************************************)
EXTENDS Naturals, Sequences, FiniteSets, SequencesExt

CONSTANTS SomeLevels,   \* the levels of the model, besides the global one
          SomeTypes     \* the types of the model

\* forEachLevel: from the lowest bit to the highest.
Levels ==
    SelectSeq(<<"Trace", "Debug", "Fatal", "Error", "Warning", "Verbose", "Info">>, LAMBDA l : l \in SomeLevels)

\* setToDefault and setRemainingToDefault, type by type and then by level.
Defaults == SelectSeq(
    << [type |-> "Enabled", value |-> <<"true">>], [type |-> "Filename", value |-> <<"file">>],
       [type |-> "ToFile", value |-> <<"true">>], [type |-> "ToStandardOutput", value |-> <<"true">>],
       [type |-> "SubsecondPrecision", value |-> <<"3">>], [type |-> "PerformanceTracking", value |-> <<"true">>],
       [type |-> "MaxLogFileSize", value |-> <<"0">>], [type |-> "LogFlushThreshold", value |-> <<"0">>],
       [type |-> "Format", value |-> <<"plain">>] >>,
    LAMBDA d : d.type \in SomeTypes)

LevelFormats == SelectSeq(
    << [level |-> "Debug", value |-> <<"debug">>], [level |-> "Error", value |-> <<"plain">>],
       [level |-> "Fatal", value |-> <<"plain">>], [level |-> "Verbose", value |-> <<"verbose">>],
       [level |-> "Trace", value |-> <<"trace">>] >>,
    LAMBDA d : d.level \in SomeLevels /\ "Format" \in SomeTypes)

-----------------------------------------------------------------------------
(* The repository.                                                         *)

At(repo, level, type) == {i \in DOMAIN repo : repo[i].level = level /\ repo[i].type = type}

hasConfiguration(repo, level, type) == At(repo, level, type) # {}

get(repo, level, type) == repo[Min(At(repo, level, type))].value

\* For each of these levels in turn: a registered entry keeps its place, a new
\* one goes to the end.
SetEach(repo, levels, type, value) ==
    LET new == SelectSeq(levels, LAMBDA l : ~hasConfiguration(repo, l, type))
    IN  [i \in DOMAIN repo |->
            IF repo[i].type = type /\ repo[i].level \in ToSet(levels) THEN [repo[i] EXCEPT !.value = value] ELSE repo[i]]
        \o [i \in DOMAIN new |-> [level |-> new[i], type |-> type, value |-> value]]

\* Every level but the global one.
unsafeSetGlobally(repo, type, value) == SetEach(repo, Levels, type, value)

unsafeSet(repo, level, type, value) ==
    SetEach(repo, IF level = "Global" THEN <<"Global">> \o Levels ELSE <<level>>, type, value)

\* The second broadcast of set, after that of unsafeSet, changes nothing.
set(repo, level, type, value) == unsafeSet(repo, level, type, value)

setGlobally(repo, type, value, includeGlobalLevel) ==
    IF includeGlobalLevel THEN set(repo, "Global", type, value) ELSE unsafeSetGlobally(repo, type, value)

\* Mutant of setFromBase: the entries are replayed from the last one.
FromBaseReversed(repo, from) ==
    FoldLeft(LAMBDA r, e : set(r, e.level, e.type, e.value), repo, Reverse(from))

setFromBase(repo, from) ==
    FoldLeft(LAMBDA r, e : set(r, e.level, e.type, e.value), repo, from)

setToDefault(repo) ==
    LET global == FoldLeft(LAMBDA r, d : setGlobally(r, d.type, d.value, TRUE), repo, Defaults)
    IN  FoldLeft(LAMBDA r, d : set(r, d.level, "Format", d.value), global, LevelFormats)

unsafeSetIfNotExist(repo, level, type, value) ==
    IF hasConfiguration(repo, level, type) THEN repo ELSE unsafeSet(repo, level, type, value)

\* ToFile and LogFlushThreshold are not among the remaining ones.
setRemainingToDefault(repo) ==
    LET remaining == SelectSeq(Defaults, LAMBDA d : d.type \notin {"ToFile", "LogFlushThreshold"})
        global    == FoldLeft(LAMBDA r, d : unsafeSetIfNotExist(r, "Global", d.type, d.value), repo, remaining)
    IN  FoldLeft(LAMBDA r, d : unsafeSetIfNotExist(r, d.level, "Format", d.value), global, LevelFormats)

-----------------------------------------------------------------------------
(* The parser.  A position is counted from 0, as in the code; NPOS is none.*)

NPOS == 1000

Char(s, i) == s[i + 1]

\* find: of one character c, and of the comment sign.
Find(s, c, from) ==
    LET found == {i \in from .. Len(s) - 1 : Char(s, i) = c}
    IN  IF found = {} THEN NPOS ELSE Min(found)

FindComment(s, from) ==
    LET found == {i \in from .. Len(s) - 2 : Char(s, i) = "#" /\ Char(s, i + 1) = "#"}
    IN  IF found = {} THEN NPOS ELSE Min(found)

\* substr: from position i, at most n characters.
Substr(s, i, n) == SubSeq(s, i + 1, IF i + n > Len(s) THEN Len(s) ELSE i + n)

trim(s) ==
    LET kept == {i \in DOMAIN s : s[i] # " "}
    IN  IF kept = {} THEN <<>> ELSE SubSeq(s, Min(kept), Max(kept))

\* The closing quote: one behind a backslash is skipped, with the character
\* that follows it.
RECURSIVE QuotesEnd(_, _)
QuotesEnd(s, at) ==
    IF at # NPOS /\ Char(s, at - 1) = "\\" THEN QuotesEnd(s, Find(s, "\"", at + 2)) ELSE at

ignoreComments(s) ==
    LET quotesStart == Find(s, "\"", 0)
        quotesEnd   == IF quotesStart = NPOS THEN NPOS ELSE QuotesEnd(s, Find(s, "\"", quotesStart + 1))
        foundAt     == FindComment(s, 0)
    IN  Substr(s, 0, IF foundAt < quotesEnd /\ quotesEnd # NPOS THEN FindComment(s, quotesEnd + 1) ELSE foundAt)

\* The same search, erasing each backslash on the way.
RECURSIVE Unescaped(_, _)
Unescaped(s, at) ==
    IF at # NPOS /\ Char(s, at - 1) = "\\"
    THEN LET erased == Substr(s, 0, at - 1) \o Substr(s, at, Len(s))
         IN  Unescaped(erased, Find(erased, "\"", at + 2))
    ELSE [text |-> s, quotesEnd |-> at]

\* Without its quotes, when there are two and something between them; the
\* length is that of a value that starts with its quote.
Stripped(s) ==
    LET quotesStart == Find(s, "\"", 0)
        u           == Unescaped(s, Find(s, "\"", quotesStart + 1))
    IN  IF quotesStart = NPOS THEN s
        ELSE IF u.quotesEnd = NPOS \/ u.quotesEnd = quotesStart + 1 THEN u.text
        ELSE Substr(u.text, quotesStart + 1, u.quotesEnd - 1)

\* The value of a line that assigns this text.
ValueOf(text) == Stripped(trim(trim(ignoreComments(text))))

\* Mutant of parseLine: a level that is not known leaves the section as it was.
ParseLineKeepsSection(p, line) ==
    CASE line.kind = "skipped" -> [p EXCEPT !.good = TRUE]
      [] line.kind = "level"   -> [p EXCEPT !.good = TRUE,
                                            !.level = IF line.name = "Unknown" THEN @ ELSE line.name]
      [] OTHER -> IF p.level = "Unknown" \/ line.name = "Unknown" THEN [p EXCEPT !.good = FALSE]
                  ELSE [p EXCEPT !.good = TRUE, !.repo = set(@, p.level, line.name, ValueOf(line.text))]

\* A line is skipped (a comment, nothing, a level without a name), names a
\* level, or assigns a configuration.  A line of no form assigns "Unknown".
\* The section persists from line to line; so does a name that is no level.
parseLine(p, line) ==
    CASE line.kind = "skipped" -> [p EXCEPT !.good = TRUE]
      [] line.kind = "level"   -> [p EXCEPT !.good = TRUE, !.level = line.name]
      [] OTHER -> IF p.level = "Unknown" \/ line.name = "Unknown" THEN [p EXCEPT !.good = FALSE]
                  ELSE [p EXCEPT !.good = TRUE, !.repo = set(@, p.level, line.name, ValueOf(line.text))]

\* parseFromText: good is the result of the last line.
parseFromText(repo, lines) ==
    FoldLeft(parseLine, [repo |-> repo, level |-> "Unknown", good |-> FALSE], lines)

\* parseFromFile: the end of the file is met one line behind the last newline.
parseFromFile(repo, lines) ==
    parseFromText(repo, Append(lines, [kind |-> "skipped", name |-> "Unknown", text |-> <<>>]))

=============================================================================
