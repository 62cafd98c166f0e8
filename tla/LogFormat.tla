----------------------------- MODULE LogFormat -----------------------------
(***************************************************************************)
(* The layout of a log line (el::base::LogFormat and DefaultLogBuilder in  *)
(* src/libs/easyloggingpp).  A format is a sequence of tokens: a specifier *)
(* with its percent sign, a lone "%", a brace, or text.  A specifier is    *)
(* escaped by a "%" before it.  The specifiers are replaced one after the  *)
(* other, each by a search from the start of what the earlier ones left.   *)
(***************************************************************************)
EXTENDS Naturals, Sequences, FiniteSets, SequencesExt

CONSTANTS Tokens,       \* the tokens of the format
          Words,        \* the tokens of the message
          Custom,       \* the custom specifiers, in the order of installation
          LogLevel,     \* the level of the message
          MaxFormat,    \* bound on the length of the format
          MaxMessage    \* bound on the length of the message

VARIABLES format, message

vars == <<format, message>>

\* In the order of parseFromFormat; the date follows.
FlaggedSpecifiers ==
    << "%app", "%level", "%levshort", "%logger", "%thread", "%file", "%fbase", "%line", "%loc", "%func",
       "%user", "%host", "%msg", "%vlevel" >>

\* What stands for each specifier but those of the level and the date: as many
\* words as its place in the list, so that no two are the same.
Value ==
    [s \in ToSet(FlaggedSpecifiers) |-> [i \in 1 .. CHOOSE n \in DOMAIN FlaggedSpecifiers : FlaggedSpecifiers[n] = s |-> "value"]]

LevelValue(level) == <<level>>
LevelShortValue(level) == <<"short">>

-----------------------------------------------------------------------------
(* std::string::find, from a position; 0 is none.                          *)
Occurrence(str, what, from) ==
    LET found == {i \in from .. Len(str) : str[i] = what}
    IN  IF found = {} THEN 0 ELSE Min(found)

IsEscaped(str, at) == at > 1 /\ str[at - 1] = "%"

\* An escaped one loses its escape and is passed over; the first other one is
\* replaced.
RECURSIVE replaceFirst(_, _, _, _)
replaceFirst(str, what, with, from) ==
    LET at == Occurrence(str, what, from)
    IN  IF at = 0 THEN str
        ELSE IF IsEscaped(str, at) THEN replaceFirst(RemoveAt(str, at - 1), what, with, at)
        ELSE SubSeq(str, 1, at - 1) \o with \o SubSeq(str, at + 1, Len(str))

replaceFirstWithEscape(str, what, with) == replaceFirst(str, what, with, 1)

\* Once a specifier has been seen, the escapes of later ones are removed.
RECURSIVE addFlagFrom(_, _, _)
addFlagFrom(f, specifier, from) ==
    LET at == Occurrence(f.copy, specifier, from)
    IN  IF at = 0 THEN f
        ELSE IF ~IsEscaped(f.copy, at) THEN addFlagFrom([f EXCEPT !.flags = @ \cup {specifier}], specifier, at + 1)
        ELSE IF specifier \in f.flags THEN addFlagFrom([f EXCEPT !.copy = RemoveAt(@, at - 1)], specifier, at)
        ELSE addFlagFrom(f, specifier, at + 1)

conditionalAddFlag(f, specifier) == addFlagFrom(f, specifier, 1)

\* The format of the date in braces is taken out, to the end without a "}".
updateDateFormat(f, at) ==
    LET close == Occurrence(f.copy, "}", at + 2)
    IN  IF at < Len(f.copy) /\ f.copy[at + 1] = "{"
        THEN [f EXCEPT !.date = "given",
                       !.copy = SubSeq(@, 1, at) \o IF close = 0 THEN <<>> ELSE SubSeq(@, close + 1, Len(@))]
        ELSE [f EXCEPT !.date = "default"]

\* The first date that is not escaped; the search ends when there is none.
withDate(f) ==
    LET at == {i \in DOMAIN f.copy : f.copy[i] = "%datetime" /\ ~IsEscaped(f.copy, i)}
    IN  IF at = {} THEN f ELSE updateDateFormat([f EXCEPT !.flags = @ \cup {"%datetime"}], Min(at))

\* The level whether it was seen or not, the user and the host if they were.
updateFormatSpec(f, level) ==
    LET named == replaceFirstWithEscape(replaceFirstWithEscape(f.copy, "%level", LevelValue(level)),
                                        "%levshort", LevelShortValue(level))
    IN  [f EXCEPT !.copy = FoldLeft(LAMBDA str, s : IF s \in f.flags THEN replaceFirstWithEscape(str, s, Value[s]) ELSE str,
                                    named, <<"%user", "%host">>)]

parseFromFormat(userFormat, level) ==
    LET flagged == FoldLeft(conditionalAddFlag, [copy |-> userFormat, flags |-> {}, date |-> "default"],
                            FlaggedSpecifiers)
    IN  updateFormatSpec(withDate(flagged), level)

resolveLoggerFormatSpec(f) == [f EXCEPT !.copy = replaceFirstWithEscape(@, "%logger", Value["%logger"])]

\* The order of DefaultLogBuilder::build.
Resolved(f, level, s, msg) ==
    CASE s = "%msg"      -> msg
      [] s = "%datetime" -> <<f.date>>
      [] OTHER           -> Value[s]

\* Mutant of Order: the message comes first.
MessageFirst ==
    << "%msg", "%app", "%thread", "%datetime", "%func", "%file", "%fbase", "%line", "%loc", "%vlevel" >>

Order ==
    << "%app", "%thread", "%datetime", "%func", "%file", "%fbase", "%line", "%loc", "%vlevel", "%msg" >>

build(f, level, msg) ==
    LET used == SelectSeq(Order, LAMBDA s : s \in f.flags /\ (s = "%vlevel" => level = "Verbose"))
        line == FoldLeft(LAMBDA str, s : replaceFirstWithEscape(str, s, Resolved(f, level, s, msg)), f.copy, used)
    IN  FoldLeft(LAMBDA str, s : replaceFirstWithEscape(str, s, <<"custom">>), line, Custom)

LineOf(userFormat, level, msg) == build(resolveLoggerFormatSpec(parseFromFormat(userFormat, level)), level, msg)

-----------------------------------------------------------------------------
Init == format = <<>> /\ message = <<>>

Next ==
    \/ /\ Len(format) < MaxFormat
       /\ \E t \in Tokens : format' = Append(format, t)
       /\ UNCHANGED message
    \/ /\ Len(message) < MaxMessage
       /\ \E w \in Words : message' = Append(message, w)
       /\ UNCHANGED format

Spec == Init /\ [][Next]_vars

-----------------------------------------------------------------------------
(* The line, position by position of the format.                           *)

Plainly(s) == {i \in DOMAIN format : format[i] = s /\ ~IsEscaped(format, i)}

\* Specifiers that are looked for whether the format uses them or not.
Always == {"%level", "%levshort", "%logger"} \cup ToSet(Custom)

Used(s) == s \in Always \/ (Plainly(s) # {} /\ (s = "%vlevel" => LogLevel = "Verbose"))

Braces ==
    LET k == Plainly("%datetime")
    IN  IF k = {} \/ Min(k) = Len(format) \/ format[Min(k) + 1] # "{" THEN {}
        ELSE LET close == Occurrence(format, "}", Min(k) + 2)
             IN  Min(k) + 1 .. IF close = 0 THEN Len(format) ELSE close

\* An escape in front of the first plain use goes when the specifier is used;
\* behind it, when its use was noted on parsing.
EscapeGoes(i) ==
    /\ i < Len(format) /\ format[i] = "%" /\ format[i + 1] \in ToSet(FlaggedSpecifiers) \cup ToSet(Custom) \cup {"%datetime"}
    /\ LET s == format[i + 1]
       IN  IF Plainly(s) # {} /\ Min(Plainly(s)) < i THEN s \in ToSet(FlaggedSpecifiers) ELSE Used(s)

ValueAt(i) ==
    LET s == format[i]
    IN  CASE s = "%msg"                 -> message
          [] s = "%datetime"            -> IF Braces = {} THEN <<"default">> ELSE <<"given">>
          [] s = "%level"               -> LevelValue(LogLevel)
          [] s = "%levshort"            -> LevelShortValue(LogLevel)
          [] s \in ToSet(Custom)        -> <<"custom">>
          [] OTHER                      -> Value[s]

Specifiers == ToSet(FlaggedSpecifiers) \cup ToSet(Custom) \cup {"%datetime"}

Expected ==
    FlattenSeq([i \in DOMAIN format |->
        IF i \in Braces \/ EscapeGoes(i) THEN <<>>
        ELSE IF format[i] \in Specifiers /\ Used(format[i]) /\ Plainly(format[i]) # {} /\ i = Min(Plainly(format[i]))
        THEN ValueAt(i)
        ELSE <<format[i]>>])

\* Formats with nothing but text in the braces of the date; a custom specifier
\* in the message is replaced, so the message has none and does not end in an escape.
Wellformed ==
    /\ \A i \in Braces : format[i] \in {"{", "}", "x"}
    /\ ToSet(message) \cap ToSet(Custom) = {}
    /\ (Custom # <<>> => "%" \notin ToSet(message))

\* A line is the format with the first plain use of each specifier replaced in
\* its place, escaped ones literal, and the message verbatim: a specifier in
\* the message is never taken for one of the format.
RenderedInPlace == Wellformed => LineOf(format, LogLevel, message) = Expected

=============================================================================
