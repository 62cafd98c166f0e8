------------------------------ MODULE MCTexts ------------------------------
(***************************************************************************)
(* The texts that the client reads and writes.  A behaviour is about one   *)
(* kind: JSON texts that grow token by token, JSON values and escapes that *)
(* are printed and read, settings of the log configuration, wildcards of   *)
(* its modules, formats and dates of its lines, and the names in the       *)
(* certificates of a node.                                                 *)
(***************************************************************************)
EXTENDS Json11, TlsVerify

CONSTANTS MaxTokens,             \* bound on the tokens of a JSON text
          MaxString,             \* bound on the characters of a string value
          MaxSetting,            \* bound on the characters of a setting
          MaxName, MaxPattern,   \* bounds on a name and on a wildcard pattern
          MaxFormat, MaxMessage  \* bounds on the tokens of a format and of a message

VARIABLES kind,                  \* what the text is
          text,
          tokens,                \* of a JSON text, their number
          value,                 \* the JSON value that was printed
          parsed,                \* what parse makes of a JSON text
          pattern,               \* beside a name
          message,               \* beside a format
          time, width, stamp     \* LogClock

json   == <<text, tokens, value, parsed>>
others == <<pattern, message, time, width, stamp, handshake>>
clock  == <<time, width, stamp>>

-----------------------------------------------------------------------------
(* JSON.                                                                   *)

Alphabets ==
    [structure |-> {<<123>>, <<125>>, <<91>>, <<93>>, <<44>>, <<58>>, <<34, 34>>, <<49>>},
     nested    |-> {<<91, 91>>, <<93, 93>>, <<91>>, <<93>>, <<49>>, <<123, 34, 34, 58>>, <<125>>},
     number    |-> {<<45>>, <<43>>, <<46>>, <<48>>, <<49>>, <<101>>, <<32>>},
     string    |-> {<<34>>, <<92>>, <<117>>, <<48, 48>>, <<110>>, <<10>>},
     comment   |-> {<<47>>, <<42>>, <<10>>, <<49>>, <<91>>, <<93>>, <<44>>},
     word      |-> {Word.null, Word.true, <<116, 114>>, <<91>>, <<93>>, <<9>>}]

Strategy == IF kind = "comment" THEN "COMMENTS" ELSE "STANDARD"

Strings == UNION {[1 .. n -> {34, 92, 47, 10, 1, 97, 226, 128, 168}] : n \in 0 .. MaxString}

Atoms == {NUL, Bool(TRUE), Bool(FALSE), Num(0), Num(-10), Str(<<>>), Str(<<97>>), Str(<<97, 34>>)}
Small == Atoms \cup {Arr(<<>>), Obj(<<>>)} \cup {Arr(<<a>>) : a \in Atoms}
               \cup {Obj(<<97>> :> a) : a \in Atoms}
Pairs == {Arr(<<a, b>>) : a \in Small, b \in Small}
               \cup {Obj((<<98>> :> a) @@ (<<97, 10>> :> b)) : a \in Small, b \in Small}

\* The code points of one escape and of a pair of them.
Points == {0, 34, 127, 128, 2047, 2048, 8232, 55295, 57344, 65535}
Astral == {65536, 65537, 66559, 66560, 1114110, 1114111}

Unit(p) == <<Backslash, 117, HexOf(p \div 4096), HexOf((p \div 256) % 16), HexOf((p \div 16) % 16), HexOf(p % 16)>>

Escape(p) ==
    IF p < 65536 THEN Unit(p)
    ELSE Unit(55296 + ((p - 65536) \div 1024)) \o Unit(56320 + ((p - 65536) % 1024))

AddToken ==
    /\ kind \in DOMAIN Alphabets /\ tokens < MaxTokens
    /\ \E t \in Alphabets[kind] : text' = text \o t
    /\ tokens' = tokens + 1
    /\ UNCHANGED value

ChooseValue ==
    /\ kind = "value" /\ text = <<>>
    /\ value' \in {Str(s) : s \in Strings} \cup Small \cup Pairs
    /\ text' = dump(value')
    /\ UNCHANGED tokens

\* Two code points, one behind the other.
ChooseEscapes ==
    /\ kind = "escape" /\ text = <<>>
    /\ \E p, r \in Points \cup Astral :
            /\ value' = Arr(<<Num(p), Num(r)>>)
            /\ text' = <<Quote>> \o Escape(p) \o Escape(r) \o <<Quote>>
    /\ UNCHANGED tokens

ParseText ==
    /\ AddToken \/ ChooseValue \/ ChooseEscapes
    /\ parsed' = parse(text', Strategy)
    /\ UNCHANGED <<kind, others>>

-----------------------------------------------------------------------------
(* The grammar, as what a text may be split into.                          *)

Cut(t, a, b) == SubSeq(t, a, b)

\* A comment that runs to the end of the line needs one, but at the end of the
\* whole text.
IsComment(t, last) ==
    /\ Len(t) >= 2 /\ t[1] = 47
    /\ \/ /\ t[2] = 47
          /\ \A i \in 3 .. Len(t) - 1 : t[i] # 10
          /\ t[Len(t)] = 10 \/ last
       \/ /\ t[2] = 42 /\ Len(t) >= 4
          /\ \A i \in 3 .. Len(t) - 1 : (t[i] = 42 /\ t[i + 1] = 47) <=> i = Len(t) - 1

RECURSIVE IsBlank(_, _)
IsBlank(t, last) ==
    \/ t = <<>>
    \/ t[1] \in Blank /\ IsBlank(Tail(t), last)
    \/ /\ Strategy = "COMMENTS"
       /\ \E i \in 2 .. Len(t) :
            IsComment(Cut(t, 1, i), last /\ i = Len(t)) /\ IsBlank(Cut(t, i + 1, Len(t)), last)

AreDigits(t) == t # <<>> /\ \A i \in DOMAIN t : t[i] \in Digit

IsWhole(t) == AreDigits(t) /\ (t[1] = 48 => Len(t) = 1)

IsFraction(t) == t = <<>> \/ (t[1] = 46 /\ AreDigits(Tail(t)))

IsExponent(t) ==
    t = <<>> \/ /\ t[1] \in {69, 101}
                /\ AreDigits(Tail(t)) \/ (Len(t) > 2 /\ t[2] \in {43, 45} /\ AreDigits(Cut(t, 3, Len(t))))

IsNumber(t) ==
    \E a \in {0, 1} : \E b \in a .. Len(t) : \E c \in b .. Len(t) :
        /\ a = 1 => t # <<>> /\ t[1] = 45
        /\ IsWhole(Cut(t, a + 1, b)) /\ IsFraction(Cut(t, b + 1, c)) /\ IsExponent(Cut(t, c + 1, Len(t)))

\* The characters between the quotes.
RECURSIVE AreCharacters(_)
AreCharacters(t) ==
    \/ t = <<>>
    \/ t[1] \notin 0 .. 31 \cup {Quote, Backslash} /\ AreCharacters(Tail(t))
    \/ /\ Len(t) >= 2 /\ t[1] = Backslash
       /\ t[2] \in {Quote, Backslash, 47} \cup DOMAIN Letters /\ AreCharacters(Cut(t, 3, Len(t)))
    \/ /\ Len(t) >= 6 /\ t[1] = Backslash /\ t[2] = 117
       /\ \A i \in 3 .. 6 : t[i] \in HexDigit
       /\ AreCharacters(Cut(t, 7, Len(t)))

IsString(t) == Len(t) >= 2 /\ t[1] = Quote /\ t[Len(t)] = Quote /\ AreCharacters(Cut(t, 2, Len(t) - 1))

RECURSIVE IsValue(_, _, _), AreElements(_, _), AreMembers(_, _)
AreElements(t, d) ==
    \/ IsValue(t, d, FALSE)
    \/ \E i \in DOMAIN t : t[i] = 44 /\ IsValue(Cut(t, 1, i - 1), d, FALSE) /\ AreElements(Cut(t, i + 1, Len(t)), d)

IsMember(t, d) ==
    \E a, b, c \in 0 .. Len(t) :
        /\ a <= b /\ b <= c /\ c < Len(t) /\ t[c + 1] = 58
        /\ IsBlank(Cut(t, 1, a), FALSE) /\ IsString(Cut(t, a + 1, b)) /\ IsBlank(Cut(t, b + 1, c), FALSE)
        /\ IsValue(Cut(t, c + 2, Len(t)), d, FALSE)

AreMembers(t, d) ==
    \/ IsMember(t, d)
    \/ \E i \in DOMAIN t : t[i] = 44 /\ IsMember(Cut(t, 1, i - 1), d) /\ AreMembers(Cut(t, i + 1, Len(t)), d)

\* A value at depth d, with blanks around it.
IsValue(t, d, last) ==
    /\ d <= max_depth
    /\ \E a \in 0 .. Len(t) : \E b \in a + 1 .. Len(t) :
        LET core   == Cut(t, a + 1, b)
            inside == Cut(t, a + 2, b - 1)
        IN  /\ IsBlank(Cut(t, 1, a), FALSE) /\ IsBlank(Cut(t, b + 1, Len(t)), last)
            /\ \/ core \in {Word.null, Word.true, Word.false} \/ IsNumber(core) \/ IsString(core)
               \/ /\ Len(core) >= 2 /\ core[1] = 91 /\ core[Len(core)] = 93
                  /\ IsBlank(inside, FALSE) \/ AreElements(inside, d + 1)
               \/ /\ Len(core) >= 2 /\ core[1] = 123 /\ core[Len(core)] = 125
                  /\ IsBlank(inside, FALSE) \/ AreMembers(inside, d + 1)

\* What UTF-8 bytes stand for, and how many a code point needs.
Decoded(bs) ==
    CASE Len(bs) = 1 -> bs[1]
      [] Len(bs) = 2 -> 64 * (bs[1] - 192) + (bs[2] - 128)
      [] Len(bs) = 3 -> 4096 * (bs[1] - 224) + 64 * (bs[2] - 128) + (bs[3] - 128)
      [] Len(bs) = 4 -> 262144 * (bs[1] - 240) + 4096 * (bs[2] - 128) + 64 * (bs[3] - 128) + (bs[4] - 128)

Needs(p) == CASE p < 128 -> 1 [] p \in 128 .. 2047 -> 2 [] p \in 2048 .. 65535 -> 3 [] p > 65535 -> 4

-----------------------------------------------------------------------------
\* parse accepts exactly the texts of the JSON grammar that are not nested too
\* deep; with the COMMENTS strategy comments may be where blanks may be.
AcceptsGrammar ==
    kind \in DOMAIN Alphabets => ((parsed # Fail) <=> IsValue(text, 0, TRUE))

\* What dump prints parse reads back: no character of a string and no member of
\* an object is lost, whatever has to be escaped.
RoundTrip ==
    (kind = "value" /\ text # <<>>) => parsed = [i |-> Len(text), v |-> value]

\* parse_multi reads one printed object or array behind the other.
MultiIsRead ==
    (kind = "value" /\ value.type \in {"ARRAY", "OBJECT"}) =>
        \A both \in {text \o text, text \o <<32>> \o text \o <<10>>} :
            parse_multi(both, "STANDARD") = <<value, value>>

\* The order of Json values, which std::map and std::set rely on, is total and
\* agrees with equality, and it is transitive.
IsOrder ==
    (kind = "value" /\ value \in Small) =>
        \A a \in Small :
            /\ Less(a, value) \/ Less(value, a) \/ a = value
            /\ ~(Less(a, value) /\ Less(value, a)) /\ ~Less(a, a)
            /\ \A b \in Small : (Less(a, value) /\ Less(value, b)) => Less(a, b)

\* Escaped code points are read as their UTF-8 bytes, those above the basic
\* plane from two escapes; the one before does not disturb the one behind.
EscapesAreRead ==
    (kind = "escape" /\ text # <<>>) =>
        LET p  == value.array[1].int
            r  == value.array[2].int
            bs == parsed.v.string
        IN  /\ Len(bs) = Needs(p) + Needs(r)
            /\ Decoded(SubSeq(bs, 1, Needs(p))) = p
            /\ Decoded(SubSeq(bs, Needs(p) + 1, Len(bs))) = r

-----------------------------------------------------------------------------
(* Log settings: what stands behind the "=" of a configuration line.       *)

Settings == INSTANCE LogConfigurations WITH SomeLevels <- {}, SomeTypes <- {}

TypeSetting ==
    /\ kind = "setting" /\ Len(text) < MaxSetting
    /\ \E c \in {"\"", "\\", "#", " ", "a"} : text' = Append(text, c)
    /\ UNCHANGED <<kind, tokens, value, parsed, others>>

Plain(s) == \A i \in DOMAIN s : s[i] \notin {"\"", "\\"}

\* Where the text has a quote.
Quotes == {i \in DOMAIN text : text[i] = "\""}

\* A value in quotes is read without them, whatever it holds, a comment sign
\* or blanks at its ends included, and whatever is behind the closing quote,
\* a comment included.  A quote behind a backslash belongs to the value, the
\* backslash does not, if two characters follow before the next quote
\* (ignoreComments and parseLine).
QuotedIsRead ==
    kind = "setting" /\ Settings!trim(text) # <<>> /\ Settings!trim(text)[1] = "\"" =>
        /\ \A q \in Quotes :
            Cardinality(Quotes) = 2 /\ q = Max(Quotes) =>
                LET inside == SubSeq(text, Min(Quotes) + 1, q - 1)
                IN  Plain(inside) /\ inside # <<>> => Settings!ValueOf(text) = inside
        /\ \A q \in Quotes \ {Min(Quotes), Max(Quotes)} :
            Cardinality(Quotes) = 3 /\ text[q - 1] = "\\" =>
                LET before == SubSeq(text, Min(Quotes) + 1, q - 2)
                    after  == SubSeq(text, q + 1, Max(Quotes) - 1)
                IN  Plain(before) /\ Plain(after) /\ Len(after) >= 2 =>
                        Settings!ValueOf(text) = before \o <<"\"">> \o after

\* A text without quotes is read up to the comment, without the blanks at its
\* ends (ignoreComments, trim).
PlainIsRead ==
    kind = "setting" /\ Quotes = {} =>
        LET signs == {i \in 1 .. Len(text) - 1 : text[i] = "#" /\ text[i + 1] = "#"}
            upTo  == IF signs = {} THEN Len(text) ELSE Min(signs) - 1
            got   == Settings!ValueOf(text)
        IN  \E lead, trail \in 0 .. upTo :
                /\ SubSeq(text, 1, upTo) = [i \in 1 .. lead |-> " "] \o got \o [i \in 1 .. trail |-> " "]
                /\ got # <<>> => got[1] # " " /\ got[Len(got)] # " "

-----------------------------------------------------------------------------
(* Wildcards: every name and every pattern over a small alphabet.          *)

Modules == INSTANCE LogVerbose
             WITH Flags <- {}, SomeFiles <- {}, Texts <- {}, ArgLists <- {}, SomeVLevels <- {}, MaxCalls <- 0,
                  level <- 0, modules <- <<>>, mentions <- <<>>, calls <- 0

GrowName ==
    /\ kind = "wildcard" /\ Len(text) < MaxName
    /\ \E c \in {"a", "b"} : text' = Append(text, c)
    /\ UNCHANGED <<kind, tokens, value, parsed, others>>

GrowPattern ==
    /\ kind = "wildcard" /\ Len(pattern) < MaxPattern
    /\ \E c \in {"a", "b", "?", "*"} : pattern' = Append(pattern, c)
    /\ UNCHANGED <<kind, json, message, clock, handshake>>

\* Where the match of each character of the pattern ends in the string.
Ends(s, p) == [0 .. Len(p) -> 0 .. Len(s)]

IsMatch(s, p) ==
    \E e \in Ends(s, p) :
        /\ e[0] = 0 /\ e[Len(p)] = Len(s)
        /\ \A i \in DOMAIN p :
            CASE p[i] = "*" -> e[i - 1] <= e[i]
              [] p[i] = "?" -> e[i] = e[i - 1] + 1
              [] OTHER      -> e[i] = e[i - 1] + 1 /\ s[e[i]] = p[i]

\* wildCardMatch accepts exactly the strings that can be cut into pieces, one
\* for each character of the pattern: any for a star, one character otherwise.
WildcardMatches == kind = "wildcard" => Modules!wildCardMatch(text, pattern) = IsMatch(text, pattern)

-----------------------------------------------------------------------------
(* Formats of a log line, and messages that look like formats: without     *)
(* custom specifiers, and with one and dates.                              *)

Plainly == INSTANCE LogFormat
             WITH Tokens <- {"%", "x", "%level", "%user", "%app", "%msg", "%vlevel"},
                  Words <- {"%", "%msg", "%user", "%app"}, Custom <- <<>>, LogLevel <- "Debug", format <- text

Dated   == INSTANCE LogFormat
             WITH Tokens <- {"%", "x", "{", "}", "%datetime", "%msg", "%ip"},
                  Words <- {"%msg", "%datetime"}, Custom <- <<"%ip">>, LogLevel <- "Verbose", format <- text

GrowFormat ==
    /\ \/ kind = "format" /\ Plainly!Next
       \/ kind = "dated" /\ Dated!Next
    /\ UNCHANGED <<kind, tokens, value, parsed, pattern, clock, handshake>>

\* A line is its format with each first plain specifier replaced, and the
\* message verbatim (LogFormat, DefaultLogBuilder::build).
RenderedInPlace ==
    /\ kind = "format" /\ text # <<>> => Plainly!RenderedInPlace
    /\ kind = "dated" /\ text # <<>> => Dated!RenderedInPlace

-----------------------------------------------------------------------------
(* Times on both sides of where each field takes another digit.            *)

SomeTimes == [year : {2019, 2020}, mon : {8, 9}, mday : {9, 10}, hour : {9, 10}, min : {5}, sec : {0, 59},
            usec : {999, 1000, 123456}]

\* kDefaultDateTimeFormat.
DefaultFormat == <<"%Y", "-", "%M", "-", "%d", " ", "%H", ":", "%m", ":", "%s", ",", "%g">>

Clock == INSTANCE LogClock WITH Times <- SomeTimes, Widths <- {3, 6}, Format <- DefaultFormat

LogAtTime == kind = "clock" /\ Clock!Next /\ UNCHANGED <<kind, json, pattern, message, handshake>>

\* Lines sorted by their text are sorted by their time (DateTime).
LaterSortsLater == Clock!LaterSortsLater

-----------------------------------------------------------------------------
(* Chains of one or two certificates, and the host a.b or b.               *)

SomeUrls == {<<"w", ":", "/", "/", "a", ".", "b">>,
           <<"w", ":", "/", "/", "a", ".", "b", "/", "c">>,
           <<"w", ":", "/", "/", "b", "/">>}

CertNames == {<<"a", ".", "b">>, <<"*", ".", "b">>, <<"b">>, <<"c">>}

Entries == [dns : BOOLEAN, name : CertNames, nul : BOOLEAN]
Common  == {e \in Entries : e.dns}
Leaves  == [trusted : BOOLEAN,
            san : {<<>>} \cup {<<e>> : e \in Entries}
                  \cup {<<e, f>> : e \in {g \in Entries : g.name # <<"b">>},
                                   f \in {g \in Common : g.name = <<"*", ".", "b">>}},
            cn : {<<>>} \cup {<<e>> : e \in {g \in Common : g.name # <<"b">>}}]
Roots   == [trusted : BOOLEAN, san : {<<>>}, cn : {<<>>}]

SomeChains == {<<l>> : l \in Leaves} \cup {<<l, r>> : l \in Leaves, r \in Roots}

VerifyStep == kind = "tls" /\ Verify /\ UNCHANGED <<kind, json, pattern, message, clock>>

-----------------------------------------------------------------------------
Init ==
    /\ kind \in DOMAIN Alphabets \cup {"value", "escape", "setting", "wildcard", "format", "dated", "clock", "tls"}
    /\ text = <<>> /\ tokens = 0 /\ value = NUL /\ parsed = Fail /\ pattern = <<>> /\ message = <<>>
    /\ IF kind = "clock" THEN Clock!Init ELSE time = 0 /\ width = 0 /\ stamp = <<>>
    /\ IF kind = "tls" THEN Begin
       ELSE url = <<>> /\ caFile = FALSE /\ chain = <<>> /\ depth = 0 /\ verdict = "checking"

Next ==
    \/ ParseText
    \/ TypeSetting \/ GrowName \/ GrowPattern \/ GrowFormat
    \/ LogAtTime \/ VerifyStep

Spec == Init /\ [][Next]_<<kind, json, others>>

-----------------------------------------------------------------------------
\* parse accepts the grammar and nothing else, reads back what dump prints, and
\* its values have an order (json11.cpp).
JsonIsRead == AcceptsGrammar /\ RoundTrip /\ MultiIsRead /\ IsOrder /\ EscapesAreRead

\* The texts of the logging library mean what they say: settings with quotes
\* and comments, wildcards, and the format of a line (easylogging++.cpp).
LogTextsAreRead == QuotedIsRead /\ PlainIsRead /\ WildcardMatches /\ RenderedInPlace
=============================================================================
