------------------------------- MODULE Json11 -------------------------------
(***************************************************************************)
(* Json values, their text and their order (libs/json11).  The parser is a *)
(* function from a text and a place in it to a value and the place behind  *)
(* it, or to Fail: once failed is set every function of JsonParser returns *)
(* without a value.  Characters are bytes; a text ends with a 0.           *)
(***************************************************************************)
EXTENDS Converters, SequencesExt

CONSTANTS max_depth,     \* of nested arrays and objects
          digits10       \* characters of a number that is read as an int

NUL     == [type |-> "NUL"]
Bool(b) == [type |-> "BOOL", bool |-> b]
Num(n)  == [type |-> "NUMBER", int |-> n]
Double(text) == [type |-> "NUMBER", double |-> text]     \* what strtod makes of it
Str(s)  == [type |-> "STRING", string |-> s]
Arr(a)  == [type |-> "ARRAY", array |-> a]
Obj(o)  == [type |-> "OBJECT", object |-> o]              \* o maps keys to values

-----------------------------------------------------------------------------
(* Order: by type, and then by value; strings, arrays and objects by their *)
(* items from the first on.                                                *)

Types == <<"NUL", "NUMBER", "BOOL", "STRING", "ARRAY", "OBJECT">>
Rank(j) == CHOOSE r \in DOMAIN Types : Types[r] = j.type

\* Order of the keys of an object: std::map<string, Json>.
KeyLess(k, l) ==
    \E n \in 0 .. Len(k) :
        /\ n < Len(l) /\ SubSeq(k, 1, n) = SubSeq(l, 1, n)
        /\ n = Len(k) \/ k[n + 1] < l[n + 1]

Keys(o) == SetToSortSeq(DOMAIN o, KeyLess)

Items(j) ==
    CASE j.type = "STRING" -> [i \in DOMAIN j.string |-> Num(j.string[i])]
      [] j.type = "ARRAY"  -> j.array
      [] j.type = "OBJECT" -> FlattenSeq([i \in DOMAIN Keys(j.object) |->
                                    <<Str(Keys(j.object)[i]), j.object[Keys(j.object)[i]]>>])

RECURSIVE Less(_, _)
Less(a, b) ==
    IF a.type # b.type THEN Rank(a) < Rank(b)
    ELSE CASE a.type = "NUL" -> FALSE
           [] a.type = "NUMBER" -> a.int < b.int
           [] a.type = "BOOL" -> ~a.bool /\ b.bool
           [] OTHER ->
                LET x == Items(a)
                    y == Items(b)
                IN  \E n \in 0 .. Len(x) :
                        /\ n < Len(y)
                        /\ \A i \in 1 .. n : ~Less(x[i], y[i]) /\ ~Less(y[i], x[i])
                        /\ n = Len(x) \/ Less(x[n + 1], y[n + 1])

-----------------------------------------------------------------------------
(* dump.                                                                   *)

Word == [null |-> <<110, 117, 108, 108>>, true |-> <<116, 114, 117, 101>>,
         false |-> <<102, 97, 108, 115, 101>>]

Quote == 34
Backslash == 92

RECURSIVE dumpInt(_)
dumpInt(n) ==
    IF n < 0 THEN <<45>> \o dumpInt(-n)
    ELSE IF n < 10 THEN <<48 + n>> ELSE dumpInt(n \div 10) \o <<48 + (n % 10)>>

HexOf(d) == IF d < 10 THEN 48 + d ELSE 87 + d

\* The characters that a letter stands for behind a backslash.
Letters == (98 :> 8) @@ (102 :> 12) @@ (110 :> 10) @@ (114 :> 13) @@ (116 :> 9)

DumpChar(ch) ==
    CASE ch \in {Quote, Backslash} -> <<Backslash, ch>>
      [] \E l \in DOMAIN Letters : Letters[l] = ch ->
            <<Backslash, CHOOSE l \in DOMAIN Letters : Letters[l] = ch>>
      [] ch <= 31 /\ \A l \in DOMAIN Letters : Letters[l] # ch ->
            <<Backslash, 117, 48, 48, HexOf(ch \div 16), HexOf(ch % 16)>>
      [] OTHER -> <<ch>>

\* The line and the paragraph separator are escaped as a whole.
RECURSIVE DumpChars(_, _)
DumpChars(s, i) ==
    IF i = Len(s) THEN <<>>
    ELSE IF CharAt(s, i) = 226 /\ CharAt(s, i + 1) = 128 /\ CharAt(s, i + 2) \in {168, 169}
    THEN <<Backslash, 117, 50, 48, 50, 56 + CharAt(s, i + 2) - 168>> \o DumpChars(s, i + 3)
    ELSE DumpChar(CharAt(s, i)) \o DumpChars(s, i + 1)

dumpString(s) == <<Quote>> \o DumpChars(s, 0) \o <<Quote>>

Listed(texts) ==
    FlattenSeq([i \in DOMAIN texts |-> IF i = 1 THEN texts[i] ELSE <<44, 32>> \o texts[i]])

RECURSIVE dump(_)
dump(j) ==
    CASE j.type = "NUL"    -> Word.null
      [] j.type = "BOOL"   -> IF j.bool THEN Word.true ELSE Word.false
      [] j.type = "NUMBER" -> IF "int" \in DOMAIN j THEN dumpInt(j.int) ELSE j.double
      [] j.type = "STRING" -> dumpString(j.string)
      [] j.type = "ARRAY"  -> <<91>> \o Listed([i \in DOMAIN j.array |-> dump(j.array[i])]) \o <<93>>
      [] j.type = "OBJECT" ->
            LET ks == Keys(j.object)
            IN  <<123>> \o Listed([i \in DOMAIN ks |-> dumpString(ks[i]) \o <<58, 32>> \o dump(j.object[ks[i]])])
                    \o <<125>>

-----------------------------------------------------------------------------
(* JsonParser.                                                             *)

Failed == -1                     \* no place
Fail   == [i |-> Failed]         \* no value

Blank == {32, 13, 10, 9}
Digit == 48 .. 57

\* Behind the comment at i; i if there is none.
consume_comment(s, i) ==
    IF CharAt(s, i) # 47 THEN i
    ELSE CASE CharAt(s, i + 1) = 47 -> Min({k \in i + 2 .. Len(s) : k = Len(s) \/ CharAt(s, k) = 10})
           [] CharAt(s, i + 1) = 42 ->
                LET ends == {k \in i + 2 .. Len(s) - 2 : CharAt(s, k) = 42 /\ CharAt(s, k + 1) = 47}
                IN  IF ends = {} THEN Failed ELSE Min(ends) + 2
           [] OTHER -> Failed

RECURSIVE consume_garbage(_, _, _)
consume_garbage(s, i, strategy) ==
    LET j == Skip(s, i, Blank)
        k == consume_comment(s, j)
    IN  IF strategy # "COMMENTS" \/ k = j THEN j
        ELSE IF k = Failed THEN Failed ELSE consume_garbage(s, k, strategy)

\* The place of the token that get_next_token returns.
Token(s, i, strategy) ==
    LET j == consume_garbage(s, i, strategy)
    IN  IF j = Len(s) THEN Failed ELSE j

encode_utf8(pt) ==
    CASE pt < 0 -> <<>>
      [] pt \in 0 .. 127 -> <<pt>>
      [] pt \in 128 .. 2047 -> <<pt \div 64 + 192, (pt % 64) + 128>>
      [] pt \in 2048 .. 65535 -> <<pt \div 4096 + 224, ((pt \div 64) % 64) + 128, (pt % 64) + 128>>
      [] OTHER -> <<pt \div 262144 + 240, ((pt \div 4096) % 64) + 128, ((pt \div 64) % 64) + 128, (pt % 64) + 128>>

HexDigit == Digit \cup 97 .. 102 \cup 65 .. 70

\* last is an escaped code point that is not yet part of out: the next one may
\* be the other half of a surrogate pair.
RECURSIVE parse_string(_, _, _, _)
parse_string(s, i, out, last) ==
    LET ch      == CharAt(s, i)
        flushed == out \o encode_utf8(last)
        esc     == [k \in 1 .. 4 |-> CharAt(s, i + 1 + k)]
        point   == 4096 * Nibble(esc[1]) + 256 * Nibble(esc[2]) + 16 * Nibble(esc[3]) + Nibble(esc[4])
    IN  CASE ch = Quote -> [i |-> i + 1, v |-> flushed]
          [] ch <= 31 -> Fail
          [] ch > 31 /\ ch \notin {Quote, Backslash} -> parse_string(s, i + 1, Append(flushed, ch), -1)
          [] ch = Backslash /\ CharAt(s, i + 1) = 117 ->
                IF \E k \in 1 .. 4 : esc[k] \notin HexDigit THEN Fail
                ELSE IF last \in 55296 .. 56319 /\ point \in 56320 .. 57343
                THEN parse_string(s, i + 6,
                        out \o encode_utf8(1024 * (last - 55296) + (point - 56320) + 65536), -1)
                ELSE parse_string(s, i + 6, flushed, point)
          [] ch = Backslash /\ CharAt(s, i + 1) \in DOMAIN Letters ->
                parse_string(s, i + 2, Append(flushed, Letters[CharAt(s, i + 1)]), -1)
          [] ch = Backslash /\ CharAt(s, i + 1) \in {Quote, Backslash, 47} ->
                parse_string(s, i + 2, Append(flushed, CharAt(s, i + 1)), -1)
          [] OTHER -> Fail

RECURSIVE IntOf(_)
IntOf(ds) == IF ds = <<>> THEN 0 ELSE 10 * IntOf(Front(ds)) + Last(ds) - 48

parse_number(s, start) ==
    LET first  == IF CharAt(s, start) = 45 THEN start + 1 ELSE start
        whole  == IF CharAt(s, first) = 48 THEN first + 1 ELSE Skip(s, first, Digit)
        point  == CharAt(s, whole) = 46
        part   == IF point THEN Skip(s, whole + 1, Digit) ELSE whole
        expo   == CharAt(s, part) \in {101, 69}
        power  == IF CharAt(s, part + 1) \in {43, 45} THEN part + 2 ELSE part + 1
        end    == IF expo THEN Skip(s, power, Digit) ELSE part
        value  == IntOf(SubSeq(s, first + 1, whole))
    IN  IF \/ CharAt(s, first) \notin Digit
           \/ CharAt(s, first) = 48 /\ CharAt(s, whole) \in Digit
           \/ point /\ part = whole + 1
           \/ expo /\ end = power
        THEN Fail
        ELSE IF ~point /\ ~expo /\ whole - start <= digits10
        THEN [i |-> whole, v |-> Num(IF first = start THEN value ELSE -value)]
        ELSE [i |-> end, v |-> Double(SubSeq(s, start + 1, end))]

expect(s, i, word, res) ==
    IF \A k \in DOMAIN word : CharAt(s, i + k - 1) = word[k] THEN [i |-> i + Len(word), v |-> res] ELSE Fail

RECURSIVE parse_json(_, _, _, _), Members(_, _, _, _, _), Elements(_, _, _, _, _)

\* Mutant of Elements: a comma may be followed by the end of the list.
ElementsLoose(s, p, depth, strategy, data) ==
    IF p = Failed THEN Fail
    ELSE IF CharAt(s, p) = 93 THEN [i |-> p + 1, v |-> Arr(data)]
    ELSE LET r == parse_json(s, p, depth + 1, strategy)
             q == Token(s, r.i, strategy)
         IN  IF r = Fail \/ q = Failed THEN Fail
             ELSE CASE CharAt(s, q) = 93 -> [i |-> q + 1, v |-> Arr(Append(data, r.v))]
                    [] CharAt(s, q) = 44 ->
                        Elements(s, Token(s, q + 1, strategy), depth, strategy, Append(data, r.v))
                    [] OTHER -> Fail

\* The loops over the members of an object and the elements of an array, from
\* the token at p on.
Members(s, p, depth, strategy, data) ==
    IF p = Failed \/ CharAt(s, p) # Quote THEN Fail
    ELSE LET key   == parse_string(s, p + 1, <<>>, -1)
             colon == Token(s, key.i, strategy)
             r     == parse_json(s, colon + 1, depth + 1, strategy)
             q     == Token(s, r.i, strategy)
         IN  IF key = Fail \/ colon = Failed \/ CharAt(s, colon) # 58 \/ r = Fail \/ q = Failed THEN Fail
             ELSE LET now == (key.v :> r.v) @@ data
                  IN  CASE CharAt(s, q) = 125 -> [i |-> q + 1, v |-> Obj(now)]
                        [] CharAt(s, q) = 44 -> Members(s, Token(s, q + 1, strategy), depth, strategy, now)
                        [] OTHER -> Fail

Elements(s, p, depth, strategy, data) ==
    IF p = Failed THEN Fail
    ELSE LET r == parse_json(s, p, depth + 1, strategy)
             q == Token(s, r.i, strategy)
         IN  IF r = Fail \/ q = Failed THEN Fail
             ELSE CASE CharAt(s, q) = 93 -> [i |-> q + 1, v |-> Arr(Append(data, r.v))]
                    [] CharAt(s, q) = 44 ->
                        Elements(s, Token(s, q + 1, strategy), depth, strategy, Append(data, r.v))
                    [] OTHER -> Fail

parse_json(s, i, depth, strategy) ==
    LET p  == Token(s, i, strategy)
        ch == CharAt(s, p)
        q  == Token(s, p + 1, strategy)
        r  == parse_string(s, p + 1, <<>>, -1)
    IN  IF depth > max_depth \/ p = Failed THEN Fail
        ELSE CASE ch \in Digit \cup {45} -> parse_number(s, p)
               [] ch = 116 -> expect(s, p, Word.true, Bool(TRUE))
               [] ch = 102 -> expect(s, p, Word.false, Bool(FALSE))
               [] ch = 110 -> expect(s, p, Word.null, NUL)
               [] ch = Quote -> IF r = Fail THEN Fail ELSE [i |-> r.i, v |-> Str(r.v)]
               [] ch = 123 -> IF q # Failed /\ CharAt(s, q) = 125
                              THEN [i |-> q + 1, v |-> Obj(<<>>)] ELSE Members(s, q, depth, strategy, <<>>)
               [] ch = 91  -> IF q # Failed /\ CharAt(s, q) = 93
                              THEN [i |-> q + 1, v |-> Arr(<<>>)] ELSE Elements(s, q, depth, strategy, <<>>)
               [] OTHER -> Fail

\* The value of the whole text; Fail stands for Json() and an error message.
parse(s, strategy) ==
    LET r == parse_json(s, 0, 0, strategy)
    IN  IF r # Fail /\ consume_garbage(s, r.i, strategy) = Len(s) THEN r ELSE Fail

RECURSIVE MultiFrom(_, _, _)

\* The values of the text one after the other; a text that fails adds a Json()
\* and ends the list.
MultiFrom(s, i, strategy) ==
    LET r == parse_json(s, i, 0, strategy)
        j == consume_garbage(s, r.i, strategy)
    IN  IF i = Len(s) THEN <<>>
        ELSE IF r = Fail THEN <<NUL>>
        ELSE IF j = Failed THEN <<r.v>> ELSE <<r.v>> \o MultiFrom(s, j, strategy)

parse_multi(s, strategy) == MultiFrom(s, 0, strategy)
=============================================================================
