------------------------------ MODULE LogClock ------------------------------
(***************************************************************************)
(* The date of a log line (el::base::utils::DateTime, SubsecondPrecision   *)
(* and Str::convertAndAddToBuff in src/libs/easyloggingpp), while the      *)
(* clock goes on.  A date format is a sequence of tokens: a field with its *)
(* percent sign, "%%", or a character.                                     *)
(***************************************************************************)
EXTENDS Naturals, Sequences, SequencesExt, TLC

CONSTANTS Times,        \* the times of the clock, as broken down by localtime
          Widths,       \* the precisions that are configured
          Format        \* the date format

VARIABLES time, width,  \* the clock; the configured precision
          stamp         \* the date of the last line

vars == <<time, width, stamp>>

kBuffSize == 30

\* SubsecondPrecision::init.
Width(w)  == IF w \in 1 .. 6 THEN w ELSE 3
Offset(w) == CASE Width(w) = 4 -> 100 [] Width(w) = 5 -> 10 [] Width(w) = 6 -> 1 [] OTHER -> 1000

-----------------------------------------------------------------------------
\* The buffer takes what it has room for.
addToBuff(buf, str) == SubSeq(buf \o str, 1, IF Len(buf \o str) > kBuffSize THEN kBuffSize ELSE Len(buf \o str))

\* At most len digits, from the last one; the local buffer holds eight.
RECURSIVE LowDigits(_, _)
LowDigits(n, len) == IF n = 0 \/ len = 0 THEN <<>> ELSE Append(LowDigits(n \div 10, len - 1), ToString(n % 10))

\* Mutant of convertAndAddToBuff: without the zeros.
Unpadded(buf, n, len) == addToBuff(buf, IF n > 0 THEN LowDigits(n, IF len > 8 THEN 8 ELSE len) ELSE <<"0">>)

convertAndAddToBuff(buf, n, len) ==
    LET room   == IF len > 8 THEN 8 ELSE len
        digits == IF n > 0 THEN LowDigits(n, room) ELSE <<"0">>
    IN  addToBuff(buf, [i \in 1 .. room - Len(digits) |-> "0"] \o digits)

\* One token of the format; a field that is not known prints nothing.
FormatToken(buf, c, t, w) ==
    CASE c = "%d" -> convertAndAddToBuff(buf, t.mday, 2)
      [] c = "%a" -> addToBuff(buf, <<"day">>)
      [] c = "%A" -> addToBuff(buf, <<"day">>)
      [] c = "%M" -> convertAndAddToBuff(buf, t.mon + 1, 2)
      [] c = "%b" -> addToBuff(buf, <<"month">>)
      [] c = "%B" -> addToBuff(buf, <<"month">>)
      [] c = "%y" -> convertAndAddToBuff(buf, t.year, 2)
      [] c = "%Y" -> convertAndAddToBuff(buf, t.year, 4)
      [] c = "%h" -> convertAndAddToBuff(buf, t.hour % 12, 2)
      [] c = "%H" -> convertAndAddToBuff(buf, t.hour, 2)
      [] c = "%m" -> convertAndAddToBuff(buf, t.min, 2)
      [] c = "%s" -> convertAndAddToBuff(buf, t.sec, 2)
      [] c \in {"%z", "%g"} -> convertAndAddToBuff(buf, t.usec \div Offset(w), Width(w))
      [] c = "%F" -> addToBuff(buf, IF t.hour >= 12 THEN <<"PM">> ELSE <<"AM">>)
      [] c = "%%" -> addToBuff(buf, <<"%">>)
      [] c = "%?" -> buf
      [] OTHER    -> addToBuff(buf, <<c>>)

\* parseFormat, from timevalToString.
getDateTime(format, t, w) == FoldLeft(LAMBDA buf, c : FormatToken(buf, c, t, w), <<>>, format)

-----------------------------------------------------------------------------
Fields(t) == <<t.year, t.mon, t.mday, t.hour, t.min, t.sec, t.usec>>

\* The first difference decides; what ends first comes first.
Before(s, t) ==
    \/ \E i \in DOMAIN s \cap DOMAIN t : s[i] < t[i] /\ \A j \in 1 .. i - 1 : s[j] = t[j]
    \/ Len(s) < Len(t) /\ \A j \in DOMAIN s : s[j] = t[j]

Init == time \in Times /\ width \in Widths /\ stamp = <<>>

\* A line is written, at this time or a later one.
Log ==
    /\ time' \in Times
    /\ ~Before(Fields(time'), Fields(time))
    /\ stamp' = getDateTime(Format, time', width)
    /\ UNCHANGED width

Next == Log

Spec == Init /\ [][Next]_vars

-----------------------------------------------------------------------------
Digit == [c \in {"0", "1", "2", "3", "4", "5", "6", "7", "8", "9"} |-> CHOOSE n \in 0 .. 9 : ToString(n) = c]

Rank(text) == [i \in DOMAIN text |-> IF text[i] \in DOMAIN Digit THEN Digit[text[i]] ELSE 0]

\* Lines sorted by their text are sorted by their time: with the default date
\* format, the stamp of a later time is never before that of an earlier one,
\* whatever field rolls over between them.
LaterSortsLater == [][stamp # <<>> => ~Before(Rank(stamp'), Rank(stamp))]_vars

=============================================================================
