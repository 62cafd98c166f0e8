--------------------------- MODULE LogConfiguring ---------------------------
(***************************************************************************)
(* A program that fills a repository of configurations: calls on it and on *)
(* another one it may be based on, in any order.                           *)
(***************************************************************************)
EXTENDS LogConfigurations

CONSTANTS SetLevels,    \* the levels the program sets
          SomeValues,   \* the values it sets
          SomeLines,    \* the lines of the texts
          MaxLines,     \* bound on the lines of a text
          MaxCalls      \* bound on the calls

VARIABLES own,      \* a repository
          base,     \* another one
          asked,    \* history: what the calls on own asked for
          result,   \* what the last parse returned, and whether its lines were good
          calls

vars == <<own, base, asked, result, calls>>

AllLevels == {"Global"} \cup SomeLevels
Unset     == <<"unset">>

\* What a repository says, without the order of its entries.
Said(repo) ==
    [l \in AllLevels |-> [t \in SomeTypes |->
        IF hasConfiguration(repo, l, t) THEN get(repo, l, t) ELSE Unset]]

\* What a call to set asks for: the global level stands for all.
Asks(said, level, type, value) ==
    [l \in AllLevels |-> IF level \in {"Global", l} THEN [said[l] EXCEPT ![type] = value] ELSE said[l]]

\* What a text asks for: a line belongs to the closest level above it.
SectionOf(lines, i) ==
    LET above == {j \in 1 .. i - 1 : lines[j].kind = "level"}
    IN  IF above = {} THEN "Unknown" ELSE lines[Max(above)].name

GoodLine(lines, i) ==
    lines[i].kind = "config" => lines[i].name # "Unknown" /\ SectionOf(lines, i) # "Unknown"

TextAsks(said, lines) ==
    FoldLeft(LAMBDA a, i : IF lines[i].kind = "config" /\ GoodLine(lines, i)
                           THEN Asks(a, SectionOf(lines, i), lines[i].name, ValueOf(lines[i].text)) ELSE a,
             said, [i \in DOMAIN lines |-> i])

Texts == UNION {[1 .. n -> SomeLines] : n \in 0 .. MaxLines}

Fresh == [returned |-> FALSE, good |-> FALSE]

Init ==
    /\ own = <<>> /\ base = <<>> /\ calls = 0
    /\ asked = Said(<<>>)
    /\ result = Fresh

Called == calls < MaxCalls /\ calls' = calls + 1

Set(level, type, value) ==
    /\ own' = set(own, level, type, value)
    /\ asked' = Asks(asked, level, type, value)
    /\ UNCHANGED <<base, result>>

\* The public form, which leaves the global level alone.
SetGlobally(type, value) ==
    /\ own' = setGlobally(own, type, value, FALSE)
    /\ asked' = [Asks(asked, "Global", type, value) EXCEPT !["Global"] = asked["Global"]]
    /\ UNCHANGED <<base, result>>

Clear == own' = <<>> /\ asked' = Said(<<>>) /\ UNCHANGED <<base, result>>

SetBase(level, type, value) == base' = set(base, level, type, value) /\ UNCHANGED <<own, asked, result>>

SetToDefault == own' = setToDefault(own) /\ asked' = Said(own') /\ UNCHANGED <<base, result>>

SetRemaining == own' = setRemainingToDefault(own) /\ asked' = Said(own') /\ UNCHANGED <<base, result>>

SetFromBase == own' = setFromBase(own, base) /\ asked' = Said(own') /\ UNCHANGED <<base, result>>

Parse(p, lines, from) ==
    /\ own' = p.repo
    /\ asked' = TextAsks(Said(from), lines)
    /\ result' = [returned |-> p.good, good |-> lines # <<>> /\ \A i \in DOMAIN lines : GoodLine(lines, i)]
    /\ UNCHANGED base

\* With or without the other repository as a base.
ParseFromText(lines, from) == Parse(parseFromText(from, lines), lines, from)
ParseFromFile(lines, from) == Parse(parseFromFile(from, lines), lines, from)

\* The constructor: a file, and the remaining ones.
Construct(lines) ==
    /\ own' = setRemainingToDefault(parseFromFile(<<>>, lines).repo)
    /\ asked' = Said(own')
    /\ result' = Fresh
    /\ UNCHANGED base

Next ==
    /\ Called
    /\ \/ \E l \in SetLevels, t \in SomeTypes, v \in SomeValues : Set(l, t, v) \/ SetBase(l, t, v)
       \/ \E t \in SomeTypes, v \in SomeValues : SetGlobally(t, v)
       \/ Clear \/ SetToDefault \/ SetRemaining \/ SetFromBase
       \/ \E lines \in Texts :
            \/ \E from \in {own, setFromBase(own, base)} :
                    ParseFromText(lines, from) \/ ParseFromFile(lines, from)
            \/ Construct(lines)

Spec == Init /\ [][Next]_vars

-----------------------------------------------------------------------------
\* Every repository holds an entry of a known level and type at most once,
\* which is what lets get stop at the first (RegistryWithPred::get).
TypeOK ==
    \A repo \in {own, base} :
        /\ \A i \in DOMAIN repo : repo[i].level \in AllLevels /\ repo[i].type \in SomeTypes
        /\ \A l \in AllLevels, t \in SomeTypes : Cardinality(At(repo, l, t)) <= 1

\* A repository says what the calls and the texts asked for last, a call or a
\* section for the global level counting for every level, and a line that is
\* not understood for nothing (set, setGlobally, parseLine).
LastWordCounts == Said(own) = asked

\* In the order of registration, the global entry of a type comes first.
GlobalFirst(repo, type) ==
    \A i, j \in DOMAIN repo :
        repo[i].type = type /\ repo[j].type = type /\ repo[i].level = "Global" => i <= j

\* setFromBase takes over every value of a base in which the global entry of
\* each type was registered before those of the levels.
BaseIsTaken ==
    [][SetFromBase => \A i \in DOMAIN base :
          GlobalFirst(base, base[i].type) => get(own', base[i].level, base[i].type) = base[i].value]_vars

\* setRemainingToDefault leaves every configuration alone whose type has a
\* global entry, and afterwards every level has all the types it provides.
RemainingOnly ==
    [][SetRemaining =>
          /\ \A i \in DOMAIN own :
                hasConfiguration(own, "Global", own[i].type) \/ own[i].type \in {"ToFile", "LogFlushThreshold"}
                    => get(own', own[i].level, own[i].type) = own[i].value
          /\ \A l \in AllLevels, t \in SomeTypes \ {"ToFile", "LogFlushThreshold"} : hasConfiguration(own', l, t)]_vars

\* A text of which no line is refused is reported as parsed, however it ends
\* (parseFromFile, parseFromText); an empty text is not.
GoodIsReported == result.good => result.returned
=============================================================================
