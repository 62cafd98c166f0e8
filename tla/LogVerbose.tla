----------------------------- MODULE LogVerbose -----------------------------
(***************************************************************************)
(* Verbose levels by module (el::base::VRegistry, CommandLineArgs and      *)
(* Str::wildCardMatch in src/libs/easyloggingpp).  A file name, a module   *)
(* and an argument are sequences of characters; a file name extension is   *)
(* one of them.                                                            *)
(***************************************************************************)
EXTENDS Naturals, Sequences, FiniteSets, SequencesExt, TLC

CONSTANTS Flags,        \* the logging flags that are set
          SomeFiles,    \* base names of source files
          Texts,        \* what setVModules is called with
          ArgLists,     \* command lines
          SomeVLevels,  \* levels the program asks for
          MaxCalls      \* bound on the calls

VARIABLES level,        \* m_level
          modules,      \* m_modules
          mentions,     \* history: modules and levels in the order they were set
          calls

vars == <<level, modules, mentions, calls>>

kMaxVerboseLevel == 9

DigitOf == [c \in {"0", "1", "2", "3", "4", "5", "6", "7", "8", "9"} |-> CHOOSE n \in 0 .. 9 : ToString(n) = c]

-----------------------------------------------------------------------------
RECURSIVE wildCardMatch(_, _)
wildCardMatch(str, pattern) ==
    IF pattern = <<>> THEN str = <<>>
    ELSE CASE Head(pattern) = "?" -> str # <<>> /\ wildCardMatch(Tail(str), Tail(pattern))
           [] Head(pattern) = "*" -> \/ wildCardMatch(str, Tail(pattern))
                                     \/ str # <<>> /\ wildCardMatch(Tail(str), pattern)
           [] OTHER -> str # <<>> /\ Head(str) = Head(pattern) /\ wildCardMatch(Tail(str), Tail(pattern))

\* Each extension takes the place of the one before it, or of itself.
WithoutEnd(ss, sfx) == IF ss # <<>> /\ Last(ss) = sfx THEN Front(ss) ELSE ss

addSuffix(ss, sfx, prev) == Append(WithoutEnd(WithoutEnd(ss, prev), sfx), sfx)

Extensions == <<".h", ".c", ".cpp", ".cc", ".cxx", ".-inl.h", ".hxx", ".hpp", ".hh">>

\* insert: a module that is there keeps its level.  Each name is made of the
\* one before, which has the extension before.
insert(map, ss, vlevel) ==
    LET Named[i \in 0 .. Len(Extensions)] ==
            IF i = 0 THEN ss ELSE addSuffix(Named[i - 1], Extensions[i], IF i = 1 THEN "" ELSE Extensions[i - 1])
        names == IF "DisableVModulesExtensions" \in Flags THEN {ss}
                 ELSE {Named[i] : i \in 1 .. Len(Extensions)}
    IN  map @@ [n \in names |-> vlevel]

\* A comma stores a module that has a level; one that has none is kept, and
\* what follows is added to it.  Of several digits the last one counts.
setModulesChar(p, c) ==
    CASE c = "=" -> [p EXCEPT !.isMod = FALSE]
      [] c = "," -> IF p.ss # <<>> /\ p.digit # <<>>
                    THEN [map |-> insert(p.map, p.ss, p.digit[1]), ss |-> <<>>, digit |-> <<>>, isMod |-> TRUE]
                    ELSE [p EXCEPT !.isMod = TRUE]
      [] OTHER   -> IF p.isMod THEN [p EXCEPT !.ss = Append(@, c)]
                    ELSE IF c \in DOMAIN DigitOf THEN [p EXCEPT !.digit = <<DigitOf[c]>>] ELSE p

setModules(map, text) ==
    LET p == FoldLeft(setModulesChar, [map |-> map, ss |-> <<>>, digit |-> <<>>, isMod |-> TRUE], text)
    IN  IF p.ss # <<>> /\ p.digit # <<>> THEN insert(p.map, p.ss, p.digit[1]) ELSE p.map

\* The answers allowed can give: the map is searched in no particular order.
allowed(vlevel, file) ==
    LET matching == {m \in DOMAIN modules : wildCardMatch(file, m)}
    IN  IF DOMAIN modules = {} THEN {vlevel <= level}
        ELSE IF matching # {} THEN {vlevel <= modules[m] : m \in matching}
        ELSE {"AllowVerboseIfModuleNotSpecified" \in Flags}

-----------------------------------------------------------------------------
Capped(vlevel) == IF vlevel > 9 THEN kMaxVerboseLevel ELSE vlevel

\* setArgs: an argument with a value, the first of its key; the others plain.
ParamsWithValue(args) ==
    FoldLeft(LAMBDA m, a : IF a.plain THEN m ELSE m @@ (a.key :> a.value), <<>>, args)

Params(args) == {a.key : a \in {args[i] : i \in {j \in DOMAIN args : args[j].plain}}}

atoi(value) == FoldLeft(LAMBDA n, c : 10 * n + DigitOf[c], 0, value)

\* What the command line makes of the level and of the modules.
setFromArgs(args) ==
    LET given == ParamsWithValue(args)
        vmod  == SelectSeq(<<"-vmodule", "-VMODULE">>, LAMBDA k : k \in DOMAIN given)
    IN  CASE Params(args) \cap {"-v", "--verbose", "-V", "--VERBOSE"} # {} -> <<Capped(kMaxVerboseLevel), modules, <<>>>>
          [] OTHER -> IF "--v" \in DOMAIN given THEN <<Capped(atoi(given["--v"])), modules, <<>>>>
                      ELSE IF "--V" \in DOMAIN given THEN <<Capped(atoi(given["--V"])), modules, <<>>>>
                      ELSE IF vmod # <<>> /\ "DisableVModules" \notin Flags
                      THEN <<level, setModules(modules, given[vmod[1]]), given[vmod[1]]>>
                      ELSE <<level, modules, <<>>>>

-----------------------------------------------------------------------------
(* What a text of items name=digits says, item by item.                    *)

\* The text between the commas, and the module and the level of an item.
Commas(text) == {0, Len(text) + 1} \cup {i \in DOMAIN text : text[i] = ","}

Items(text) ==
    LET cuts == SetToSortSeq(Commas(text), <)
    IN  [i \in 1 .. Len(cuts) - 1 |-> SubSeq(text, cuts[i] + 1, cuts[i + 1] - 1)]

Mention(item) ==
    LET eq == CHOOSE i \in DOMAIN item : item[i] = "="
    IN  [name |-> SubSeq(item, 1, eq - 1), level |-> DigitOf[Last(item)]]

Mentions(text) == IF text = <<>> THEN <<>> ELSE [i \in DOMAIN Items(text) |-> Mention(Items(text)[i])]

-----------------------------------------------------------------------------
Init == level = 0 /\ modules = <<>> /\ mentions = <<>> /\ calls = 0

Called == calls < MaxCalls /\ calls' = calls + 1

setLevel(vlevel) == Called /\ level' = Capped(vlevel) /\ UNCHANGED <<modules, mentions>>

setVModules(text) ==
    /\ Called
    /\ "DisableVModules" \notin Flags
    /\ modules' = setModules(modules, text)
    /\ mentions' = mentions \o Mentions(text)
    /\ UNCHANGED level

clearVModules == Called /\ modules' = <<>> /\ mentions' = <<>> /\ UNCHANGED level

setApplicationArguments(args) ==
    /\ Called
    /\ level' = setFromArgs(args)[1]
    /\ modules' = setFromArgs(args)[2]
    /\ mentions' = mentions \o Mentions(setFromArgs(args)[3])

Next ==
    \/ \E l \in SomeVLevels : setLevel(l)
    \/ \E t \in Texts : setVModules(t)
    \/ clearVModules
    \/ \E args \in ArgLists : setApplicationArguments(args)

Spec == Init /\ [][Next]_vars

-----------------------------------------------------------------------------
\* The mentions of the module of a file: its name without the extension.
Of(file) == {i \in DOMAIN mentions : mentions[i].name = Front(file)}

\* A file whose module was named without wildcards has the level of its first
\* mention, whatever its extension; a file that was not named is not held back
\* by the modules that were.
FirstMention ==
    \A file \in SomeFiles, v \in SomeVLevels :
        allowed(v, file) =
            {IF mentions = <<>> THEN v <= level
             ELSE IF Of(file) # {} THEN v <= mentions[Min(Of(file))].level
             ELSE TRUE}

=============================================================================
