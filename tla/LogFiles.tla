------------------------------ MODULE LogFiles ------------------------------
(***************************************************************************)
(* Loggers and their files (el::Logger, TypedConfigurations,               *)
(* RegisteredLoggers and the dispatch of a line in src/libs/easyloggingpp):*)
(* how the configurations of a logger become maps by level, which streams  *)
(* loggers share, when lines are flushed and files rolled.                 *)
(*                                                                         *)
(* A stream is named by the file it writes to: a file is opened once and   *)
(* its stream is kept for good.  A line has length 1.  The offset of a     *)
(* stream that appends is 0 until it has written something.                *)
(***************************************************************************)
EXTENDS LogConfigurations, Integers, TLC

CONSTANTS Ids,          \* the ids of loggers; "default" is one
          Files,        \* file names, as values of Filename
          BadFiles,     \* those that cannot be opened
          Flags,        \* the logging flags that are set
          Changes,      \* the configurations the program changes: level, type, value
          MayUnregister,\* whether loggers are removed
          OldLines,     \* lines a file may hold from an earlier run
          MaxLines,     \* bound on the lines of a file
          MaxChanges    \* bound on the changes of the configuration

VARIABLES loggers,      \* RegisteredLoggers, by id
          ref,          \* m_logStreamsReference: the stream of each file name
          disk,         \* the files, and the lines their streams still hold
          defaults,     \* m_defaultConfigurations
          changes

vars == <<loggers, ref, disk, defaults, changes>>

Null == <<"null">>

-----------------------------------------------------------------------------
(* Configurations by level.                                                *)

getBool(value) == value \in {<<"TRUE">>, <<"true">>, <<"1">>}

Digits == [c \in {"0", "1", "2", "3", "4", "5", "6", "7", "8", "9"} |-> CHOOSE n \in 0 .. 9 : ToString(n) = c]

getULong(value) ==
    IF value # <<>> /\ ToSet(value) \subseteq DOMAIN Digits
    THEN FoldLeft(LAMBDA n, c : 10 * n + Digits[c], 0, value)
    ELSE 0

\* The first value becomes that of the global level, and a value the global
\* level has already is not added.
setValue(map, level, value) ==
    IF DOMAIN map = {} THEN "Global" :> value
    ELSE IF "Global" \in DOMAIN map /\ map["Global"] = value THEN map
    ELSE (level :> value) @@ map

unsafeGetConfig(map, level) == IF level \in DOMAIN map THEN map[level] ELSE map["Global"]

Entries(conf, type) == SelectSeq(conf, LAMBDA e : e.type = type)

BoolMap(conf, type) == FoldLeft(LAMBDA m, e : setValue(m, e.level, getBool(e.value)), <<>>, Entries(conf, type))
LongMap(conf, type) == FoldLeft(LAMBDA m, e : setValue(m, e.level, getULong(e.value)), <<>>, Entries(conf, type))

\* The width of any level is set for the global one; out of 1 .. 6 it is 3.
SubsecondMap(conf) ==
    FoldLeft(LAMBDA m, e : LET w == getULong(e.value) IN setValue(m, "Global", IF w \in 1 .. 6 THEN w ELSE 3),
             <<>>, Entries(conf, "SubsecondPrecision"))

\* Mutant of insertFile: a file that was opened before is opened again.
InsertFileAnew(acc, level, name) ==
    LET at      == IF DOMAIN acc.names = {} THEN "Global" ELSE level
        fs      == IF name \in BadFiles THEN Null ELSE name
        streams == acc.streams @@ (at :> fs)
    IN  [names   |-> acc.names @@ (at :> name),
         streams |-> streams,
         ref     |-> (name :> fs) @@ [n \in DOMAIN acc.ref |-> IF n = name THEN fs ELSE Null],
         toFile  |-> IF fs = Null THEN setValue(acc.toFile, at, FALSE) ELSE acc.toFile]

\* A file name seen before shares its stream.  The first file is that of the
\* global level, insert leaves an entry alone that is there, and what is then
\* remembered for the name is the stream of the level.
insertFile(acc, level, name) ==
    LET at      == IF DOMAIN acc.names = {} THEN "Global" ELSE level
        known   == name \in DOMAIN acc.ref
        fs      == IF known THEN acc.ref[name] ELSE IF name \in BadFiles THEN Null ELSE name
        streams == acc.streams @@ (at :> fs)
    IN  [names   |-> acc.names @@ (at :> name),
         streams |-> streams,
         ref     |-> IF known THEN acc.ref ELSE acc.ref @@ (name :> streams[at]),
         toFile  |-> IF fs = Null THEN setValue(acc.toFile, at, FALSE) ELSE acc.toFile]

\* TypedConfigurations::build, without the rolling at its end.
build(conf, streamsReference) ==
    LET files == FoldLeft(LAMBDA acc, e : insertFile(acc, e.level, e.value),
                          [names |-> <<>>, streams |-> <<>>, ref |-> streamsReference,
                           toFile |-> BoolMap(conf, "ToFile")],
                          Entries(conf, "Filename"))
    IN  [typed |-> [enabled |-> BoolMap(conf, "Enabled"), toFile |-> files.toFile,
                    names |-> files.names, streams |-> files.streams,
                    maxSize |-> LongMap(conf, "MaxLogFileSize"),
                    threshold |-> LongMap(conf, "LogFlushThreshold"),
                    precision |-> SubsecondMap(conf)],
         ref   |-> files.ref]

Stream(typed, level) == unsafeGetConfig(typed.streams, level)

-----------------------------------------------------------------------------
(* Streams.                                                                *)

Truncated == [size |-> 0, offset |-> 0, pending |-> <<>>]

\* An appending stream stands at the end of the file once it has written.
Flushed(d, f) ==
    IF d[f].pending = <<>> THEN d
    ELSE LET size == d[f].size + Len(d[f].pending)
         IN  [d EXCEPT ![f] = [size |-> size, offset |-> size, pending |-> <<>>]]

getSizeOfFile(d, f) == d[f].offset + Len(d[f].pending)

unsafeValidateFileRolling(d, typed, level) ==
    LET f == Stream(typed, level)
        m == unsafeGetConfig(typed.maxSize, level)
    IN  IF f # Null /\ m # 0 /\ getSizeOfFile(d, f) >= m THEN [d EXCEPT ![f] = Truncated] ELSE d

-----------------------------------------------------------------------------
(* Loggers.  A state st has loggers, ref and disk.                         *)

Unflushed0 == [l \in ToSet(Levels) |-> 0]

\* Logger::flush(level, fs).
flushLevel(st, id, level) ==
    LET typed == st.loggers[id].typed
    IN  [st EXCEPT !.disk = unsafeValidateFileRolling(Flushed(@, Stream(typed, level)), typed, level),
                   !.loggers[id].unflushed[level] = 0]

\* Logger::flush(): the levels that write to a file.
flush(st, id) ==
    LET typed == st.loggers[id].typed
    IN  FoldLeft(LAMBDA s, l : IF unsafeGetConfig(typed.toFile, l) /\ Stream(typed, l) # Null
                               THEN flushLevel(s, id, l) ELSE s,
                 st, Levels)

\* Logger::configure with a configuration that is complete after it.
configure(st, id, conf) ==
    LET logger == st.loggers[id]
        reset  == [st EXCEPT !.loggers[id].unflushed = Unflushed0]
        synced == IF logger.configured /\ hasConfiguration(logger.conf, "Global", "Filename")
                  THEN flush(reset, id) ELSE reset
        b      == build(conf, st.ref)
        limits == SelectSeq(Entries(conf, "MaxLogFileSize"), LAMBDA e : getULong(e.value) # 0)
    IN  [loggers |-> [st.loggers EXCEPT ![id] = [conf |-> conf, typed |-> b.typed,
                                                 unflushed |-> Unflushed0, configured |-> TRUE]],
         ref     |-> b.ref,
         disk    |-> FoldLeft(LAMBDA d, e : unsafeValidateFileRolling(d, b.typed, e.level), synced.disk, limits)]

\* configure(c): c is merged into what the logger has; reconfigure(): not.
ConfigureWith(st, id, c) == configure(st, id, setFromBase(st.loggers[id].conf, c))

\* RegisteredLoggers::get: a new logger has the default configuration.
getOrCreate(st, id, default) ==
    IF id \in DOMAIN st.loggers THEN st
    ELSE ConfigureWith([st EXCEPT !.loggers = @ @@ (id :> [conf |-> <<>>, typed |-> <<>>, unflushed |-> Unflushed0,
                                                           configured |-> FALSE])],
                       id, default)

\* With the count already raised.
isFlushNeeded(logger, level) == logger.unflushed[level] + 1 >= unsafeGetConfig(logger.typed.threshold, level)

\* LogDispatcher::dispatch and DefaultLogDispatchCallback, for one line.
dispatch(st, id, level) ==
    LET logger == st.loggers[id]
        typed  == logger.typed
        f      == Stream(typed, level)
        rolled == IF "StrictLogFileSizeCheck" \in Flags
                  THEN [st EXCEPT !.disk = unsafeValidateFileRolling(@, typed, level)] ELSE st
        wrote  == [rolled EXCEPT !.disk[f].pending = Append(@, <<id, level>>)]
    IN  IF ~unsafeGetConfig(typed.toFile, level) \/ f = Null THEN rolled
        ELSE IF "ImmediateFlush" \in Flags THEN flushLevel(wrote, id, level)
        ELSE IF isFlushNeeded(logger, level) THEN flushLevel(wrote, id, level)
        ELSE [wrote EXCEPT !.loggers[id].unflushed[level] = @ + 1]

\* Writer: a level that is not enabled writes nothing.
write(st, id, level) ==
    IF unsafeGetConfig(st.loggers[id].typed.enabled, level) THEN dispatch(st, id, level) ELSE st

-----------------------------------------------------------------------------
Now == [loggers |-> loggers, ref |-> ref, disk |-> disk]

Becomes(st) == loggers' = st.loggers /\ ref' = st.ref /\ disk' = st.disk

DefaultConfigurations == setToDefault(<<>>)

\* Storage::Storage, over the files of an earlier run.
Init ==
    \E old \in [Files -> OldLines] :
        LET none == [loggers |-> <<>>, ref |-> <<>>,
                     disk |-> [f \in Files |-> [Truncated EXCEPT !.size = old[f]]]]
            st   == getOrCreate(none, "default", DefaultConfigurations)
        IN  /\ loggers = st.loggers /\ ref = st.ref /\ disk = st.disk
            /\ defaults = DefaultConfigurations
            /\ changes = 0

\* LOG: of a logger that is not registered, the default one says so.
Log(id, level) ==
    /\ \A f \in Files : disk[f].size + Len(disk[f].pending) < MaxLines
    /\ Becomes(IF id \in DOMAIN loggers THEN write(Now, id, level) ELSE write(Now, "default", "Debug"))
    /\ UNCHANGED <<defaults, changes>>

getLogger(id) == id \notin DOMAIN loggers /\ Becomes(getOrCreate(Now, id, defaults)) /\ UNCHANGED <<defaults, changes>>

\* RegisteredLoggers::remove; the streams stay.
unregisterLogger(id) ==
    /\ MayUnregister
    /\ id \in DOMAIN loggers \ {"default"}
    /\ loggers' = [i \in DOMAIN loggers \ {id} |-> loggers[i]]
    /\ UNCHANGED <<ref, disk, defaults, changes>>

\* RegisteredLoggers::unsafeFlushAll: the streams, not the counts.
flushAll ==
    /\ disk' = [f \in Files |-> IF f \in {ref[n] : n \in DOMAIN ref} THEN Flushed(disk, f)[f] ELSE disk[f]]
    /\ UNCHANGED <<loggers, ref, defaults, changes>>

Changing == changes < MaxChanges /\ changes' = changes + 1

\* The loggers in some order, each with op applied to its configuration.
Reconfigured(st, ids, e) ==
    FoldLeft(LAMBDA s, id : configure(s, id, set(s.loggers[id].conf, e.level, e.type, e.value)), st, ids)

\* reconfigureLogger(id, type, value): for the global level.
reconfigureLogger(id, e) ==
    /\ Changing
    /\ Becomes(Reconfigured(getOrCreate(Now, id, defaults), <<id>>, [e EXCEPT !.level = "Global"]))
    /\ UNCHANGED defaults

reconfigureAllLoggers(e) ==
    /\ Changing
    /\ Becomes(Reconfigured(Now, SetToSeq(DOMAIN loggers), e))
    /\ UNCHANGED defaults

\* setDefaultConfigurations, for loggers to come and for those there are.
setDefaultConfigurations(e, reconfigureExistingLoggers) ==
    /\ Changing
    /\ LET c == set(<<>>, e.level, e.type, e.value)
       IN  /\ defaults' = setFromBase(defaults, c)
           /\ IF reconfigureExistingLoggers
              THEN Becomes(FoldLeft(LAMBDA s, id : ConfigureWith(s, id, c), Now, SetToSeq(DOMAIN loggers)))
              ELSE UNCHANGED <<loggers, ref, disk>>

\* The argument --default-log-file: every level but the global one.
setApplicationArguments(name) ==
    /\ Changing
    /\ LET c == setGlobally(<<>>, "Filename", name, FALSE)
       IN  /\ defaults' = setFromBase(defaults, c)
           /\ Becomes(FoldLeft(LAMBDA s, id : ConfigureWith(s, id, c), Now, SetToSeq(DOMAIN loggers)))

Next ==
    \/ \E id \in Ids :
        \/ \E l \in SomeLevels : Log(id, l)
        \/ getLogger(id) \/ unregisterLogger(id)
        \/ \E e \in Changes : reconfigureLogger(id, e)
    \/ flushAll
    \/ \E e \in Changes : reconfigureAllLoggers(e) \/ \E b \in BOOLEAN : setDefaultConfigurations(e, b)
    \/ \E name \in Files : setApplicationArguments(name)

Spec == Init /\ [][Next]_vars

-----------------------------------------------------------------------------
AllLevels == ToSet(Levels) \cup {"Global"}

Configured(id, level, type) == get(loggers[id].conf, level, type)

TypeOK ==
    /\ "default" \in DOMAIN loggers /\ DOMAIN loggers \subseteq Ids
    /\ \A id \in DOMAIN loggers : loggers[id].configured /\ loggers[id].unflushed \in [ToSet(Levels) -> Nat]
    /\ DOMAIN ref \subseteq Files
    /\ \A f \in Files : disk[f].size \in 0 .. MaxLines /\ disk[f].offset \in 0 .. MaxLines
    /\ changes \in 0 .. MaxChanges

\* What a logger uses for a level (the maps that TypedConfigurations builds,
\* which drop every value equal to the global one) is what its configurations
\* say of that level, whatever sequence of changes led there.
TypedAgrees ==
    \A id \in DOMAIN loggers, l \in AllLevels :
        LET typed == loggers[id].typed
        IN  /\ unsafeGetConfig(typed.names, l) = Configured(id, l, "Filename")
            /\ unsafeGetConfig(typed.maxSize, l) = getULong(Configured(id, l, "MaxLogFileSize"))
            /\ unsafeGetConfig(typed.threshold, l) = getULong(Configured(id, l, "LogFlushThreshold"))
            /\ (Configured(id, l, "Filename") \notin BadFiles =>
                    unsafeGetConfig(typed.toFile, l) = getBool(Configured(id, l, "ToFile"))
                    \/ Configured(id, "Global", "Filename") \in BadFiles)

\* Two loggers, or two levels, configured with one file name share one stream,
\* that of this file, and no stream is lost while a line is in it.
StreamIsOfFile ==
    /\ \A id \in DOMAIN loggers, l \in AllLevels :
        LET name == Configured(id, l, "Filename")
        IN  name \in DOMAIN ref /\ Stream(loggers[id].typed, l) = ref[name]
    /\ \A name \in DOMAIN ref : ref[name] = IF name \in BadFiles THEN Null ELSE name
    /\ \A f \in Files : disk[f].pending # <<>> => f \in DOMAIN ref

Held(id, level) ==
    LET of(f) == Cardinality({i \in DOMAIN disk[f].pending : disk[f].pending[i] = <<id, level>>})
    IN  FoldSet(LAMBDA f, n : n + of(f), 0, Files)

\* A logger's lines of a level that are not flushed are counted by it, across
\* all changes of its files and thresholds, and they are fewer than the
\* threshold it has been given.
PendingCounted ==
    \A id \in DOMAIN loggers, l \in ToSet(Levels) :
        /\ Held(id, l) <= loggers[id].unflushed[l]
        /\ Held(id, l) < Max({1, unsafeGetConfig(loggers[id].typed.threshold, l)})

\* A line that is flushed leaves a file below the limit of its level.
LimitKept ==
    [][\A id \in DOMAIN loggers, l \in SomeLevels :
        LET typed == loggers[id].typed
            f     == Stream(typed, l)
            m     == unsafeGetConfig(typed.maxSize, l)
        IN  Log(id, l) /\ f # Null /\ m # 0 /\ disk'[f] # disk[f] /\ disk'[f].pending = <<>>
            => disk'[f].size < m]_vars

=============================================================================
