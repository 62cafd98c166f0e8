----------------------------- MODULE MCLogging -----------------------------
(***************************************************************************)
(* The logging of the client.  A behaviour is about one part: the threads  *)
(* that log, the configurations a program makes by calls or by texts, the  *)
(* files its loggers write to (with bad files and removed loggers, or with *)
(* flush thresholds and size limits), verbose levels, or counters.  The    *)
(* other parts stay as they were at the start.                             *)
(***************************************************************************)
EXTENDS LogWriter

CONSTANTS MaxConfCalls, MaxTextLines,         \* LogConfiguring
          MaxFileLines, MaxChanges,           \* LogFiles
          MaxVerboseCalls,                    \* LogVerbose
          kMaxLogPerCounter, MaxHits          \* LogCounters

VARIABLES part,
          own, base, asked, result, made,
          loggers, ref, disk, defaults, changes,
          verbose, modules, mentions,
          counters, hits, fired

configuring == <<own, base, asked, result>>
files       == <<loggers, ref, disk, defaults, changes>>
verbosity   == <<verbose, modules, mentions>>
counting    == <<counters, hits, fired>>

\* A message that is cut and one that is not.
SomeMessages == {<<"a">>, <<"b", "b", "b">>}
ThreeDots    == <<".">>

-----------------------------------------------------------------------------
(* Configurations: lines of every kind, two values.                        *)

Line(kind, name, text) == [kind |-> kind, name |-> name, text |-> text]

ConfLines == { Line("skipped", "Unknown", <<>>),
               Line("level", "Global", <<>>), Line("level", "Debug", <<>>), Line("level", "Unknown", <<>>),
               Line("config", "Format", <<" ", "x">>), Line("config", "Unknown", <<"x">>) }

Values == {<<"x">>, <<"y">>}

ByCalls == INSTANCE LogConfiguring
             WITH SomeLevels <- {"Trace", "Debug", "Info"}, SomeTypes <- {"Format", "ToFile"},
                  SetLevels <- {"Global", "Debug"}, SomeValues <- Values,
                  SomeLines <- {}, MaxLines <- 0, MaxCalls <- MaxConfCalls, calls <- made

ByTexts == INSTANCE LogConfiguring
             WITH SomeLevels <- {"Trace", "Debug", "Info"}, SomeTypes <- {"Format"},
                  SetLevels <- {"Global", "Debug"}, SomeValues <- Values,
                  SomeLines <- ConfLines, MaxLines <- MaxTextLines, MaxCalls <- 2, calls <- made

-----------------------------------------------------------------------------
(* Files: two loggers, two levels, two files.                              *)

FileNames == {<<"file">>, <<"other">>}

FileTypes == {"Enabled", "Filename", "ToFile", "SubsecondPrecision", "MaxLogFileSize", "LogFlushThreshold"}

Change(l, type, value) == [level |-> l, type |-> type, value |-> <<value>>]

\* Values that come back to those of the global level, and one that is no number.
MixedChanges == { Change("Debug", "Filename", "other"), Change("Global", "Filename", "other"),
                  Change("Global", "ToFile", "false"), Change("Debug", "ToFile", "true"),
                  Change("Info", "MaxLogFileSize", "2"), Change("Debug", "MaxLogFileSize", "2"),
                  Change("Info", "LogFlushThreshold", "x") }

FlushChanges == { Change("Global", "LogFlushThreshold", "2"), Change("Debug", "LogFlushThreshold", "3"),
                  Change("Debug", "Filename", "other"), Change("Global", "MaxLogFileSize", "2") }

FileUse == INSTANCE LogFiles
           WITH SomeLevels <- {"Debug", "Info"}, SomeTypes <- FileTypes, Ids <- {"default", "api"},
                Files <- FileNames, BadFiles <- {<<"other">>}, Changes <- MixedChanges,
                MayUnregister <- TRUE, Flags <- {"StrictLogFileSizeCheck"}, OldLines <- {0},
                MaxLines <- MaxFileLines

Flushing == INSTANCE LogFiles
           WITH SomeLevels <- {"Debug", "Info"}, SomeTypes <- FileTypes, Ids <- {"default", "api"},
                Files <- FileNames, BadFiles <- {}, Changes <- FlushChanges,
                MayUnregister <- FALSE, Flags <- {}, OldLines <- {1},
                MaxLines <- MaxFileLines + 1

-----------------------------------------------------------------------------
(* Verbose levels: two modules, four files, lists of one and two items.    *)

SourceFiles == {<<"a", ".cpp">>, <<"a", ".h">>, <<"a", "b", ".hh">>, <<"c", ".cc">>}

ModuleTexts == { <<"a", "=", "1">>, <<"a", "=", "2">>, <<"a", "b", "=", "1", "2">>,
                 <<"a", "b", "=", "3", ",", "a", "=", "2", "1">> }

With(key, value) == [key |-> key, plain |-> FALSE, value |-> value]
Plain(key)       == [key |-> key, plain |-> TRUE, value |-> <<>>]

CommandLines == { <<Plain("-v"), With("--v", <<"2">>)>>, <<With("--v", <<"1">>), With("--v", <<"2">>)>>,
                  <<With("--V", <<"1", "2">>), With("-vmodule", <<"a", "=", "1">>)>>,
                  <<With("-vmodule", <<"a", "=", "2">>), Plain("other")>> }

Verbose == INSTANCE LogVerbose
             WITH Flags <- {"AllowVerboseIfModuleNotSpecified"}, SomeFiles <- SourceFiles,
                  Texts <- ModuleTexts, ArgLists <- CommandLines, SomeVLevels <- {0, 1, 2, 3, 12},
                  MaxCalls <- MaxVerboseCalls, level <- verbose, calls <- made

-----------------------------------------------------------------------------
(* Counters: four places that interleave.                                  *)

Place(macro, n) == [macro |-> macro, n |-> n]

Counting == INSTANCE LogCounters
              WITH Places <- { Place("EVERY_N", 3), Place("EVERY_N", 0), Place("AFTER_N", 2), Place("N_TIMES", 2) }

-----------------------------------------------------------------------------
MCInit ==
    /\ part \in {"threads", "calls", "texts", "files", "flushing", "verbose", "counters"}
    /\ Init
    /\ part # "threads" => \A t \in Threads : level[t] = "INFO" /\ message[t] = <<"a">>
    /\ IF part = "texts" THEN ByTexts!Init ELSE ByCalls!Init
    /\ IF part = "files" THEN FileUse!Init
       ELSE IF part = "flushing" THEN Flushing!Init
       ELSE loggers = <<>> /\ ref = <<>> /\ disk = <<>> /\ defaults = <<>> /\ changes = 0
    /\ Verbose!Init
    /\ Counting!Init

ThreadStep(t) ==
    part = "threads" /\ Step(t) /\ UNCHANGED <<part, configuring, made, files, verbosity, counting>>

ThreadCall ==
    /\ part = "threads"
    /\ \E t \in Threads, l \in LogLevels, m \in Messages : Call(t, l, m)
    /\ UNCHANGED <<part, configuring, made, files, verbosity, counting>>

ConfCall    == part = "calls" /\ ByCalls!Next /\ UNCHANGED <<part, vars, files, verbosity, counting>>
ConfText    == part = "texts" /\ ByTexts!Next /\ UNCHANGED <<part, vars, files, verbosity, counting>>
FileStep    == part = "files" /\ FileUse!Next /\ UNCHANGED <<part, vars, configuring, made, verbosity, counting>>
FlushStep   == part = "flushing" /\ Flushing!Next /\ UNCHANGED <<part, vars, configuring, made, verbosity, counting>>
VerboseCall == part = "verbose" /\ Verbose!Next /\ UNCHANGED <<part, vars, configuring, files, counting>>
CounterHit  == part = "counters" /\ Counting!Next /\ UNCHANGED <<part, vars, configuring, made, files, verbosity>>

MCNext ==
    \/ \E t \in Threads : ThreadStep(t)
    \/ ThreadCall \/ ConfCall \/ ConfText \/ FileStep \/ FlushStep \/ VerboseCall \/ CounterHit

everything == <<part, vars, configuring, made, files, verbosity, counting>>

\* A thread inside a call goes on.
MCSpec == MCInit /\ [][MCNext]_everything /\ \A t \in Threads : WF_everything(ThreadStep(t))

-----------------------------------------------------------------------------
(* The properties of the parts; the modules say which code they are about. *)

\* A repository holds one entry for a level and a type, says what was set last,
\* by calls or by lines, and a text without a refused line is reported as parsed
\* (Configurations::set, Configurations::Parser).
ConfigurationsAgree ==
    /\ part = "calls" => ByCalls!TypeOK
    /\ part = "texts" => ByTexts!LastWordCounts
    /\ ByTexts!GoodIsReported

\* setFromBase takes over a base whose global entries came first, and
\* setRemainingToDefault keeps what it finds; a flush leaves a file below its
\* size limit (Configurations, unsafeValidateFileRolling).
StepsKeep == ByCalls!BaseIsTaken /\ ByCalls!RemainingOnly /\ Flushing!LimitKept

\* The maps of a logger say what its configurations say, a file has one stream
\* that all its loggers share, and lines that are held are counted
\* (TypedConfigurations::build, insertFile, Logger::isFlushNeeded).
FilesAgree ==
    /\ part = "files" => FileUse!TypeOK /\ FileUse!TypedAgrees /\ FileUse!StreamIsOfFile
    /\ part = "flushing" => Flushing!TypedAgrees /\ Flushing!StreamIsOfFile /\ Flushing!PendingCounted

\* A line that is written on a condition is written when it holds: a module has
\* the level of its first mention, and counters fire as their macros are named
\* (VRegistry::setModules, RegisteredHitCounters).
ConditionalLines ==
    /\ part = "verbose" => Verbose!FirstMention
    /\ part = "counters" => Counting!FiresAsNamed
=============================================================================
