-------------------------- MODULE MetadataFactory --------------------------
(***************************************************************************)
(* The parsers of runtime metadata V0 to V7 and the factory around them    *)
(* (src/metadatafactory.cpp, src/structs/metadataV7.cpp).                  *)
(*                                                                         *)
(* Each getXxx of the code reads fields from the front of a stream.  Here  *)
(* it is the FORMAT it reads: Parse interprets a format, in the order and  *)
(* with the failures of the scale readers, and the Struct operators say    *)
(* which field of the C++ structure each value ends up in.  A flag that    *)
(* says whether a part is there is an option: <<>> or <<part>>.            *)
(***************************************************************************)
EXTENDS Scale

\* Formats.
Byte1      == [t |-> "byte"]
Word       == [t |-> "word"]
Str        == [t |-> "str"]                       \* also fallbacks and values kept as hex
Fields(fs) == [t |-> "fields", of |-> fs]
List(f)    == [t |-> "list", of |-> f, long |-> FALSE]   \* counted by an int
Long(f)    == [t |-> "list", of |-> f, long |-> TRUE]    \* counted by a long
Isset(f)   == [t |-> "isset", of |-> f]
Switch(arms) == [t |-> "switch", of |-> arms]     \* a byte selects what follows

Documentation == Long(Str)
Arguments     == List(Fields(<<Str, Str>>))

\* The count a loop runs to: the int conversion drops the digits above 4.
Count(d, long) == IF long /\ Len(d) > 4 THEN 2^30 ELSE Value(d)

RECURSIVE Parse(_, _), ParseFields(_, _), ParseItems(_, _, _)

Parse(f, s) ==
    CASE f.t = "byte"   -> nextByte(s)
      [] f.t = "word"   -> nextWord(s)
      [] f.t = "str"    -> LET n == decodeCompactInteger(s)
                           IN  IF n.ok THEN extractString(n.rest, Count(n.val, FALSE)) ELSE Throws
      [] f.t = "fields" -> ParseFields(f.of, s)
      [] f.t = "list"   -> LET n == decodeCompactInteger(s)
                           IN  IF n.ok THEN ParseItems(f.of, Count(n.val, f.long), n.rest) ELSE Throws
      [] f.t = "isset"  -> LET b == nextByte(s)
                           IN  IF b.ok THEN ParseItems(f.of, IF b.val = 0 THEN 0 ELSE 1, b.rest) ELSE Throws
      [] f.t = "switch" -> LET b == nextByte(s)
                               r == ParseFields(f.of[IF b.val < 3 THEN b.val + 1 ELSE 4], b.rest)
                           IN  IF b.ok /\ r.ok THEN Read(<<b.val>> \o r.val, r.rest) ELSE Throws

ParseFields(fs, s) ==
    IF fs = <<>> THEN Read(<<>>, s)
    ELSE LET h == Parse(Head(fs), s)
             r == ParseFields(Tail(fs), h.rest)
         IN  IF h.ok /\ r.ok THEN Read(<<h.val>> \o r.val, r.rest) ELSE Throws

\* Every item takes a byte at least: a count no stream can hold fails at its end.
ParseItems(f, n, s) ==
    IF n = 0 THEN Read(<<>>, s)
    ELSE LET h == Parse(f, s)
             r == ParseItems(f, n - 1, h.rest)
         IN  IF h.ok /\ r.ok THEN Read(<<h.val>> \o r.val, r.rest) ELSE Throws

-----------------------------------------------------------------------------
(* Version 0.                                                              *)

getEventV0 == Fields(<<Str, List(Fields(<<Str, Long(Str), Documentation>>))>>)

CallFunctionV0 == Fields(<<Word, Str, Arguments, Documentation>>)

\* The type byte, then the flag that announces a second type.
TypesV0 == Switch(<<<<Str>>, <<Str, Str>>, <<Str, Str>>, <<Str, Str>>>>)

StorageV0 == Fields(<<Str, List(Fields(<<Str, Byte1, TypesV0, Str, Documentation>>))>>)

getModuleV0 == Fields(<<Str, Str, Str, List(CallFunctionV0), Isset(StorageV0)>>)

getOuterDispachV0 == Fields(<<Str, Str, Word>>)

fillV0Metadata ==
    Fields(<<Str, List(getEventV0), List(getModuleV0), Str, List(getOuterDispachV0)>>)

(* Versions 4 to 7.  The five magic bytes are read and not looked at.      *)

Magic == Fields(<<Byte1, Byte1, Byte1, Byte1, Byte1>>)

getCallV4 == Fields(<<Str, Arguments, Documentation>>)
getCallV5 == Fields(<<Str, Arguments, Documentation>>)
getCallV6 == Fields(<<Str, Arguments, Documentation>>)
getCallV7 == Fields(<<Str, Arguments, Documentation>>)

getEventV4 == Fields(<<Str, List(Str), Documentation>>)
getEventV5 == Fields(<<Str, List(Str), Documentation>>)
getEventV6 == Fields(<<Str, List(Str), Documentation>>)
getEventV7 == Fields(<<Str, List(Str), Documentation>>)

\* Plain: a type.  Otherwise two types and a hasher.
getStorageV4 ==
    LET map == <<Str, Str, Byte1>>
    IN  Fields(<<Str, Byte1, Switch(<<<<Str>>, map, map, map>>), Str, Documentation>>)

\* Plain: a type.  Map: hasher, key, value, isLinked.  Double map: one key
\* more.  Any other byte: hasher, type, isLinked.
Types ==
    Switch(<<<<Str>>, <<Byte1, Str, Str, Byte1>>, <<Byte1, Str, Str, Str, Byte1>>, <<Byte1, Str, Byte1>>>>)

\* Mutant of getStorageV6: the isLinked byte of a map is left unread.
StorageV6Unlinked ==
    Fields(<<Str, Byte1, Switch(<<<<Str>>, <<Byte1, Str, Str>>, <<Byte1, Str, Str, Str, Byte1>>, <<Byte1, Str, Byte1>>>>),
             Str, Documentation>>)

getStorageV5 == Fields(<<Str, Byte1, Types, Str, Documentation>>)
getStorageV6 == Fields(<<Str, Byte1, Types, Str, Documentation>>)
getStorageV7 == Fields(<<Str, Byte1, Types, Str, Documentation>>)

getConstsV6 == Fields(<<Str, Str, Str, Documentation>>)
getConstsV7 == Fields(<<Str, Str, Str, Documentation>>)

fillV4Metadata ==
    Fields(<<Magic, List(Fields(<<Str, Str, Isset(List(getStorageV4)),
                                  Isset(List(getCallV4)), Isset(List(getEventV4))>>))>>)

fillV5Metadata ==
    Fields(<<Magic, List(Fields(<<Str, Str, Isset(List(getStorageV5)),
                                  Isset(List(getCallV5)), Isset(List(getEventV5))>>))>>)

fillV6Metadata ==
    Fields(<<Magic, List(Fields(<<Str, Str, Isset(List(getStorageV6)),
                                  Isset(List(getCallV6)), Isset(List(getEventV6)), Long(getConstsV6)>>))>>)

fillV7Metadata ==
    Fields(<<Magic, List(Fields(<<Str, Isset(Fields(<<Str, List(getStorageV7)>>)),
                                  Isset(List(getCallV7)), Isset(List(getEventV7)), Long(getConstsV7)>>))>>)

-----------------------------------------------------------------------------
(* The structures.  An array of pointers is the sequence of those that are *)
(* set; members no lookup reads are left out.                              *)

Uninit == <<1>>          \* what an array nobody wrote to holds
Null   == <<>>

\* Each copy of typeName goes to the first function of the module.
TypeNameV0(functions) == functions[Len(functions)][2]

StructV0(m) ==
    [name    |-> m[1],
     storage |-> IF m[5] = Null THEN Null ELSE
                 LET functions == m[5][1][2] IN
                 [i \in DOMAIN functions |->
                     LET f == functions[i] IN
                     [name  |-> f[1],
                      type  |-> IF i = 1 THEN TypeNameV0(functions) ELSE Uninit[1],
                      key1  |-> IF f[2] = 0 THEN Uninit ELSE f[3][2], key2 |-> Uninit,
                      value |-> IF f[2] = 0 THEN f[3][2]
                                ELSE IF f[3][1] > 0 THEN f[3][3] ELSE <<>>,
                      fallback |-> f[4], documentation |-> f[5]]],
     call    |-> [i \in DOMAIN m[4] |-> [name |-> m[4][i][2], args |-> m[4][i][3]]],
     cons    |-> <<>>]

StorageStructV4(f) ==
    [name |-> f[1], type |-> f[3][1], key1 |-> f[3][2],
     key2 |-> IF f[3][1] = 0 THEN Uninit ELSE f[3][3], value |-> Uninit,
     fallback |-> f[4], documentation |-> f[5]]

\* type holds the hasher; the second key is copied over by the value.
StorageStruct(f) ==
    LET kind == f[3][1] IN
    [name |-> f[1], type |-> IF kind # 0 THEN f[3][2] ELSE 0,
     key1 |-> IF kind # 0 THEN f[3][3] ELSE f[3][2], key2 |-> Uninit,
     value |-> CASE kind = 1 -> f[3][4] [] kind = 2 -> f[3][5] [] OTHER -> Uninit,
     fallback |-> f[4], documentation |-> f[5]]

CallStruct(c) == [name |-> c[1], args |-> c[2]]

\* A part that is there and empty has one blank entry.
Filled(part, Struct(_), blank) ==
    IF part = Null THEN <<>>
    ELSE IF part[1] = <<>> THEN <<blank>>
    ELSE [i \in DOMAIN part[1] |-> Struct(part[1][i])]

BlankStorage == [name |-> Uninit, type |-> Uninit[1], key1 |-> Uninit, key2 |-> Uninit, value |-> Uninit,
                 fallback |-> Uninit, documentation |-> <<>>]
BlankCall    == [name |-> Uninit, args |-> <<>>]

Consts(cs) == [i \in DOMAIN cs |-> [name |-> cs[i][1], value |-> cs[i][3]]]

StructV4(m) ==
    [name |-> m[1], storage |-> Filled(m[3], StorageStructV4, BlankStorage),
     call |-> Filled(m[4], CallStruct, BlankCall), cons |-> <<>>]

StructV5(m) ==
    [name |-> m[1], storage |-> Filled(m[3], StorageStruct, BlankStorage),
     call |-> Filled(m[4], CallStruct, BlankCall), cons |-> <<>>]

StructV6(m) ==
    [name |-> m[1], storage |-> Filled(m[3], StorageStruct, BlankStorage),
     call |-> Filled(m[4], CallStruct, BlankCall), cons |-> Consts(m[6])]

\* No blank entries; the storage is behind a pointer of its own.
StructV7(m) ==
    [name |-> m[1],
     storage |-> IF m[2] = Null THEN Null
                 ELSE [i \in DOMAIN m[2][1][2] |-> StorageStruct(m[2][1][2][i])],
     call |-> IF m[3] = Null THEN <<>> ELSE [i \in DOMAIN m[3][1] |-> CallStruct(m[3][1][i])],
     cons |-> Consts(m[5])]

-----------------------------------------------------------------------------
(* The factory.  getMetadata(v) is <<>> for nullptr.                       *)

VersionNumber == {0, 4, 5, 6, 7}

Result(read, modules, Struct(_)) ==
    IF read.ok THEN <<[i \in DOMAIN modules |-> Struct(modules[i])]>> ELSE Null

getMetadata(v, s) ==
    LET read == Parse(CASE v = 0 -> fillV0Metadata [] v = 4 -> fillV4Metadata [] v = 5 -> fillV5Metadata
                        [] v = 6 -> fillV6Metadata [] v = 7 -> fillV7Metadata, s)
    IN  CASE v = 0 -> Result(read, read.val[3], StructV0)
          [] v = 4 -> Result(read, read.val[2], StructV4)
          [] v = 5 -> Result(read, read.val[2], StructV5)
          [] v = 6 -> Result(read, read.val[2], StructV6)
          [] v = 7 -> Result(read, read.val[2], StructV7)

createMetadata(s) == [v \in VersionNumber |-> getMetadata(v, s)]

=============================================================================
