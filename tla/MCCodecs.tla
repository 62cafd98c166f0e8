------------------------------ MODULE MCCodecs ------------------------------
(***************************************************************************)
(* The number formats, the texts of numbers and keys and the hash          *)
(* functions of the client.  A behaviour chooses one of them and an input; *)
(* subject holds both and what the code made of them.  The calls of        *)
(* Blake2b are made in any order.                                          *)
(***************************************************************************)
EXTENDS Uint128, Blake2b, FiniteSets

CONSTANTS Words,                                \* the words operands of Uint128 are made of
          Low, High, MaxDigits,                 \* lower and highest digits of compact integers
          Width, ByteValues, MaxValue, IntBits, \* integers written as text, bits atoi128 computes with
          Filling, Places, Odd,                 \* keys: all bytes but one, its place, its value
          Typed, TypedAt,                       \* symbols that are mistyped, and where
          MaxKeys,                              \* storage keys that are made
          MaxHashed, Beyond,                    \* the longest part of a memory, and bytes after it
          MaxLen, Pieces                        \* messages of Blake2b and the pieces they come in

VARIABLE subject

Sequence == INSTANCE SequencesExt
Compact  == INSTANCE Scale
Text     == INSTANCE Converters
Xx       == INSTANCE XxHash
Rounds64 == INSTANCE Blake2bCompress

Memory == [i \in 1 .. MaxHashed + Beyond |-> ((37 * i) + 11) % 256]

\* Stand-ins for the hash functions, in which every byte counts.
RECURSIVE Scrambled(_, _)
Scrambled(s, n) == IF s = <<>> THEN n ELSE Scrambled(Tail(s), (n * 31 + s[1] + 7) % 65521)
ScrambledSum(payload) == LET n == Scrambled(payload, 5) IN <<n % 256, n \div 256>>
ScrambledWord(data, seed) ==
    LET n == Scrambled(data, 11 + seed) IN <<n % 256, n \div 256, seed, Len(data), 0, 10, 171, 255>>
ScrambledHash(data) == LET n == Scrambled(data, 3) IN [i \in 1 .. 32 |-> IF i % 2 = 0 THEN n % 256 ELSE n \div 256]

Keys == INSTANCE StorageKey WITH Checksum <- ScrambledSum, XXH64 <- ScrambledWord, blake2b <- ScrambledHash

Nothing == [kind |-> "nothing"]

-----------------------------------------------------------------------------
(* Compact integers: a number is encoded in front of other bytes, and      *)
(* decoded.                                                                *)

Numbers ==
    {<<>>} \cup UNION {{d \in [1 .. n -> Low \cup High] :
                            d[n] \in High /\ \A i \in 1 .. n - 1 : d[i] \in Low} : n \in 1 .. MaxDigits}

Trailing == {<<>>, <<5, 0, 7>>}

EncodeAndDecode(number, rest) ==
    subject' = [kind   |-> "compact", number |-> number,
                result |-> Compact!decodeCompactInteger(Compact!encodeCompactInteger(number) \o rest)]

\* The numbers whose two bits above 0xFFF the two-byte mode drops.
Cut(d) == Len(d) = 2 /\ d[2] \in 16 .. 63

\* What encodeCompactInteger writes, decodeCompactInteger reads back as the
\* same number, in each of the four modes and at their boundaries, and it
\* leaves the bytes that follow untouched.
RoundTrip ==
    subject.kind = "compact" /\ subject.result.ok /\ ~Cut(subject.number)
        => subject.result.val = subject.number /\ subject.result.rest \in Trailing

-----------------------------------------------------------------------------
(* Texts of numbers: a node writes them as Substrate does.                 *)

HexDigit(d) == IF d < 10 THEN 48 + d ELSE 97 + d - 10
HexText(bs) == Sequence!FlattenSeq([i \in DOMAIN bs |-> <<HexDigit(bs[i] \div 16), HexDigit(bs[i] % 16)>>])
Decimal(n)  == [i \in DOMAIN Digits(n, 10) |-> 48 + Digits(n, 10)[i]]

WrittenAs(number, form, text) == subject' = [kind |-> form, number |-> number, text |-> text]

\* "0x" and all bytes, the highest or the lowest first.
WriteHex(number) ==
    \/ WrittenAs(number, "bytes", <<48, 120>> \o HexText(Sequence!Reverse(number)))
    \/ WrittenAs(number, "little", <<48, 120>> \o HexText(number))

\* Digits; blanks and zeros in front and text behind; a minus sign.
WriteDecimal(number) ==
    \/ WrittenAs(number, "decimal", Decimal(number))
    \/ WrittenAs(number, "padded", <<32, 9, 43, 48, 48>> \o Decimal(number) \o <<97, 49>>)
    \/ WrittenAs(number, "signed", <<45>> \o Decimal(number))

\* The bytes of a number, written in full, highest or lowest first, are read
\* back as that number by fromHex, and by fromHex<vector> in the order asked
\* for; a narrower type keeps the low bytes.
BytesAreRead ==
    LET number == subject.number
        text   == subject.text
    IN  /\ subject.kind = "bytes" =>
            /\ Text!fromHex(text, TRUE, Width) = number
            /\ Text!fromHex(text, TRUE, Width - 1) = SubSeq(number, 1, Width - 1)
            /\ Text!fromHexVector(text, TRUE) = Sequence!Reverse(number)
            /\ Text!fromHexVector(text, FALSE) = number
        /\ subject.kind = "little" =>
            /\ Text!fromHex(text, FALSE, Width) = number
            /\ Text!fromHexVector(text, TRUE) = number
            /\ Text!fromHexVector(text, FALSE) = Sequence!Reverse(number)

\* atoi128 computes the decimal number modulo the size of its type, whatever
\* blanks and zeros are in front of it and whatever follows it; a minus sign
\* makes it the negative of it.
DecimalIsRead ==
    /\ subject.kind \in {"decimal", "padded"} =>
        Text!atoi128(subject.text, IntBits) = subject.number % 2 ^ IntBits
    /\ subject.kind = "signed" =>
        (Text!atoi128(subject.text, IntBits) + subject.number) % 2 ^ IntBits = 0

-----------------------------------------------------------------------------
(* Addresses: a key is written as one, mistyped or not, and read.          *)

PublicKeys == {[i \in 1 .. Keys!PUBLIC_KEY_LENGTH |-> IF i = p THEN b ELSE a] :
                    a \in Filling, p \in Places, b \in Odd}

NotRead == <<-1>>

WriteAddress(publicKey) ==
    subject' = [kind |-> "address", publicKey |-> publicKey, mistyped |-> FALSE, read |-> NotRead,
                address |-> Keys!getAddrFromPublicKey(publicKey)]

MistypeAddress ==
    /\ subject.kind = "address" /\ ~subject.mistyped /\ subject.read = NotRead
    /\ \E i \in TypedAt, c \in Typed \cup {-1} :
        /\ subject.address[i] # c
        /\ subject' = [subject EXCEPT !.address[i] = c, !.mistyped = TRUE]

ReadAddress ==
    /\ subject.kind = "address" /\ subject.read = NotRead
    /\ subject' = [subject EXCEPT !.read = Keys!getPublicKeyFromAddr(subject.address)]

\* The address getAddrFromPublicKey writes has the 48 symbols that the readers
\* copy, and getPublicKeyFromAddr reads the key back from it.
KeyIsRead ==
    subject.kind = "address" /\ ~subject.mistyped =>
        /\ Len(subject.address) = Keys!ADDRESS_LENGTH
        /\ subject.read # NotRead => subject.read = subject.publicKey

\* A key that is read from symbols of the alphabet is the key of that address
\* and of no other: writing it again, with its checksum, gives the address.
AcceptedIsCanonical ==
    LET address == subject.address
        bytes   == Keys!DecodeBase58(address)
        payload == <<bytes[1]>> \o subject.read
    IN  /\ subject.kind = "address" /\ subject.read \notin {NotRead, Keys!Throws}
        /\ Len(bytes) = 35 /\ \A i \in DOMAIN address : address[i] >= 0
        => Keys!EncodeBase58(payload \o ScrambledSum(payload)) = address

-----------------------------------------------------------------------------
(* Storage keys: of plain and of mapped variables, one after the other.    *)

Prefixes == {<<66, 32, 70>>, <<66, 32, 71>>}
Values   == {<<49>>, <<49, 50>>, <<48, 120, 70>>}
Accounts == {Keys!getAddrFromPublicKey([i \in 1 .. 32 |-> IF i = 1 THEN b ELSE 9]) : b \in Filling}

Parameters ==
    [wellformed : {TRUE}, type : {"AccountId"}, value : Accounts]
        \cup [wellformed : {TRUE}, type : {"u32", "Hash", "Vec"}, value : Values]
        \cup [wellformed : {FALSE}, type : {"u32"}, value : {<<>>}]

NoParameter == [wellformed |-> TRUE, type |-> "none", value |-> <<>>]

Made == IF subject.kind = "keys" THEN subject.made ELSE {}

Make(q, storageKey) ==
    /\ subject.kind \in {"nothing", "keys"}
    /\ Cardinality(Made) < MaxKeys /\ \A m \in Made : m.q # q
    /\ subject' = [kind |-> "keys", made |-> Made \cup {[q |-> q, key |-> storageKey]}]

MakeKey ==
    \E hasher \in {Keys!XXHASH, Keys!BLAKE2}, p \in Prefixes :
        \/ Make([hasher |-> hasher, prefix |-> p, prm |-> NoParameter], Keys!getPlainStorageKey(hasher, p))
        \/ \E prm \in Parameters :
            Make([hasher |-> hasher, prefix |-> p, prm |-> prm], Keys!getMappedStorageKey(hasher, prm, p))

\* The data a node hashes for what was asked: the name, and the public key or
\* the value.
Data(q) ==
    q.prefix \o (IF q.prm.type = "AccountId" THEN Keys!getPublicKeyFromAddr(q.prm.value) ELSE q.prm.value)

\* The text of a key, read again as bytes, is the hash of the data: for xxHash
\* the hash with seed 0 and then with seed 1, each lowest byte first
\* (getStorageKey).
KeyIsHash ==
    \A m \in Made : m.key # Keys!Throws =>
        Text!fromHexVector(m.key, TRUE) =
            IF m.q.hasher = Keys!XXHASH THEN ScrambledWord(Data(m.q), 0) \o ScrambledWord(Data(m.q), 1)
                                        ELSE ScrambledHash(Data(m.q))

\* Two parameters of one variable have different keys, the key without a
\* parameter is different from them, and only a parameter that is not JSON or
\* is of a type that is not in the list has none (getMappedStorageKey).
KeysDiffer ==
    /\ \A m, n \in Made :
        (m.key = n.key /\ m.key # Keys!Throws /\ m.q.hasher = n.q.hasher /\ m.q.prefix = n.q.prefix)
            => m.q.prm.value = n.q.prm.value
    /\ \A m \in Made : m.key = Keys!Throws <=> (~m.q.prm.wellformed \/ m.q.prm.type = "Vec")

-----------------------------------------------------------------------------
(* 128-bit integers: two operands, or one and a number for the shifts.     *)

FlsSteps == <<4>>
B2 == B * B

Operands == [hi : Words, lo : Words]

Operand(a) == subject' = [kind |-> "uint", a |-> a, b |-> Zero, n |-> 0]

Second(b) ==
    /\ subject.kind = "uint" /\ subject.n = 0
    /\ subject' = [subject EXCEPT !.b = b, !.n = 1]

Amount(n) ==
    /\ subject.kind = "uint" /\ subject.n = 0
    /\ subject' = [subject EXCEPT !.n = n]

Number(ds, base) == Sequence!FoldLeft(LAMBDA n, d : n * base + d, 0, ds)

\* Of the largest power of a base that is a word.
Log(base) == CHOOSE k \in 1 .. W : base ^ k < B /\ base ^ (k + 1) >= B

Bits2(x) == {i \in 0 .. 2 * W - 1 : (x \div 2 ^ i) % 2 = 1}

\* Sums, differences, products and opposites are those of numbers modulo
\* 2^128, carries over the words included; the comparisons are those of
\* numbers (uint128.cpp).
ArithmeticIsModular ==
    subject.kind = "uint" =>
        LET a == subject.a
            b == subject.b
        IN  /\ Val(Add(a, b)) = (Val(a) + Val(b)) % B2
            /\ Val(Sub(a, b)) = (Val(a) - Val(b)) % B2
            /\ Val(Mul(a, b)) = (Val(a) * Val(b)) % B2
            /\ Lt(a, b) = (Val(a) < Val(b)) /\ Le(a, b) = (Val(a) <= Val(b))
            /\ Gt(a, b) = (Val(a) > Val(b)) /\ Ge(a, b) = (Val(a) >= Val(b))

\* The negative of a value, and the value of a negative integer, added to the
\* positive one is 0.
OppositeIsOpposite ==
    subject.kind = "uint" =>
        /\ Add(subject.a, Neg(subject.a)) = Zero
        /\ Add(FromSigned(0 - subject.n), FromSigned(subject.n)) = Zero
        /\ Neg(Neg(subject.a)) = subject.a

\* The quotient and the rest are those of numbers, for every divisor but 0
\* (DivModImpl).
DivisionIsExact ==
    subject.kind = "uint" /\ subject.b # Zero =>
        \A d \in {DivMod(subject.a, subject.b)} :
            /\ Val(d.quotient) = Val(subject.a) \div Val(subject.b)
            /\ Val(d.rest) = Val(subject.a) % Val(subject.b)

\* Shifts by any amount below 128 move bits from word to word; the operators
\* on bits are those on sets of bits.
BitsAreMoved ==
    subject.kind = "uint" =>
        LET a == subject.a
            b == subject.b
            n == subject.n
        IN  /\ n \in 1 .. 2 * W - 1 =>
                /\ Val(Shl(a, n)) = (Val(a) * 2 ^ n) % B2
                /\ Val(Shr(a, n)) = Val(a) \div 2 ^ n
            /\ Bits2(Val(Or(a, b))) = Bits2(Val(a)) \cup Bits2(Val(b))
            /\ Bits2(Val(And(a, b))) = Bits2(Val(a)) \cap Bits2(Val(b))
            /\ Val(Xor(a, b)) = Val(Or(a, b)) - Val(And(a, b))
            /\ Val(Not(a)) = B2 - 1 - Val(a)

\* The text of a value reads as its number in each base, without zeros in
\* front, wherever the three chunks it is made of are cut (Uint128ToFormattedString).
TextIsNumber ==
    subject.kind = "uint" /\ subject.n = 0 =>
        \A base \in {3, 7, 10, 16} : \A t0 \in {Formatted(subject.a, base, Log(base))} :
            Number(t0, base) = Val(subject.a) /\ (Len(t0) > 1 => t0[1] # 0)

-----------------------------------------------------------------------------
(* xxHash: of a part of the memory, and of the same part after one byte of *)
(* the memory was changed.                                                 *)

HashPart(len, seed) ==
    \E hash \in {Xx!XXH64(Memory, len, Xx!Small(seed))} :
        subject' = [kind |-> "xxhash", len |-> len, seed |-> seed, at |-> 0, hash |-> hash, other |-> hash]

ChangeByte(p) ==
    /\ subject.kind = "xxhash" /\ subject.at = 0
    /\ subject' = [subject EXCEPT !.at = p,
                      !.other = Xx!XXH64([Memory EXCEPT ![p] = (@ + 128) % 256], subject.len, Xx!Small(subject.seed))]

\* Another byte among the first len gives another hash, and the bytes after
\* them are not read: the stripes of 32 bytes and the loops over the last ones
\* meet without a gap, and end where the part ends (XXH64_endian_align,
\* XXH64_finalize).
EveryByteCounts ==
    subject.kind = "xxhash" /\ subject.at # 0 => ((subject.other # subject.hash) <=> subject.at <= subject.len)

\* Hashes of parts of the memory, by length and seed, as the function itself
\* gives them (XXH64 of xxhash.cpp): every branch, and the lengths next to it.
KnownHashes == {
    <<0, 0, <<153, 233, 216, 81, 55, 219, 70, 239>>>>,
    <<3, 0, <<233, 139, 177, 12, 224, 82, 210, 167>>>>,
    <<4, 1, <<97, 159, 216, 131, 176, 126, 203, 119>>>>,
    <<7, 0, <<234, 235, 92, 139, 50, 177, 118, 110>>>>,
    <<8, 1, <<5, 91, 145, 126, 33, 76, 217, 72>>>>,
    <<15, 1, <<254, 80, 145, 199, 86, 32, 225, 147>>>>,
    <<31, 0, <<238, 182, 186, 42, 75, 113, 149, 32>>>>,
    <<32, 0, <<6, 142, 47, 12, 78, 129, 41, 49>>>>,
    <<32, 1, <<115, 44, 157, 71, 142, 153, 91, 107>>>>,
    <<33, 1, <<5, 159, 152, 125, 101, 28, 11, 29>>>>,
    <<63, 0, <<21, 181, 71, 225, 90, 62, 235, 176>>>>,
    <<64, 1, <<77, 220, 79, 111, 66, 44, 212, 105>>>>,
    <<71, 1, <<58, 136, 191, 29, 180, 142, 43, 250>>>> }

\* The model gives the hashes that the program gives.
HashIsKnown ==
    subject.kind = "xxhash" =>
        \A k \in KnownHashes : k[1] = subject.len /\ k[2] = subject.seed => subject.hash = k[3]

-----------------------------------------------------------------------------
(* Blake2b: Compress keeps what it is given, so that two digests are the   *)
(* same only if the same blocks were compressed in the same order, with    *)
(* the same counters and flags.                                            *)

Initial(n, k) == <<[n |-> n, k |-> k]>>
Chain(hh, block, tt, last) == Append(hh, [block |-> block, t |-> tt, last |-> last])
Whole(hh, n) == <<hh, n>>
Place(i) == i
KeyPlace(i) == 100 + i

Call ==
    \/ \E n \in {1, OUTBYTES} : blake2b_init(n)
    \/ \E n \in {1, OUTBYTES}, k \in 1 .. KEYBYTES : blake2b_init_key(n, k)
    \/ \E n \in Pieces : MessageLen + n <= MaxLen /\ CallUpdate(n)
    \/ \E n \in {1, OUTBYTES} : CallFinal(n)
    \/ \E n \in {1, OUTBYTES}, k \in 0 .. KEYBYTES, len \in 0 .. MaxLen : blake2b(n, len, k)

\* The blocks of data by definition: of size bytes, the last one filled up
\* with zeros and marked, each with the number of bytes up to it.
Blocks(data, size, word) ==
    LET len       == Len(data)
        last      == IF len = 0 THEN 1 ELSE (len + size - 1) \div size
        byte(i)   == IF i <= len THEN data[i] ELSE 0
        number(c) == <<c % word, (c \div word) % word>>
    IN  [b \in 1 .. last |->
            [block |-> [i \in 1 .. size |-> byte((b - 1) * size + i)],
             t     |-> number(IF b = last THEN len ELSE b * size),
             last  |-> b = last]]

\* Whatever pieces a message comes in, with a key or without one, in one call
\* or in many: the digest is that of the message (blake2b_update,
\* blake2b_init_key, blake2b_final, blake2b).
DigestIsOfMessage ==
    digest.out # <<>> =>
        digest.out = Whole(Initial(outlen, key) \o Blocks(digest.of, BLOCKBYTES, CounterWord), outlen)

\* Nothing is lost, doubled or moved: until the last block, what was given is
\* in the compressed blocks, then in the buffer, then still before the pointer
\* (blake2b_update).
NothingIsLost ==
    LET compressed == (Len(h) - 1) * BLOCKBYTES
    IN  ~f => /\ Len(given) = compressed + Len(Kept)
              /\ \A i \in 1 .. Len(given) :
                    given[i] = IF i <= compressed
                               THEN h[2 + ((i - 1) \div BLOCKBYTES)].block[((i - 1) % BLOCKBYTES) + 1]
                               ELSE Kept[i - compressed]

-----------------------------------------------------------------------------
(* The compression function of the code, over the blocks of a message.     *)

\* Digests of BLAKE2b: of the first len bytes of a message with the first key
\* bytes of a key, n bytes long; the first and the last eight of them.
KnownDigests == {
    [len |-> 0, key |-> 0, n |-> 64, first |-> <<120, 106, 2, 247, 66, 1, 89, 3>>, last |-> <<213, 111, 112, 26, 254, 155, 226, 206>>],
    [len |-> 3, key |-> 0, n |-> 32, first |-> <<98, 144, 221, 236, 81, 139, 85, 182>>, last |-> <<82, 106, 145, 67, 172, 173, 46, 255>>],
    [len |-> 127, key |-> 0, n |-> 64, first |-> <<23, 116, 111, 67, 111, 43, 228, 128>>, last |-> <<56, 235, 44, 88, 129, 117, 204, 151>>],
    [len |-> 128, key |-> 0, n |-> 64, first |-> <<246, 39, 138, 35, 42, 196, 50, 188>>, last |-> <<195, 185, 20, 31, 157, 55, 30, 177>>],
    [len |-> 129, key |-> 0, n |-> 32, first |-> <<25, 7, 25, 233, 19, 37, 165, 30>>, last |-> <<149, 145, 115, 36, 195, 236, 254, 130>>],
    [len |-> 256, key |-> 0, n |-> 64, first |-> <<33, 65, 79, 248, 167, 207, 254, 111>>, last |-> <<92, 54, 139, 135, 201, 166, 183, 160>>],
    [len |-> 257, key |-> 0, n |-> 64, first |-> <<142, 119, 222, 32, 84, 29, 107, 91>>, last |-> <<88, 117, 139, 195, 245, 12, 19, 189>>],
    [len |-> 300, key |-> 0, n |-> 32, first |-> <<86, 138, 238, 54, 92, 213, 23, 238>>, last |-> <<141, 25, 15, 84, 193, 35, 168, 31>>],
    [len |-> 0, key |-> 64, n |-> 64, first |-> <<82, 244, 63, 50, 85, 28, 5, 125>>, last |-> <<31, 62, 151, 115, 94, 35, 186, 62>>],
    [len |-> 1, key |-> 1, n |-> 64, first |-> <<116, 203, 25, 62, 72, 118, 70, 184>>, last |-> <<255, 197, 104, 117, 230, 204, 143, 149>>],
    [len |-> 128, key |-> 64, n |-> 64, first |-> <<22, 46, 93, 245, 25, 130, 219, 71>>, last |-> <<67, 76, 245, 11, 107, 13, 1, 191>>],
    [len |-> 200, key |-> 64, n |-> 32, first |-> <<137, 218, 89, 54, 96, 208, 247, 169>>, last |-> <<18, 102, 49, 223, 13, 208, 157, 85>>] }

MessageBlocks(len, k) ==
    LET message  == [i \in 1 .. len |-> ((37 * i) + 11) % 256]
        keyBlock == [i \in 1 .. IF k = 0 THEN 0 ELSE 128 |-> IF i <= k THEN (5 * i) % 256 ELSE 0]
    IN  Blocks(keyBlock \o message, 128, 65536)

HashMessage(known) ==
    subject' = [kind |-> "blake2b", known |-> known, left |-> MessageBlocks(known.len, known.key),
                words |-> Rounds64!blake2b_init_param(known.n, known.key)]

HashBlock ==
    /\ subject.kind = "blake2b" /\ subject.left # <<>>
    /\ LET b == Head(subject.left)
       IN  subject' = [subject EXCEPT !.left = Tail(@),
                                      !.words = Rounds64!blake2b_compress(@, b.block, b.t, b.last)]

\* The blocks that were compressed, with the rounds and the parameter block of
\* the code, give the digest of the hash function (blake2b_compress,
\* blake2b_init_param).
DigestIsKnown ==
    subject.kind = "blake2b" /\ subject.left = <<>> =>
        LET n   == subject.known.n
            out == Rounds64!Written(subject.words, n)
        IN  SubSeq(out, 1, 8) = subject.known.first /\ SubSeq(out, n - 7, n) = subject.known.last

-----------------------------------------------------------------------------
MCInit == Init /\ subject = Nothing

ChooseInput ==
    /\ subject = Nothing
    /\ \/ \E number \in Numbers, rest \in Trailing : EncodeAndDecode(number, rest)
       \/ \E number \in [1 .. Width -> ByteValues] : WriteHex(number)
       \/ \E number \in 0 .. MaxValue : WriteDecimal(number)
       \/ \E publicKey \in PublicKeys : WriteAddress(publicKey)
       \/ \E a \in Operands : Operand(a)
       \/ \E len \in 0 .. MaxHashed, seed \in {0, 1} : HashPart(len, seed)
       \/ \E known \in KnownDigests : HashMessage(known)
       \/ subject' = [kind |-> "stream"]

GoOn ==
    \/ MistypeAddress \/ ReadAddress
    \/ \E b \in Operands : Second(b)
    \/ \E n \in 2 .. 2 * W : Amount(n)
    \/ \E p \in DOMAIN Memory : ChangeByte(p)
    \/ HashBlock

StreamCall == subject.kind = "stream" /\ Call /\ UNCHANGED subject
StreamStep == subject.kind = "stream" /\ Step /\ UNCHANGED subject

MCNext == ((ChooseInput \/ GoOn \/ MakeKey) /\ UNCHANGED vars) \/ StreamCall \/ StreamStep

MCSpec == MCInit /\ [][MCNext]_<<subject, vars>>

-----------------------------------------------------------------------------
(* The properties of each representation together.                         *)

\* A number or a byte sequence that is written is read back as itself: SCALE,
\* hexadecimal and decimal (scale.cpp, converters.cpp).
NumbersAreRead == RoundTrip /\ BytesAreRead /\ DecimalIsRead

\* An address stands for one public key, and a storage key for one variable
\* and one parameter (address.cpp, storage.cpp).
KeysAreRight == KeyIsRead /\ AcceptedIsCanonical /\ KeyIsHash /\ KeysDiffer

\* Two words calculate, and print, as one number of twice the width
\* (int128.h, int128.cpp).
ArithmeticIsExact ==
    ArithmeticIsModular /\ OppositeIsOpposite /\ DivisionIsExact /\ BitsAreMoved /\ TextIsNumber

\* Both hashes read every byte of a message once, in whatever pieces it comes,
\* and give the digests of their definition (xxhash.cpp, blake2b.cpp).
HashesAreRight ==
    EveryByteCounts /\ HashIsKnown /\ NothingIsLost /\ DigestIsOfMessage /\ DigestIsKnown
=============================================================================
