----------------------------- MODULE Extrinsic -----------------------------
(***************************************************************************)
(* Extrinsics on the wire: what signAndSendTransfer, submitExtrinsic and   *)
(* submitAndSubcribeExtrinsic sign and send, and what pendingExtrinsics    *)
(* reads back from the node's pool (src/application.cpp,                   *)
(* src/structs/transfer.h, src/structs/signaturepayload.h).                *)
(*                                                                         *)
(* Messages are sequences of bytes; the hexadecimal text they travel in is *)
(* left out, and so are the metadata lookups that yield the indexes of a   *)
(* module and a method.  An account is the byte its public key consists of.*)
(***************************************************************************)
EXTENDS Scale

CONSTANTS Account,       \* bytes, one for each account
          Nonces,        \* nonces the node reports, as digits
          Amounts,       \* amounts to transfer, as digits
          MethodSizes,   \* sizes of encoded method arguments
          BufferSizes,   \* sizes of the array given to pendingExtrinsics
          MaxSent        \* bound on the extrinsics sent

VARIABLES sent,          \* the extrinsics in the node's pool, in order
          report         \* what the last pendingExtrinsics returned

vars == <<sent, report>>

SIGNATURE_VERSION == 129
ADDRESS_SEPARATOR == 255
IMMORTAL_ERA      == 0
MORTAL_ERA        == 1
PublicSize        == 32
SignatureSize     == 64
FixedTransferSize == 134
DEFAULT_FIXED_EXSTRINSIC_SIZE == 103

ModuleIndex == 3
MethodIndex == 0

Key(a)      == [i \in 1 .. PublicSize |-> a]
GenesisHash == [i \in 1 .. 32 |-> 200]
Sign(a)     == [i \in 1 .. SignatureSize |-> a]

-----------------------------------------------------------------------------
(* Writing.                                                                *)

SerializeTransferMethod(recipient, amount) ==
    <<ModuleIndex, MethodIndex, ADDRESS_SEPARATOR>> \o Key(recipient) \o encodeCompactInteger(amount)

CompleteMessage(size) ==
    <<ModuleIndex, MethodIndex, ADDRESS_SEPARATOR>> \o [i \in 1 .. size |-> i % 256]

\* Mutant of SignaturePayload: one byte of the method is left unsigned.
SignaturePayloadShort(nonce, method) ==
    encodeCompactInteger(nonce) \o SubSeq(method, 1, Len(method) - 1)
        \o <<IMMORTAL_ERA>> \o GenesisHash

\* methodBytesLength is a uint8_t.
SignaturePayload(nonce, method) ==
    encodeCompactInteger(nonce) \o SubSeq(method, 1, Len(method) % 256)
        \o <<IMMORTAL_ERA>> \o GenesisHash

\* What follows the length in every extrinsic.
Signed(sender, nonce, method) ==
    <<SIGNATURE_VERSION, ADDRESS_SEPARATOR>> \o Key(sender) \o Sign(sender)
        \o encodeCompactInteger(nonce) \o <<IMMORTAL_ERA>> \o method

Extrinsic(call, sender, nonce, method, length) ==
    [call    |-> call, sender |-> sender, nonce |-> nonce, method |-> method,
     payload |-> SignaturePayload(nonce, method),
     bytes   |-> encodeCompactInteger(Digits(length)) \o Signed(sender, nonce, method)]

Send(e) ==
    /\ Len(sent) < MaxSent
    /\ sent' = Append(sent, e)
    /\ UNCHANGED report

signAndSendTransfer(sender, recipient, nonce, amount) ==
    Send(Extrinsic("transfer", sender, nonce, SerializeTransferMethod(recipient, amount),
                   FixedTransferSize + Len(encodeCompactInteger(amount))
                                     + Len(encodeCompactInteger(nonce))))

submitExtrinsic(sender, nonce, size) ==
    Send(Extrinsic("submit", sender, nonce, CompleteMessage(size),
                   DEFAULT_FIXED_EXSTRINSIC_SIZE + size + Len(encodeCompactInteger(nonce)) - 1))

submitAndSubcribeExtrinsic(sender, nonce, size) ==
    Send(Extrinsic("watch", sender, nonce, CompleteMessage(size),
                   DEFAULT_FIXED_EXSTRINSIC_SIZE + size))

-----------------------------------------------------------------------------
(* Reading.                                                                *)

Parse(bytes) ==
    LET length == decodeCompactInteger(bytes)
        head   == length.rest
        nonce  == decodeCompactInteger(SubSeq(head, 3 + PublicSize + SignatureSize, Len(head)))
        tail   == nonce.rest
    IN  [length      |-> length.val,
         version     |-> head[1],
         signer      |-> SubSeq(head, 3, 2 + PublicSize),
         signature   |-> SubSeq(head, 3 + PublicSize, 2 + PublicSize + SignatureSize),
         nonce       |-> nonce.val,
         era         |-> IF tail[1] # 0 THEN MORTAL_ERA ELSE IMMORTAL_ERA,
         moduleIndex |-> tail[2],
         methodIndex |-> tail[3],
         methodBytes |-> SubSeq(tail, 4, Len(tail))]

\* Everything is counted; what fits the array is parsed into it.
pendingExtrinsics(bufferSize) ==
    LET filled == IF Len(sent) < bufferSize THEN Len(sent) ELSE bufferSize
    IN  /\ report' = [count |-> Len(sent), of |-> Len(sent), size |-> bufferSize,
                      buf   |-> [i \in 1 .. filled |-> Parse(sent[i].bytes)]]
        /\ UNCHANGED sent

-----------------------------------------------------------------------------
Init ==
    /\ sent = <<>>
    /\ report = [count |-> 0, of |-> 0, size |-> 0, buf |-> <<>>]

Next ==
    \/ \E s, r \in Account, n \in Nonces, a \in Amounts : signAndSendTransfer(s, r, n, a)
    \/ \E s \in Account, n \in Nonces, z \in MethodSizes : submitExtrinsic(s, n, z)
    \/ \E s \in Account, n \in Nonces, z \in MethodSizes : submitAndSubcribeExtrinsic(s, n, z)
    \/ \E b \in BufferSizes : pendingExtrinsics(b)

Spec == Init /\ [][Next]_vars

-----------------------------------------------------------------------------
Announced(e) == decodeCompactInteger(e.bytes)

\* The length an extrinsic starts with is the number of bytes that follow it,
\* whatever the sizes of the compact nonce and of the compact amount: the
\* constants 134 (transfer.h) and 103 (application.h) count the fixed parts.
LengthMatches ==
    \A i \in DOMAIN sent :
        sent[i].call # "watch" => Value(Announced(sent[i]).val) = Len(Announced(sent[i]).rest)

\* What the receiver of an extrinsic must find signed: nonce, method and era
\* as they stand in the message, and the genesis hash.
Expected(e) ==
    LET p == Parse(e.bytes)
    IN  encodeCompactInteger(p.nonce) \o <<p.moduleIndex, p.methodIndex>> \o p.methodBytes
            \o <<p.era>> \o GenesisHash

\* The payload that was signed is the one its receiver rebuilds from the
\* message, for methods of up to 255 bytes.
SignedIsSent ==
    \A i \in DOMAIN sent :
        Len(sent[i].method) <= 255 => sent[i].payload = Expected(sent[i])

\* pendingExtrinsics returns, for the extrinsics that fit the array and in
\* their order, the signer, nonce and method they were sent with, and counts
\* them all.
PendingIsSent ==
    /\ report.count = report.of
    /\ Len(report.buf) = IF report.of < report.size THEN report.of ELSE report.size
    /\ \A i \in DOMAIN report.buf :
           LET p == report.buf[i] IN
           /\ p.signer = Key(sent[i].sender)
           /\ p.nonce = sent[i].nonce
           /\ <<p.moduleIndex, p.methodIndex>> \o p.methodBytes = sent[i].method

\* All three: an extrinsic announces its own length, what was signed is what
\* its receiver rebuilds, and pendingExtrinsics returns what was sent.
ExtrinsicIsSent == LengthMatches /\ SignedIsSent /\ PendingIsSent

=============================================================================
