------------------------------ MODULE TlsVerify ------------------------------
(***************************************************************************)
(* The certificate checks of CWebSocketClient (src/wsclient.cpp): the      *)
(* handshake presents a chain, from the root (depth Len - 1) to the        *)
(* server's own certificate (depth 0), and verify_certificate is called    *)
(* for each.  OpenSSL is external: it says of a certificate whether it     *)
(* trusts it (preverified), which needs the CA file, and ends the          *)
(* handshake at the first answer that is not true.                         *)
(*                                                                         *)
(* A URL, a host and a name are sequences of characters; a subject         *)
(* alternative name is [dns, name, nul] and a common name the same, where  *)
(* nul says that a NUL character is embedded in it.                        *)
(***************************************************************************)
EXTENDS Integers, Sequences

CONSTANTS NodeUrls,  \* node URLs
          Chains     \* chains of certificates [trusted, san, cn], leaf first;
                     \* san and cn are sequences, empty if the extension or
                     \* the field is missing

VARIABLES url, caFile, chain, depth, verdict
handshake == <<url, caFile, chain, depth, verdict>>

\* The positions at which t occurs in s, as strstr looks for it.
Occurrences(s, t) ==
    {i \in 1 .. Len(s) + 1 - Len(t) : SubSeq(s, i, i + Len(t) - 1) = t}

\* What follows the first occurrence of t in s, or s if there is none.
After(s, t) ==
    LET at == Occurrences(s, t)
    IN  IF at = {} THEN s
        ELSE SubSeq(s, (CHOOSE i \in at : \A j \in at : i <= j) + Len(t), Len(s))

\* What precedes the first t in s.
Before(s, t) ==
    LET at == Occurrences(s, t)
    IN  IF at = {} THEN s ELSE SubSeq(s, 1, (CHOOSE i \in at : \A j \in at : i <= j) - 1)

\* The part of the URL between "//" and the next slash.
Host(u) ==
    IF Occurrences(u, <<"/", "/">>) = {} THEN u
    ELSE Before(After(u, <<"/", "/">>), <<"/">>)

\* compare_host_name: the certificate's name, without a wildcard, occurs in the
\* host of the URL.
CompareHostName(u, name) == Occurrences(Host(u), After(name, <<"*", ".">>)) # {}

\* verify_subject_alternative_name: the names up to the first DNS name with an
\* embedded NUL are compared.
VerifySubjectAlternativeName(u, san) ==
    \E i \in 1 .. Len(san) :
        /\ san[i].dns
        /\ CompareHostName(u, san[i].name)
        /\ \A j \in 1 .. i : san[j].dns => ~san[j].nul

\* verify_common_name.
VerifyCommonName(u, cn) == cn # <<>> /\ ~cn[1].nul /\ CompareHostName(u, cn[1].name)

\* Mutant of VerifyCertificate: an untrusted certificate is not an error.
VerifyNamesOnly(u, d, preverified, cert) ==
    IF d = 0 /\ ~(VerifySubjectAlternativeName(u, cert.san) \/ VerifyCommonName(u, cert.cn))
    THEN "rejected" ELSE "ok"

\* verify_certificate at depth d.
VerifyCertificate(u, d, preverified, cert) ==
    CASE ~preverified -> "threw"
      [] preverified /\ d = 0 ->
            IF VerifySubjectAlternativeName(u, cert.san) \/ VerifyCommonName(u, cert.cn)
            THEN "ok" ELSE "rejected"
      [] OTHER -> "ok"

\* on_tls_init: a CA file that cannot be loaded is only logged.
Begin ==
    /\ url \in NodeUrls
    /\ chain \in Chains
    /\ caFile \in BOOLEAN
    /\ depth = Len(chain) - 1
    /\ verdict = "checking"

\* The callback for the certificate at the current depth.
Verify ==
    LET cert   == chain[depth + 1]
        answer == VerifyCertificate(url, depth, caFile /\ cert.trusted, cert)
    IN  /\ verdict = "checking"
        /\ \/ /\ answer = "ok" /\ depth > 0
              /\ depth' = depth - 1
              /\ UNCHANGED verdict
           \/ /\ answer = "ok" /\ depth = 0
              /\ verdict' = "accepted"
              /\ UNCHANGED depth
           \/ /\ answer # "ok"
              /\ verdict' = answer
              /\ UNCHANGED depth
        /\ UNCHANGED <<url, caFile, chain>>

Handshake == Begin /\ [][Verify]_handshake

-----------------------------------------------------------------------------
\* A handshake goes on only if the CA file was loaded and every certificate of
\* the chain is trusted (wsclient.cpp:164-180, test/connect_failed_tls.cpp).
AcceptedIsTrusted ==
    verdict = "accepted" => caFile /\ \A i \in 1 .. Len(chain) : chain[i].trusted

\* A name that stands for the host: the host itself, or a wildcard for the
\* domain the host is in.
StandsFor(name, host) ==
    \/ name = host
    \/ /\ Len(name) > 2 /\ SubSeq(name, 1, 2) = <<"*", ".">>
       /\ \E i \in 2 .. Len(host) : SubSeq(host, i, Len(host)) = SubSeq(name, 2, Len(name))

Wellformed(cert) ==
    /\ \A i \in 1 .. Len(cert.san) : ~cert.san[i].nul
    /\ \A i \in 1 .. Len(cert.cn) : ~cert.cn[i].nul

\* When the check has ended, a trusted chain whose leaf names the host, exactly or by
\* a wildcard, was accepted (wsclient.cpp:43-137).
OwnNameAccepted ==
    LET leaf == chain[1]
        host == Host(url)
        named == \/ \E i \in 1 .. Len(leaf.san) : leaf.san[i].dns /\ StandsFor(leaf.san[i].name, host)
                 \/ leaf.cn # <<>> /\ StandsFor(leaf.cn[1].name, host)
        good == caFile /\ Wellformed(leaf) /\ \A i \in 1 .. Len(chain) : chain[i].trusted
    IN  verdict # "checking" /\ named /\ good => verdict = "accepted"

\* Both: a handshake goes on only with trusted certificates, and a trusted chain
\* for the host is accepted (verify_certificate, compare_host_name of wsclient.cpp).
ChainIsJudged == AcceptedIsTrusted /\ OwnNameAccepted
=============================================================================
