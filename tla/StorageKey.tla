----------------------------- MODULE StorageKey -----------------------------
(***************************************************************************)
(* The keys under which a node stores its state variables                  *)
(* (src/utils/storage.cpp): the hash, as hexadecimal text, of the name of  *)
(* the variable and of the parameter.  A 64-bit hash is the sequence of    *)
(* its eight base-256 digits, lowest first.  What throws is Throws.        *)
(***************************************************************************)
EXTENDS Address

CONSTANTS XXH64(_, _),     \* of data and a seed
          blake2b(_)       \* 32 bytes of data

XXHASH == "xxhash"
BLAKE2 == "blake2"

\* "%02X"
UpperHex(d) == IF d < 10 THEN 48 + d ELSE 65 + d - 10

RECURSIVE Printed(_)
Printed(bytes) ==
    IF bytes = <<>> THEN <<>>
    ELSE <<UpperHex(bytes[1] \div 16), UpperHex(bytes[1] % 16)>> \o Printed(Tail(bytes))

getStorageKey(hasher, data) ==
    <<48, 120>> \o Printed(IF hasher = XXHASH THEN XXH64(data, 0) \o XXH64(data, 1) ELSE blake2b(data))

getPlainStorageKey(hasher, prefix) == getStorageKey(hasher, prefix)

getAddressStorageKey(hasher, address, prefix) ==
    LET pubk == getPublicKeyFromAddr(address)
    IN  IF pubk = Throws THEN Throws ELSE getStorageKey(hasher, prefix \o pubk)

Numeric == {"BlockNumber", "u32", "AccountIndex", "PropIndex", "ReferendumIndex", "ParaId"}

\* prm is the parsed parameter; its value is appended as it was written.
getMappedStorageKey(hasher, prm, prefix) ==
    CASE ~prm.wellformed                         -> Throws
      [] prm.wellformed /\ prm.type = "AccountId" ->
            getAddressStorageKey(hasher, prm.value, prefix)
      [] prm.wellformed /\ prm.type \in Numeric \cup {"Hash"} ->
            getStorageKey(hasher, prefix \o prm.value)
      [] OTHER                                   -> Throws

=============================================================================
