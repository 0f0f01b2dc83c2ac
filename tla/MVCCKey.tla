------------------------------- MODULE MVCCKey -------------------------------
(***************************************************************************)
(* The keys under which the MVCC layer stores its records: storage/        *)
(* mvcc_key.go, and the ranges and prefixes that storage.go scans.  Module *)
(* MVCC keeps the four kinds of records in four variables; module          *)
(* Encodings checks that their keys allow it.                              *)
(***************************************************************************)
EXTENDS Bytes, SequencesExt

CONSTANTS
    MaxByte,       \* 0xff
    WordBytes,     \* how many bytes a version takes: 8 in the code
    Namespace,     \* mvccMetadataPrefix
    None           \* the missing bound of a scan; a decoding that fails

\* ^version(0)
MaxVersion == Power(MaxByte + 1, WordBytes) - 1

-----------------------------------------------------------------------------
(***************************************************************************)
(* Encoding.                                                               *)
(***************************************************************************)
mvccKeyNextVersion == 0
mvccKeyTxnActive == 1
mvccKeyTxnWrite == 2
mvccKeyVersion == 3

\* binary.BigEndian.PutUint64
encodeVersion(v) == BigEndian(v, WordBytes, MaxByte)

\* Mutant: zero bytes are not escaped.
EscapedRawKey_plain(rawKey) == rawKey

\* appendEscapedRawKey: 00 becomes 00 ff.
EscapedRawKey(rawKey) ==
    FlattenSeq([i \in 1..Len(rawKey) |->
                    IF rawKey[i] = 0 THEN <<0, MaxByte>> ELSE <<rawKey[i]>>])

\* Mutant: no terminator.
TerminatedRawKey_open(rawKey) == EscapedRawKey(rawKey)

\* appendTerminatedRawKey
TerminatedRawKey(rawKey) == EscapedRawKey(rawKey) \o <<0, 0>>

mvccKeyKindPrefix(kind) == Namespace \o <<kind>>

nextVersionKey == [kind |-> mvccKeyNextVersion, version |-> 0, rawKey |-> <<>>]
activeTransactionKey(v) == [kind |-> mvccKeyTxnActive, version |-> v, rawKey |-> <<>>]
transactionWriteKey(v, rawKey) == [kind |-> mvccKeyTxnWrite, version |-> v, rawKey |-> rawKey]
versionedKey(rawKey, v) == [kind |-> mvccKeyVersion, version |-> v, rawKey |-> rawKey]

encode(k) ==
    mvccKeyKindPrefix(k.kind) \o
        CASE k.kind = mvccKeyNextVersion -> <<>>
          [] k.kind = mvccKeyTxnActive -> encodeVersion(k.version)
          [] k.kind = mvccKeyTxnWrite -> encodeVersion(k.version) \o TerminatedRawKey(k.rawKey)
          [] k.kind = mvccKeyVersion -> TerminatedRawKey(k.rawKey) \o encodeVersion(k.version)

activeTransactionPrefix == mvccKeyKindPrefix(mvccKeyTxnActive)

transactionWritePrefix(v) == mvccKeyKindPrefix(mvccKeyTxnWrite) \o encodeVersion(v)

versionedKeyPrefix(rawPrefix) == mvccKeyKindPrefix(mvccKeyVersion) \o EscapedRawKey(rawPrefix)

-----------------------------------------------------------------------------
(***************************************************************************)
(* Decoding.                                                               *)
(***************************************************************************)

\* binary.BigEndian.Uint64 of all of the bytes; anything else is an error.
decodeVersion(encoded) ==
    LET value[n \in 0..Len(encoded)] ==
            IF n = 0 THEN 0 ELSE value[n - 1] * (MaxByte + 1) + encoded[n]
    IN  IF Len(encoded) # WordBytes THEN None ELSE value[Len(encoded)]

\* A byte in front of what the rest of an encoded raw key is decoded to.
Prepended(b, decoded) ==
    IF decoded = None THEN None ELSE [decoded EXCEPT !.rawKey = <<b>> \o @]

(***************************************************************************)
(* decodeRawKey: what the bytes from position i on are decoded to.  A zero *)
(* ends the raw key when another one follows, stands for itself when a     *)
(* MaxByte follows, and is an error otherwise.                             *)
(***************************************************************************)
decodeRawKey(encoded) ==
    LET from[i \in 1..(Len(encoded) + 2)] ==
            IF i >= Len(encoded) THEN None
            ELSE IF encoded[i] # 0 THEN Prepended(encoded[i], from[i + 1])
            ELSE IF encoded[i + 1] = 0 THEN
                [rawKey |-> <<>>, remaining |-> SubSeq(encoded, i + 2, Len(encoded))]
            ELSE IF encoded[i + 1] = MaxByte THEN Prepended(0, from[i + 2])
            ELSE None
    IN  from[1]

decodePayload(kind, payload) ==
    CASE kind = mvccKeyNextVersion ->
            IF payload = <<>> THEN nextVersionKey ELSE None
      [] kind = mvccKeyTxnActive ->
            LET v == decodeVersion(payload)
            IN  IF v = None THEN None ELSE activeTransactionKey(v)
      [] kind = mvccKeyTxnWrite ->
            IF Len(payload) < WordBytes THEN None
            ELSE LET v == decodeVersion(SubSeq(payload, 1, WordBytes))
                     key == decodeRawKey(SubSeq(payload, WordBytes + 1, Len(payload)))
                 IN  IF key = None THEN None
                     ELSE IF key.remaining # <<>> THEN None
                     ELSE transactionWriteKey(v, key.rawKey)
      [] kind = mvccKeyVersion ->
            LET key == decodeRawKey(payload)
            IN  IF key = None THEN None
                ELSE LET v == decodeVersion(key.remaining)
                     IN  IF v = None THEN None ELSE versionedKey(key.rawKey, v)
      [] OTHER -> None

decodeMvccKey(encoded) ==
    IF IsPrefix(Namespace, encoded) /\ Len(encoded) > Len(Namespace)
    THEN decodePayload(encoded[Len(Namespace) + 1],
                       SubSeq(encoded, Len(Namespace) + 2, Len(encoded)))
    ELSE None

-----------------------------------------------------------------------------
(***************************************************************************)
(* The ranges of the scans in storage.go.                                  *)
(***************************************************************************)
InPrefix(encoded, prefix) == InRange(encoded, prefix, prefixEnd(prefix, MaxByte, None), None)

\* MVCCTransaction.Get of transaction v
InGetRange(encoded, rawKey, v) ==
    InRange(encoded, encode(versionedKey(rawKey, 0)), encode(versionedKey(rawKey, v + 1)), None)

\* Mutant: the range ends before the highest version.
InWriteRange_exclusive(encoded, rawKey, from) ==
    InRange(encoded, encode(versionedKey(rawKey, from)),
            encode(versionedKey(rawKey, MaxVersion)), None)

\* The conflict check of MVCCTransaction.write: up to and with the highest
\* version, by appending a zero byte to the excluded bound.
InWriteRange(encoded, rawKey, from) ==
    InRange(encoded, encode(versionedKey(rawKey, from)),
            encode(versionedKey(rawKey, MaxVersion)) \o <<0>>, None)

=============================================================================
