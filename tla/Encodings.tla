------------------------------ MODULE Encodings ------------------------------
(***************************************************************************)
(* What the layers above the KV engine take for granted about their keys:  *)
(* different records have different keys, the keys sort the way the scans  *)
(* need, and every range and prefix that is scanned selects exactly the    *)
(* records it is meant to.                                                 *)
(*                                                                         *)
(* A state holds two raw keys of the MVCC layer, which grow byte by byte   *)
(* to every pair of strings of at most MaxRawKey bytes, or two rows, which *)
(* get every pair of primary keys.  The properties compare the one on the  *)
(* left, which a scan is about, with the one on the right, which the scan  *)
(* may or may not meet.                                                    *)
(***************************************************************************)
EXTENDS MVCCKey

CONSTANTS
    RawByte,    \* the bytes raw keys are made of
    MaxRawKey,  \* bound: bytes of a raw key
    Versions,   \* the versions that are compared
    Name,       \* table names: identifiers, which have no zero byte
    Texts       \* byte strings that are primary keys

ASSUME EncodingsAssumption ==
    /\ MaxByte \in Nat /\ MaxByte >= 4 /\ MaxByte % 2 = 1
    /\ WordBytes \in Nat \ {0}
    /\ Namespace \in Seq(0..MaxByte) /\ RawByte \subseteq 0..MaxByte
    /\ Versions \subseteq 0..MaxVersion
    /\ Name \subseteq Seq(1..MaxByte) \ {<<>>} /\ Texts \subseteq Seq(0..MaxByte)
    /\ None \notin Nat /\ None \notin Seq(0..MaxByte)
    /\ None \notin [rawKey : Seq(0..MaxByte), remaining : Seq(0..MaxByte)]

VARIABLES left, right

vars == <<left, right>>

KV == INSTANCE RowKey

RawKey(bytes) == [of |-> "raw", bytes |-> bytes]

Row(name, key) == [of |-> "row", name |-> name, key |-> key]

PrimaryKey ==
    {<<"null", 0>>} \cup {<<"boolean", n>> : n \in {0, 1}}
    \cup {<<"integer", n>> : n \in (-KV!Half)..(KV!Half - 1)}
    \cup {<<"float", bits>> : bits \in 0..(2 * KV!Half - 1)}
    \cup {<<"string", text>> : text \in Texts}

Unkeyed == {Row(name, <<"null", 0>>) : name \in Name}

Init ==
    \/ left = RawKey(<<>>) /\ right = RawKey(<<>>)
    \/ left \in Unkeyed /\ right \in Unkeyed

Longer(key) ==
    {RawKey(Append(key.bytes, b)) : b \in IF Len(key.bytes) < MaxRawKey THEN RawByte ELSE {}}

GrowLeft == left.of = "raw" /\ left' \in Longer(left) /\ UNCHANGED right

GrowRight == left.of = "raw" /\ right' \in Longer(right) /\ UNCHANGED left

KeyLeft ==
    /\ left \in Unkeyed
    /\ \E key \in PrimaryKey : left' = Row(left.name, key)
    /\ UNCHANGED right

KeyRight ==
    /\ right \in Unkeyed
    /\ \E key \in PrimaryKey : right' = Row(right.name, key)
    /\ UNCHANGED left

Next == GrowLeft \/ GrowRight \/ KeyLeft \/ KeyRight

Spec == Init /\ [][Next]_vars

RawKeys == left.of = "raw"

Rows == left.of = "row"

-----------------------------------------------------------------------------
(***************************************************************************)
(* Keys of the MVCC layer.                                                 *)
(***************************************************************************)
Records(rawKey) ==
    {nextVersionKey}
    \cup UNION {{versionedKey(rawKey, v), transactionWriteKey(v, rawKey), activeTransactionKey(v)} :
                    v \in Versions}

(***************************************************************************)
(* decodeMvccKey returns what encode was given, for every kind of record   *)
(* and every raw key, zero and ff bytes included; so no two records share  *)
(* a stored key.                                                           *)
(***************************************************************************)
DecodeInvertsEncode ==
    RawKeys => \A k \in Records(left.bytes) : decodeMvccKey(encode(k)) = k

(***************************************************************************)
(* Stored versions sort by raw key first and version second.  ScanPrefix   *)
(* relies on it: all versions of a key are next to each other, oldest      *)
(* first.                                                                  *)
(***************************************************************************)
VersionsSortByKey ==
    RawKeys => \A v, w \in Versions :
        Less(encode(versionedKey(left.bytes, v)), encode(versionedKey(right.bytes, w))) <=>
            Less(left.bytes, right.bytes) \/ (left = right /\ v < w)

\* Get's range for a raw key and v holds the versions 0..v of that key and
\* nothing else; the range of write's conflict check holds the versions from
\* its first one to the highest.
KeyRangesAreExact(r) ==
    \A v \in Versions :
        /\ v < MaxVersion =>
            (InGetRange(encode(r), left.bytes, v) <=>
                r.kind = mvccKeyVersion /\ r.rawKey = left.bytes /\ r.version <= v)
        /\ InWriteRange(encode(r), left.bytes, v) <=>
                r.kind = mvccKeyVersion /\ r.rawKey = left.bytes /\ r.version >= v

\* ScanPrefix meets the versions of the keys that start with its prefix,
\* Begin meets the active markers, Commit and Rollback of v meet the write
\* records of v, and nothing else.
PrefixesAreExact(r) ==
    /\ InPrefix(encode(r), versionedKeyPrefix(left.bytes)) <=>
            r.kind = mvccKeyVersion /\ IsPrefix(left.bytes, r.rawKey)
    /\ InPrefix(encode(r), activeTransactionPrefix) <=> r.kind = mvccKeyTxnActive
    /\ \A v \in Versions :
        InPrefix(encode(r), transactionWritePrefix(v)) <=>
            r.kind = mvccKeyTxnWrite /\ r.version = v

(***************************************************************************)
(* Every scan of the MVCC layer, by range or by prefix, meets exactly the  *)
(* records it is meant for, whatever bytes are in the keys around them.    *)
(***************************************************************************)
ScansAreExact ==
    RawKeys => \A r \in Records(right.bytes) : KeyRangesAreExact(r) /\ PrefixesAreExact(r)

-----------------------------------------------------------------------------
(***************************************************************************)
(* Keys of tables and rows.                                                *)
(***************************************************************************)

(***************************************************************************)
(* Two rows share a key only when they are of one table and have the same  *)
(* primary key, and no row has the key of a table: CreateRow's look-up of  *)
(* the key is a test for duplicates.  ScanTable's prefix meets the rows of *)
(* its table and no others, also when one table's name starts with         *)
(* another's.                                                              *)
(***************************************************************************)
RowsAreKeptApart ==
    Rows => /\ KV!rowKey(left) = KV!rowKey(right) => left = right
            /\ KV!rowKey(left) # KV!tableKey(right.name)
            /\ InPrefix(KV!rowKey(right), KV!rowPrefixKey(left.name)) <=> right.name = left.name

\* The number that a bit pattern of a float stands for, up to a monotone map.
Magnitude(bits) == IF bits >= KV!Half THEN KV!Half - bits ELSE bits

(***************************************************************************)
(* "negative < 0 < positive" (kv.go:367): a scan returns the rows of a     *)
(* table in the order of their primary keys; the two zeros of a float, one *)
(* value to the comparisons, have different keys next to each other.       *)
(***************************************************************************)
KeysSortByValue ==
    IF Rows /\ left.name = right.name /\ left.key[1] = right.key[1]
    THEN LET a == left.key[2]
             b == right.key[2]
             precedes == Less(KV!rowKey(left), KV!rowKey(right))
         IN  CASE left.key[1] \in {"null", "boolean", "integer"} -> precedes <=> a < b
               [] left.key[1] = "float" ->
                     /\ Magnitude(a) < Magnitude(b) => precedes
                     /\ precedes => Magnitude(a) <= Magnitude(b)
               [] left.key[1] = "string" -> precedes <=> Less(a, b)
    ELSE TRUE

=============================================================================
