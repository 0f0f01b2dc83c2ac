-------------------------------- MODULE RowKey --------------------------------
(***************************************************************************)
(* The bytes of table and row keys: tableKey, rowPrefixKey, rowKey and     *)
(* encodePrimaryKey of engine/kv.go.  Module Session takes keys for pairs  *)
(* of a name and a value; module Encodings checks that their bytes allow   *)
(* it.                                                                     *)
(*                                                                         *)
(* A primary key is its kind and a value.  An integer is in two's          *)
(* complement; a float is its bit pattern, sign and magnitude.             *)
(***************************************************************************)
EXTENDS Bytes

CONSTANTS
    MaxByte,    \* 0xff
    WordBytes   \* how many bytes a number takes: 8 in the code

\* The sign bit.
Half == Power(MaxByte + 1, WordBytes) \div 2

keyNamespaceTable == 1
keyNamespaceRow == 2
keySeparator == 0

\* primaryKeyNull, primaryKeyBoolean, ...
typeTag(kind) ==
    CASE kind = "null" -> 0 [] kind = "boolean" -> 1 [] kind = "integer" -> 2
      [] kind = "float" -> 3 [] kind = "string" -> 4

\* Mutant: the sign bit is left as it is.
orderedInteger_unflipped(n) == n % (2 * Half)

\* uint64(n) with the sign bit flipped
orderedInteger(n) == ((n % (2 * Half)) + Half) % (2 * Half)

\* All bits flipped when the sign bit is set, else only the sign bit.
orderedFloat(bits) == IF bits >= Half THEN 2 * Half - 1 - bits ELSE bits + Half

encodePrimaryKey(value) ==
    <<typeTag(value[1])>> \o
        CASE value[1] = "null" -> <<>>
          [] value[1] = "boolean" -> <<value[2]>>
          [] value[1] = "integer" -> BigEndian(orderedInteger(value[2]), WordBytes, MaxByte)
          [] value[1] = "float" -> BigEndian(orderedFloat(value[2]), WordBytes, MaxByte)
          [] value[1] = "string" -> value[2]

tableKey(name) == <<keyNamespaceTable>> \o name

\* Mutant: nothing ends the table's name.
rowPrefixKey_open(name) == <<keyNamespaceRow>> \o name

rowPrefixKey(name) == <<keyNamespaceRow>> \o name \o <<keySeparator>>

rowKey(row) == rowPrefixKey(row.name) \o encodePrimaryKey(row.key)

=============================================================================
