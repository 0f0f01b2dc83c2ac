----------------------------- MODULE MCEncodings -----------------------------
(* Bytes of three bits, numbers and versions of two bytes. *)
EXTENDS Encodings

ShortNamespace == <<0, 1, 0>>

\* The escaped byte, the byte that escapes it, and one next to each.
RawBytes == {0, 1, 6, 7}

\* Both ends, and both sides of a carry into the first byte.
SomeVersions == {0, 1, 7, 8, 62, 63}

\* Names that are prefixes of each other.
Names == {<<5>>, <<5, 5>>, <<7>>}
SomeTexts == {<<>>, <<0>>, <<5>>, <<5, 0>>, <<7, 7>>}
=============================================================================
