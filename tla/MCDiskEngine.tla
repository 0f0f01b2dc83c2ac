---------------------------- MODULE MCDiskEngine ----------------------------
(* Byte strings for model checking the disk engine. *)
EXTENDS DiskEngine, TLC

OneKey == {<<1>>}
TwoKeys == {<<1>>, <<1, 0>>}

\* An empty value, a short one, and one that does not fit in a length field.
Values == {<<>>, <<3>>, <<1, 1, 1, 1>>}
TwoValues == {<<>>, <<3>>}
OneValue == {<<3>>}

NoRanges == {}

\* Processes are interchangeable.
ProcSymmetry == Permutations(Proc)

\* No bounds, one bound, both, and a backward range.
SomeRanges ==
    {<<Nil, Nil>>, <<<<1, 0>>, Nil>>, <<Nil, <<1, 0>>>>, <<<<0>>, <<1>>>>, <<<<2>>, <<1>>>>}
=============================================================================
