--------------------------- MODULE MCOutputStreams --------------------------
(***************************************************************************)
(* Instances of OutputStreams for TLC.                                     *)
(***************************************************************************)
EXTENDS OutputStreams

AllowsSome == 1 .. MaxStreams
AllowsAny == 0 .. MaxStreams
High == {1}
NoneOrAll == {0, MaxBytes + 1}
All == {MaxBytes + 1}
SomeOrAll == {1, MaxStreams * MaxBytes}
Total == {MaxStreams * MaxBytes}
=============================================================================
