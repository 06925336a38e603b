------------------------------ MODULE MCOutput ------------------------------
(***************************************************************************)
(* A proxy that writes whole lines, parts of lines, several lines at once  *)
(* and messages of its init.                                               *)
(***************************************************************************)
EXTENDS Output

Seg(len)     == [len |-> len, init |-> FALSE]
InitSeg(len) == [len |-> len, init |-> TRUE]

SomeChunks == {
    << Seg(1), Seg(0) >>,
    << Seg(2) >>,
    << Seg(0), Seg(1), Seg(1) >>,
    << InitSeg(2), Seg(0) >>,
    << InitSeg(1) >> }
=============================================================================
