------------------------------ MODULE MCHello ------------------------------
(***************************************************************************)
(* Instances of MHello for TLC: s announces itself, w keeps a table.        *)
(***************************************************************************)
EXTENDS MHello

CONSTANTS s, w

Pair       == {s, w}
OnlyS      == {s}
OnlyW      == {w}
FewOrMany  == {0, 7}
=============================================================================
