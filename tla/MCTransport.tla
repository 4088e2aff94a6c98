---------------------------- MODULE MCTransport ----------------------------
(***************************************************************************)
(* Instances of MTransport for TLC: two or three entities named by model    *)
(* values and the inputs of their applications.                             *)
(***************************************************************************)
EXTENDS MTransport, TLC

CONSTANTS a, b, c

TwoEntities   == {a, b}
ThreeEntities == {a, b, c}
OnlyA         == {a}
AandB         == {a, b}
Nobody        == {}

\* Unreliable messages to a known address (they carry acknowledgements) and
\* to everybody (they can not).
ToEach     == Entity
ToEachAndAll == Entity \union {ALL}

JustApp    == {"app"}
JustBye    == {"bye"}

Symmetry == Permutations(Entity)
=============================================================================
