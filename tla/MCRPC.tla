------------------------------- MODULE MCRPC -------------------------------
(***************************************************************************)
(* Instances of RPCEntity for TLC: a caller and two servers.                *)
(***************************************************************************)
EXTENDS RPCEntity

CONSTANTS a, b, c, sum

ThreeEntities == {a, b, c}
OnlyA         == {a}
BandC         == {b, c}
AandB         == {a, b}
Nobody        == {}
OneCommand    == {sum}
Anycast       == {"ANYCAST"}
AnyType       == {"UNICAST", "ANYCAST"}
GoodOrBad     == {"RPC_OK", "RPC_FAILED"}
JustBad       == {"RPC_FAILED"}
=============================================================================
