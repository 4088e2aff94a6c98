------------------------------ MODULE MCClient ------------------------------
(* Instances of MClient for TLC. *)
EXTENDS MClient, TLC

CONSTANTS e1, e2, c1, c2

TwoEntities == {e1, e2}
TwoCommands == {c1, c2}
Symmetry    == Permutations(TwoEntities)

\* A hello, a bye, and a message with two commands.
Payloads  == {<<HELLO>>, <<BYE>>, <<c1, c2>>}
HelloOnly == {<<HELLO>>}

\* The callbacks in which the main loop may be run.
Handlers == {"command", "unknown", "new"}
Nowhere  == {}

AllOrNone == {Event, {}}
All       == {Event}
ErrorOnly == {"error"}
None      == {}

=============================================================================
