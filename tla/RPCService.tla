----------------------------- MODULE RPCService -----------------------------
(***************************************************************************)
(* What rpc_entity_send_command promises: a call that is issued may be      *)
(* executed, by one server or, as an anycast, by several, and its caller is *)
(* told the outcome of one of these executions, once.  "answer" has the     *)
(* answers in the order in which the callers were told.                     *)
(***************************************************************************)
EXTENDS Sequences

CONSTANTS Call, Server, Outcome

VARIABLES issued, executed, answer

vars == <<issued, executed, answer>>

Init == issued = {} /\ executed = {} /\ answer = <<>>

Issue(c) ==
    /\ c \notin issued
    /\ issued' = issued \union {c}
    /\ UNCHANGED <<executed, answer>>

\* A server executes the command.
Execute(c, s, o) ==
    /\ c \in issued
    /\ executed' = executed \union {<<c, s, o>>}
    /\ UNCHANGED <<issued, answer>>

\* The return callback of the call is invoked.
Answer(c, o) ==
    /\ \E s \in Server : <<c, s, o>> \in executed
    /\ \A i \in DOMAIN answer : answer[i][1] # c
    /\ answer' = Append(answer, <<c, o>>)
    /\ UNCHANGED <<issued, executed>>

Next ==
    \E c \in Call :
        \/ Issue(c)
        \/ \E s \in Server, o \in Outcome : Execute(c, s, o)
        \/ \E o \in Outcome : Answer(c, o)

Spec == Init /\ [][Next]_vars
=============================================================================
