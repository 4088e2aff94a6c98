------------------------------ MODULE RPCEntity ------------------------------
(***************************************************************************)
(* Remote procedure calls (src/gmbus/rpcentity.c, src/gmbus/rpctypes.c) as  *)
(* the client's incoming message handler (src/gmbus/mclient.c) drives them: *)
(* an entity sends commands, executes those it has registered and matches   *)
(* the returns it receives to its outstanding calls.                        *)
(*                                                                          *)
(* The transport below is a set of messages: every message may arrive late, *)
(* in any order or never.  Whether it knows the destination of a unicast    *)
(* call is a free choice (the table of entities of MTransport).  Each RPC   *)
(* message has one command, so mbus_payload_index(.., 0) is that command.   *)
(***************************************************************************)
EXTENDS Integers, Sequences

CONSTANTS
    Entity,        \* the complete addresses
    ALL,           \* the empty destination of an anycast
    Command,       \* command names, none of which ends in ".return"
    Caller,        \* the entities whose application calls
    Server,        \* the entities whose application registers commands
    CallType,      \* a subset of {"UNICAST", "ANYCAST"}
    Result,        \* the statuses the registered functions return
    Duplicates,    \* may the network deliver a message twice?
    MaxCalls,      \* bound: calls of one run of an entity
    Restarting,    \* bound: the entities that may be restarted
    MaxRestart     \* bound: restarts of one of them

\* RPCStatus
RPCStatus == {"RPC_OK", "RPC_FAILED", "RPC_UNKNOWN"}

ASSUME RPCAssumption ==
    /\ ALL \notin Entity
    /\ Caller \subseteq Entity
    /\ Server \subseteq Entity
    /\ CallType \subseteq {"UNICAST", "ANYCAST"}
    /\ Result \subseteq RPCStatus
    /\ Duplicates \in BOOLEAN
    /\ MaxCalls \in Nat
    /\ Restarting \subseteq Entity
    /\ MaxRestart \in Nat

VARIABLES
    \* --- each process
    rpc_id,        \* the static __rpc_id
    commands,      \* RPCEntity.commands: the registered commands
    returns,       \* RPCEntity.returns: the ids that wait for a return
    epoch,         \* how often the process was restarted
    \* --- the network
    calls,         \* every command message sent
    answers,       \* every return message sent
    \* --- history variables, read by no guard but those of Duplicates
    handled,       \* <<run, message>>: processed by that run
    completed,     \* the invocations of return callbacks, in their order
    refused,       \* calls rpc_entity_send_command returned FALSE for
    wild           \* <<run, return>>: handled through an indeterminate pointer

processVars == <<rpc_id, commands, returns>>
vars == <<rpc_id, commands, returns, epoch, calls, answers, handled,
          completed, refused, wild>>

\* One run of the process of an entity, and a call it made.
Run  == Entity \X Nat
Call == Run \X Nat

Self(e) == <<e, epoch[e]>>

CallMessage == [call : Call, cmd : Command, dst : Entity \union {ALL}]

\* "call" is a history field: the header has the address of the caller and
\* the ID of the call, not the run.  The status a registered function gave to
\* rpc_return_new is another one.
ReturnMessage == [by : Run, call : Call, given : RPCStatus,
                  status : RPCStatus, app_status : RPCStatus,
                  app_result : {"OK", "FAILED"}]

\* What a return callback is invoked with, and for which call.
Completion == [call : Call, ret : ReturnMessage, status : RPCStatus]

TypeOK ==
    /\ rpc_id \in [Entity -> Nat]
    /\ commands \in [Entity -> SUBSET Command]
    /\ returns \in [Entity -> SUBSET Nat]
    /\ epoch \in [Entity -> Nat]
    /\ calls \subseteq CallMessage
    /\ answers \subseteq ReturnMessage
    /\ handled \subseteq Run \X (calls \union answers)
    /\ completed \in Seq(Completion)
    /\ refused \subseteq Call
    /\ wild \subseteq Run \X answers

Init ==
    /\ rpc_id = [e \in Entity |-> 0]
    /\ commands = [e \in Entity |-> {}]
    /\ returns = [e \in Entity |-> {}]
    /\ epoch = [e \in Entity |-> 0]
    /\ calls = {}
    /\ answers = {}
    /\ handled = {}
    /\ completed = <<>>
    /\ refused = {}
    /\ wild = {}

-----------------------------------------------------------------------------
\* rpc_entity_register
Register(e, cmd) ==
    /\ e \in Server
    /\ cmd \notin commands[e]
    /\ commands' = [commands EXCEPT ![e] = @ \union {cmd}]
    /\ UNCHANGED <<rpc_id, returns, epoch, calls, answers, handled, completed,
                   refused, wild>>

\* Mutant: every command takes the same number.
NextIdMutant(e) == UNCHANGED rpc_id

\* rpc_command_new: __rpc_id++
NextId(e) == rpc_id' = [rpc_id EXCEPT ![e] = @ + 1]

\* rpc_command_new and rpc_entity_send_command.  The callback is recorded
\* before the message is sent.  A unicast call to an entity the transport does
\* not know is refused by mbus_client_send_reliable; the record stays.
SendCommand(e, cmd, type, dst) ==
    LET call == <<Self(e), rpc_id[e]>> IN
    /\ e \in Caller
    /\ rpc_id[e] < MaxCalls
    /\ type = "UNICAST" <=> dst \in Entity
    /\ NextId(e)
    /\ returns' = [returns EXCEPT ![e] = @ \union {rpc_id[e]}]
    /\ \/ /\ calls' = calls \union {[call |-> call, cmd |-> cmd, dst |-> dst]}
          /\ UNCHANGED refused
       \/ /\ type = "UNICAST"
          /\ refused' = refused \union {call}
          /\ UNCHANGED calls
    /\ UNCHANGED <<commands, epoch, answers, handled, completed, wild>>

-----------------------------------------------------------------------------
\* The message reaches e; the transport drops those of e itself and those for
\* other entities, and does not recognise duplicates.
Arrives(e, m, source, dst) ==
    /\ source # e
    /\ dst \in {e, ALL}
    /\ Duplicates \/ <<Self(e), m>> \notin handled
    /\ handled' = handled \union {<<Self(e), m>>}

\* Mutants: the symbol is chosen the wrong way round; it is the enumeration
\* value itself.
AppResultMutant(status) == IF status = "RPC_OK" THEN "FAILED" ELSE "OK"
AppResultRawMutant(status) == status

\* rpc_return_new leaves app_result NULL: the symbol that is sent in its place
\* follows from the status.
AppResult(status) == IF status = "RPC_OK" THEN "OK" ELSE "FAILED"

\* Mutant: the return quotes an id of the server's own.
AnsweredIdMutant(e, m) == <<m.call[1], rpc_id[e]>>

\* rpc_command_new_from_command, rpc_return_new: the ID of the command.
AnsweredId(e, m) == m.call

\* rpc_return_new(command, given) and what rpc_entity_send_return makes of it:
\* the status argument becomes the RPC status, the application status is
\* always RPC_OK.
Return(e, m, given) ==
    [by |-> Self(e), call |-> AnsweredId(e, m), given |-> given,
     status |-> given, app_status |-> "RPC_OK",
     app_result |-> AppResult(given)]

\* __rpc_entity_incoming_message for a command: execute it and send the return
\* to its source, or pass it to unknown_message if it is not registered.
IncomingCommand(e, m) ==
    /\ Arrives(e, m, m.call[1][1], m.dst)
    /\ IF m.cmd \in commands[e]
         THEN \E given \in Result : answers' = answers \union {Return(e, m, given)}
         ELSE UNCHANGED answers
    /\ UNCHANGED <<rpc_id, commands, returns, epoch, calls, completed, refused,
                   wild>>

\* rpc_return_new_from_command: the branch that reads the status is taken for
\* every key but RPC-STATUS, and ID is tested before; the initial value stays.
StatusRead(m) == "RPC_OK"

\* Mutant: the record is not removed.
ForgottenMutant(e, id) == returns
Forgotten(e, id) == [returns EXCEPT ![e] = @ \ {id}]

\* __rpc_entity_incoming_message for a return.  The id alone finds the record.
\* If there is none, "callback" keeps whatever value was on the stack:
\* unknown_message is called if that is NULL, else the function it points to.
IncomingReturn(e, m) ==
    LET id == m.call[2] IN
    /\ Arrives(e, m, m.by[1], m.call[1][1])
    /\ \/ /\ id \in returns[e]
          /\ returns' = Forgotten(e, id)
          /\ completed' = Append(completed,
               [call |-> <<Self(e), id>>, ret |-> m, status |-> StatusRead(m)])
          /\ UNCHANGED wild
       \/ /\ id \notin returns[e]
          /\ wild' \in {wild, wild \union {<<Self(e), m>>}}
          /\ UNCHANGED <<returns, completed>>
    /\ UNCHANGED <<rpc_id, commands, epoch, calls, answers, refused>>

\* The process ends and starts again: __rpc_id is 0, the tables are empty.
Restart(e) ==
    /\ e \in Restarting
    /\ epoch[e] < MaxRestart
    /\ epoch' = [epoch EXCEPT ![e] = @ + 1]
    /\ rpc_id' = [rpc_id EXCEPT ![e] = 0]
    /\ commands' = [commands EXCEPT ![e] = {}]
    /\ returns' = [returns EXCEPT ![e] = {}]
    /\ UNCHANGED <<calls, answers, handled, completed, refused, wild>>

Next ==
    \E e \in Entity :
        \/ \E cmd \in Command : Register(e, cmd)
        \/ \E cmd \in Command, type \in CallType, dst \in Entity \union {ALL} :
              SendCommand(e, cmd, type, dst)
        \/ \E m \in calls : IncomingCommand(e, m)
        \/ \E m \in answers : IncomingReturn(e, m)
        \/ Restart(e)

Spec == Init /\ [][Next]_vars

(***************************************************************************)
(* Fairness: the network drops nothing and the main loop of the receiver    *)
(* takes every message out of its socket.                                   *)
(***************************************************************************)
Fairness ==
    /\ \A e \in Entity, id \in 0 .. MaxCalls - 1 :
         \A c \in Entity :
            /\ WF_vars(\E m \in calls : /\ m.call[1][1] = c
                                       /\ m.call[2] = id
                                       /\ IncomingCommand(e, m))
            /\ WF_vars(\E m \in answers : /\ m.by[1] = c
                                         /\ m.call[2] = id
                                         /\ IncomingReturn(e, m))

FairSpec == Spec /\ Fairness

-----------------------------------------------------------------------------
(***************************************************************************)
(* Properties                                                               *)
(***************************************************************************)

\* rpctypes.h:58: "The unique RPC id".  A return callback is only invoked
\* with a return of the very call it was given with: one that was sent, by
\* this run of the caller, and that an entity it was addressed to executed.
AnswersOwnCall ==
    \A i \in DOMAIN completed :
        LET run == completed[i] IN
        /\ run.ret.call = run.call
        /\ \E m \in calls : m.call = run.call /\ m.dst \in {run.ret.by[1], ALL}

\* However many servers answer an anycast, and however often the network
\* repeats a command or a return, the record of a call has its callback invoked
\* once: a second invocation, be it with the same return, is another element of
\* "completed".  (What an indeterminate pointer invokes is in "wild".)
AnsweredOnce ==
    \A i, j \in DOMAIN completed : completed[i].call = completed[j].call => i = j

\* A call of the present run waits for its return or has got one, not both;
\* nothing else is in the table.  (A refused call waits for ever.)
OutstandingOrAnswered ==
    \A e \in Entity : \A id \in 0 .. MaxCalls - 1 :
        LET answered == \E i \in DOMAIN completed :
                            completed[i].call = <<Self(e), id>> IN
        IF id < rpc_id[e] THEN (id \in returns[e]) = ~answered
                          ELSE id \notin returns[e] /\ ~answered

\* rpcentity.h:54: "A callback function invoked for unknown messages".  A
\* return without a record goes there and to no other function.
UnmatchedIsUnknown == wild = {}

\* A call that was sent to an entity that has registered the command is
\* answered, on a network that drops nothing.
CallsComplete ==
    \A e, d \in Entity, id \in 0 .. MaxCalls - 1 :
        (\E m \in calls : /\ m.call = <<Self(e), id>>
                          /\ m.dst = d
                          /\ d # e
                          /\ m.cmd \in commands[d]
                          /\ <<Self(d), m>> \notin handled)
            ~> (\E i \in DOMAIN completed : /\ completed[i].call[1][1] = e
                                            /\ completed[i].call[2] = id)

-----------------------------------------------------------------------------
\* How an execution ended.
OutcomeOf(m) == IF m.given = "RPC_OK" THEN "OK" ELSE "FAILED"

\* What the caller of a remote procedure may rely on, see RPCService: the
\* outcome a caller sees is the application result of the return.
Service == INSTANCE RPCService WITH
              Call     <- (Entity \X (0 .. MaxRestart)) \X (0 .. MaxCalls - 1),
              Server   <- Entity,
              Outcome  <- {"OK", "FAILED"},
              issued   <- {m.call : m \in calls},
              executed <- {<<m.call, m.by[1], OutcomeOf(m)>> : m \in answers},
              answer   <- [i \in DOMAIN completed |->
                             <<completed[i].call, completed[i].ret.app_result>>]

\* Each call is executed only after it was issued, and its callback is told,
\* once, the outcome of an execution of this call.
ImplementsRPCService == Service!Spec
=============================================================================
