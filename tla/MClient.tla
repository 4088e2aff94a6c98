------------------------------- MODULE MClient -------------------------------
(***************************************************************************)
(* One process that uses the library: its client (src/gmbus/mclient.c), the *)
(* transport below it (src/gmbus/mtrans.c) and the application, on one GLib *)
(* main loop.  MTransport models what the processes of a session do to each *)
(* other and takes every handler as one step.  This module looks inside the *)
(* handlers, at the callbacks they make: there the application may register *)
(* commands, subscribe to events, send, and run the main loop again, as a   *)
(* modal dialog does, so that another handler starts while the first is     *)
(* suspended.                                                               *)
(*                                                                          *)
(* The stack has one frame for each handler that is suspended in a callback *)
(* of the application.  Between two callbacks a handler runs undisturbed,   *)
(* so a step goes from one callback to the next.  GLib does not start a     *)
(* source whose own handler is still running.                               *)
(*                                                                          *)
(* Memory is modelled by what is still in use: a handler that reads an      *)
(* object that was freed, or the entry of an entity that is not there, adds *)
(* to "dangling", and nothing is said about what the process does then.     *)
(***************************************************************************)
EXTENDS Integers, Sequences

CONSTANTS
    Entity,          \* the other entities of the session
    Command,         \* the names of commands the application knows
    HELLO, BYE,      \* MBUS_HELLO, MBUS_BYE
    Payload,         \* the sequences of commands that messages contain
    Nest,            \* the callbacks in which the application runs the main loop
    Initially,       \* what it may subscribe to at the start: sets of events
    Changing,        \* the events it subscribes to and unsubscribes from later
    LongCallbacks,   \* may one take longer than an entity needs to be lost?
    MaxRegister,     \* bound: registrations
    MaxSend,         \* bound: reliable messages
    MaxDepth         \* bound: nested main loops

\* MEventType.  "command" is the callback of a registered command.
Event == {"unknown", "new", "lost", "error"}
Callback == Event \union {"command"}

\* mtrans.c: const gdouble N_r = 3.
N_r == 3

Name == Command \union {HELLO, BYE}

ASSUME ClientAssumption ==
    /\ {HELLO, BYE} \cap Command = {}
    /\ HELLO # BYE
    /\ Payload \subseteq Seq(Name)
    /\ Nest \subseteq Callback
    /\ Initially \subseteq SUBSET Event
    /\ Changing \subseteq Event
    /\ LongCallbacks \in BOOLEAN
    /\ MaxRegister \in Nat
    /\ MaxSend \in Nat
    /\ MaxDepth \in Nat

\* The two sources of the link, __mbus_link_udp_event is the handler of both.
Socket == {"multicast", "unicast"}

\* A handler in one of the callbacks of a message, in the callback for a lost
\* entity, in the callback for a message that was not acknowledged.
MessageFrame == [in : {"new", "command", "unknown"}, socket : Socket,
                 from : Entity, cmds : Seq(Name), i : Nat]
LostFrame    == [in : {"lost"}, from : Entity, left : SUBSET Entity]
ErrorFrame   == [in : {"error"}, seq : Nat]
Frame        == MessageFrame \union LostFrame \union ErrorFrame

VARIABLES
    \* --- struct MClient
    callbacks,          \* the list of MCommandCallback, some may be freed
    subscribed,         \* the events with a callback function
    \* --- struct MTransport
    alive,              \* not freed
    entities,           \* the keys of the table of entities
    reliable_messages,  \* number and count of periods of each entry
    acknowledgements,   \* the sources with an entry
    sent,               \* reliable messages sent: the next of their numbers
    \* --- the GLib main loop
    t_r,                \* numbers with an armed retransmission timer
    t_c,                \* sources with an armed acknowledgement timer
    stack,              \* the suspended handlers
    \* --- history variables; once something dangles the model stops
    dangling,           \* kinds of objects used after their end
    present,            \* entities the application was told of
    served,             \* <<command, registration>> of each invocation
    acked, failed       \* numbers acknowledged, and reported as failed

tableVars   == <<alive, entities, reliable_messages, acknowledgements, sent>>
timerVars   == <<t_r, t_c>>
historyVars == <<present, served, acked, failed>>
vars == <<callbacks, subscribed, alive, entities, reliable_messages,
          acknowledgements, sent, t_r, t_c, stack, dangling, present, served,
          acked, failed>>

Kind == {"registration", "message", "acknowledgement", "entity", "table",
         "transport"}

TypeOK ==
    /\ callbacks \in Seq([cmd : Command, id : Nat, live : BOOLEAN])
    /\ subscribed \subseteq Event
    /\ alive \in BOOLEAN
    /\ entities \subseteq Entity
    /\ reliable_messages \subseteq [seq : Nat, n : 1 .. N_r - 1]
    /\ acknowledgements \subseteq Entity
    /\ sent \in Nat
    /\ t_r \subseteq Nat
    /\ t_c \subseteq Entity
    /\ stack \in Seq(Frame)
    /\ dangling \subseteq Kind
    /\ present \subseteq Entity
    /\ served \subseteq Command \X Nat
    /\ acked \subseteq Nat
    /\ failed \subseteq Nat

\* mbus_client_new; the application then subscribes to some events.
Init ==
    /\ callbacks = <<>>
    /\ subscribed \in Initially
    /\ alive = TRUE
    /\ entities = {}
    /\ reliable_messages = {}
    /\ acknowledgements = {}
    /\ sent = 0
    /\ t_r = {}
    /\ t_c = {}
    /\ stack = <<>>
    /\ dangling = {}
    /\ present = {}
    /\ served = {}
    /\ acked = {}
    /\ failed = {}

-----------------------------------------------------------------------------
(***************************************************************************)
(* The main loop                                                            *)
(***************************************************************************)
Top   == stack[Len(stack)]
Below == SubSeq(stack, 1, Len(stack) - 1)

\* The main loop runs at the bottom of the stack and wherever the callback on
\* top runs it again.
MainLoop == \/ stack = <<>>
            \/ stack # <<>> /\ Len(stack) < MaxDepth /\ Top.in \in Nest

\* Is the handler of this socket, or of the lost timer, suspended?
Busy(socket) == \E k \in DOMAIN stack :
    stack[k].in \in {"new", "command", "unknown"} /\ stack[k].socket = socket
LostRunning == \E k \in DOMAIN stack : stack[k].in = "lost"

Outstanding == {r.seq : r \in reliable_messages}

-----------------------------------------------------------------------------
(***************************************************************************)
(* What the application calls, from a callback or from its own handlers     *)
(***************************************************************************)

\* Mutant: g_slist_prepend.
AddCallbackMutant(cb) == <<cb>> \o callbacks

\* g_slist_append( self->callbacks, cb )
AddCallback(cb) == Append(callbacks, cb)

\* mbus_client_register
Register(cmd) ==
    /\ alive
    /\ Len(callbacks) < MaxRegister
    /\ callbacks' = AddCallback([cmd |-> cmd, id |-> Len(callbacks), live |-> TRUE])
    /\ UNCHANGED <<subscribed, tableVars, timerVars, stack, dangling, historyVars>>

\* The walk along the list: the entries whose command it compares, up to the
\* first that matches.  What a freed entry compares as is unknown; that it is
\* read at all is an error of its own.
Matches(cmd) == {k \in DOMAIN callbacks : callbacks[k].live /\ callbacks[k].cmd = cmd}
ReadsFreed(cmd) == \E k \in DOMAIN callbacks :
    ~callbacks[k].live /\ \A m \in Matches(cmd) : k < m
First(S) == {k \in S : \A m \in S : k <= m}

\* mbus_client_unregister: the entry is freed; g_slist_remove is given the list
\* element where it expects the entry, so the element stays.
Unregister(cmd) ==
    /\ alive
    /\ Matches(cmd) # {} \/ ReadsFreed(cmd)
    /\ callbacks' = [k \in DOMAIN callbacks |->
                       [callbacks[k] EXCEPT !.live = @ /\ k \notin First(Matches(cmd))]]
    /\ dangling' = {x \in {"registration"} : ReadsFreed(cmd)}
    /\ UNCHANGED <<subscribed, tableVars, timerVars, stack, historyVars>>

\* mbus_client_subscribe
Subscribe(event) ==
    /\ alive
    /\ event \in Changing \ subscribed
    /\ subscribed' = subscribed \union {event}
    /\ UNCHANGED <<callbacks, tableVars, timerVars, stack, dangling, historyVars>>

\* mbus_client_unsubscribe
Unsubscribe(event) ==
    /\ alive
    /\ event \in Changing \cap subscribed
    /\ subscribed' = subscribed \ {event}
    /\ UNCHANGED <<callbacks, tableVars, timerVars, stack, dangling, historyVars>>

\* Mutant: g_source_remove( ack->timer ) forgotten.
TakeAcksMutant(e) ==
    /\ acknowledgements' = acknowledgements \ {e}
    /\ UNCHANGED t_c

\* mbus_transport_send takes the pending acknowledgements along: it stops the
\* timer and frees the entry.
TakeAcks(e) ==
    /\ acknowledgements' = acknowledgements \ {e}
    /\ t_c' = t_c \ {e}

\* mbus_client_send
Send(e) ==
    /\ alive
    /\ e \in acknowledgements
    /\ TakeAcks(e)
    /\ UNCHANGED <<callbacks, subscribed, alive, entities, reliable_messages, sent,
                   t_r, stack, dangling, historyVars>>

\* mbus_client_send_reliable
SendReliable(e) ==
    /\ alive
    /\ e \in entities
    /\ sent < MaxSend
    /\ sent' = sent + 1
    /\ reliable_messages' = reliable_messages \union {[seq |-> sent, n |-> 1]}
    /\ t_r' = t_r \union {sent}
    /\ TakeAcks(e)
    /\ UNCHANGED <<callbacks, subscribed, alive, entities, stack, dangling,
                   historyVars>>

\* mbus_client_free, from no handler of the library: the link goes with its
\* sources, the hello timer and the lost timer are removed.  The entries of the
\* other two tables and their timers stay.
Free ==
    /\ alive
    /\ stack = <<>>
    /\ alive' = FALSE
    /\ entities' = {}
    /\ UNCHANGED <<callbacks, subscribed, reliable_messages, acknowledgements, sent,
                   timerVars, stack, dangling, historyVars>>

-----------------------------------------------------------------------------
(***************************************************************************)
(* A message arrives                                                        *)
(***************************************************************************)

\* The commands of the frame, from the i-th on, for which there is a callback.
Targets(f, i) == {j \in i .. Len(f.cmds) :
    Matches(f.cmds[j]) # {} \/ "unknown" \in subscribed}

\* The commands number i to j are compared with the registered ones.
Walk(f, i, j) ==
    dangling' = {x \in {"registration"} : \E m \in i .. j : ReadsFreed(f.cmds[m])}

\* __mbus_client_incoming_message, from the i-th command to the next callback
\* or to its end.
Dispatch(below, f, i) ==
    \/ /\ Targets(f, i) = {}
       /\ Walk(f, i, Len(f.cmds))
       /\ stack' = below
       /\ UNCHANGED served
    \/ \E j \in First(Targets(f, i)) :
       /\ Walk(f, i, j)
       /\ \/ /\ Matches(f.cmds[j]) = {}
             /\ stack' = Append(below, [f EXCEPT !.in = "unknown", !.i = j])
             /\ UNCHANGED served
          \/ \E k \in First(Matches(f.cmds[j])) :
             /\ stack' = Append(below, [f EXCEPT !.in = "command", !.i = j])
             /\ served' = served \union {<<f.cmds[j], callbacks[k].id>>}

\* mbus_message_contains looks at the first command only.
Contains(f, name) == f.cmds # <<>> /\ f.cmds[1] = name

\* __mbus_transport_handle_message, after the check for a new entity.
\* __mbus_transport_recv_hello sets a field of the entry of the sender without
\* asking whether there is one.
Proceed(below, f, known) ==
    \/ /\ Contains(f, HELLO)
       /\ dangling' = {x \in {"entity"} : f.from \notin known}
       /\ stack' = below
       /\ UNCHANGED served
    \/ /\ Contains(f, BYE)
       /\ stack' = below
       /\ UNCHANGED <<dangling, served>>
    \/ /\ ~Contains(f, HELLO)
       /\ ~Contains(f, BYE)
       /\ Dispatch(below, f, 1)

\* Mutant: g_source_remove( rmsg->timer ) forgotten.
SettleMutant(numbers) ==
    /\ reliable_messages' = {r \in reliable_messages : r.seq \notin numbers}
    /\ acked' = acked \union (numbers \cap Outstanding)
    /\ UNCHANGED t_r

\* __mbus_transport_check_for_acks: the timer is stopped, the entry freed.
Settle(numbers) ==
    /\ reliable_messages' = {r \in reliable_messages : r.seq \notin numbers}
    /\ acked' = acked \union (numbers \cap Outstanding)
    /\ t_r' = t_r \ (numbers \cap Outstanding)

\* __mbus_transport_when_link_message for a reliable message.
QueueAck(e) ==
    /\ acknowledgements' = acknowledgements \union {e}
    /\ t_c' = t_c \union {e}

\* Mutant: the application is told before the entity is in the table.
AddEntityMutant(e, f) ==
    /\ UNCHANGED <<entities, dangling>>
    /\ present' = present \union {e}
    /\ stack' = Append(stack, f)
    /\ UNCHANGED served

\* __mbus_transport_check_for_new_entity: the entity is added, then the
\* application told.  GLib forbids to add to a table while a handler walks
\* through it.
AddEntity(e, f) ==
    /\ entities' = entities \union {e}
    /\ IF LostRunning
       THEN /\ dangling' = {"table"}
            /\ UNCHANGED <<present, stack, served>>
       ELSE \/ /\ "new" \in subscribed
               /\ present' = present \union {e}
               /\ stack' = Append(stack, f)
               /\ UNCHANGED <<dangling, served>>
            \/ /\ "new" \notin subscribed
               /\ UNCHANGED present
               /\ Proceed(stack, f, entities')

\* __mbus_link_udp_event with a message of e that acknowledges the numbers.
WhenMessage(socket, e, reliable, numbers, cmds) ==
    LET f == [in |-> "new", socket |-> socket, from |-> e, cmds |-> cmds, i |-> 0] IN
    /\ alive
    /\ MainLoop
    /\ ~Busy(socket)
    /\ IF reliable THEN QueueAck(e) ELSE UNCHANGED <<acknowledgements, t_c>>
    /\ Settle(numbers)
    /\ \/ /\ e \in entities
          /\ UNCHANGED <<entities, present>>
          /\ Proceed(stack, f, entities)
       \/ /\ e \notin entities
          /\ AddEntity(e, f)
    /\ UNCHANGED <<callbacks, subscribed, alive, sent, failed>>

\* The new_entity callback returns.
NewReturns ==
    /\ stack # <<>>
    /\ Top.in = "new"
    /\ Proceed(Below, Top, entities)
    /\ UNCHANGED <<callbacks, subscribed, tableVars, timerVars, present, acked,
                   failed>>

\* The callback of a command or unknown_message returns.
CommandReturns ==
    /\ stack # <<>>
    /\ Top.in \in {"command", "unknown"}
    /\ Dispatch(Below, Top, Top.i + 1)
    /\ UNCHANGED <<callbacks, subscribed, tableVars, timerVars, present, acked,
                   failed>>

-----------------------------------------------------------------------------
(***************************************************************************)
(* The timers                                                               *)
(***************************************************************************)

\* The entities whose last hello is as recent as the message in a suspended
\* new_entity callback: they are not dead unless that takes very long.
Recent == IF LongCallbacks THEN {}
          ELSE {e \in Entity : \E k \in DOMAIN stack :
                                 stack[k].in = "new" /\ stack[k].from = e}

\* __find_dead_entities: tells of an entity that is dead.
TellLost(below, left, known) ==
    \E e \in (left \cap known) \ Recent :
        /\ stack' = Append(below, [in |-> "lost", from |-> e, left |-> left \ {e}])
        /\ present' = present \ {e}

\* __mbus_transport_check_lost_entities.  The callback function is read at the
\* start of the pass.
CheckLostEntities ==
    /\ alive
    /\ MainLoop
    /\ ~LostRunning
    /\ \/ /\ "lost" \in subscribed
          /\ TellLost(stack, entities, entities)
          /\ UNCHANGED entities
       \/ /\ "lost" \notin subscribed
          /\ \E dead \in SUBSET (entities \ Recent) :
                dead # {} /\ entities' = entities \ dead
          /\ UNCHANGED <<stack, present>>
    /\ UNCHANGED <<callbacks, subscribed, alive, reliable_messages, acknowledgements,
                   sent, timerVars, dangling, served, acked, failed>>

\* The lost_entity callback returns: the entry is removed, the pass goes on.
LostReturns ==
    /\ stack # <<>>
    /\ Top.in = "lost"
    /\ entities' = entities \ {Top.from}
    /\ \/ TellLost(Below, Top.left, entities)
       \/ /\ stack' = Below
          /\ UNCHANGED present
    /\ UNCHANGED <<callbacks, subscribed, alive, reliable_messages, acknowledgements,
                   sent, timerVars, dangling, served, acked, failed>>

\* Mutant: the periods are counted after the comparison.
LastPeriodMutant(r) == r.n >= N_r

\* if( message->n < N_r ) fails, once this period is counted.
LastPeriod(r) == r.n + 1 >= N_r

\* __retransmit_reliable.  The timer that fires is no longer armed; it is armed
\* again for the next period.  After the last one the application is told, and
\* only then is the entry removed.
Retransmit(s) ==
    LET entry == {r \in reliable_messages : r.seq = s}
        final == \E r \in entry : LastPeriod(r)
    IN
    /\ MainLoop
    /\ s \in t_r
    /\ dangling' = {x \in {"message"} : entry = {}}
                     \union {x \in {"transport"} : final /\ ~alive}
    /\ \/ /\ ~final
          /\ reliable_messages' = (reliable_messages \ entry)
                 \union {[seq |-> s, n |-> r.n + 1] : r \in entry}
          /\ UNCHANGED <<t_r, stack, failed>>
       \/ /\ final
          /\ "error" \in subscribed
          /\ t_r' = t_r \ {s}
          /\ stack' = Append(stack, [in |-> "error", seq |-> s])
          /\ failed' = failed \union {s}
          /\ UNCHANGED reliable_messages
       \/ /\ final
          /\ "error" \notin subscribed
          /\ t_r' = t_r \ {s}
          /\ reliable_messages' = reliable_messages \ entry
          /\ UNCHANGED <<stack, failed>>
    /\ UNCHANGED <<callbacks, subscribed, alive, entities, acknowledgements, sent,
                   t_c, present, served, acked>>

\* Mutant: the entry is not removed.
RemoveFailedMutant(s) == UNCHANGED reliable_messages

\* The end of __retransmit_reliable: the entry leaves the table.
RemoveFailed(s) ==
    reliable_messages' = {r \in reliable_messages : r.seq # s}

\* The transport_error callback returns.  The number is read from the message
\* before the table is asked whether it is still there.
ErrorReturns ==
    /\ stack # <<>>
    /\ Top.in = "error"
    /\ dangling' = {x \in {"message"} : Top.seq \notin Outstanding}
    /\ RemoveFailed(Top.seq)
    /\ stack' = Below
    /\ UNCHANGED <<callbacks, subscribed, alive, entities, acknowledgements, sent,
                   timerVars, historyVars>>

\* __mbus_transport_send_acks
SendAcks(e) ==
    /\ MainLoop
    /\ e \in t_c
    /\ dangling' = {x \in {"acknowledgement"} : e \notin acknowledgements}
                     \union {x \in {"transport"} : ~alive}
    /\ acknowledgements' = acknowledgements \ {e}
    /\ t_c' = t_c \ {e}
    /\ UNCHANGED <<callbacks, subscribed, alive, entities, reliable_messages, sent,
                   t_r, stack, historyVars>>

-----------------------------------------------------------------------------
Application ==
    \/ \E cmd \in Command : Register(cmd) \/ Unregister(cmd)
    \/ \E event \in Event : Subscribe(event) \/ Unsubscribe(event)
    \/ \E e \in Entity : Send(e) \/ SendReliable(e)
    \/ Free

Message ==
    \E socket \in Socket, e \in Entity, reliable \in BOOLEAN, cmds \in Payload :
    \E numbers \in {{}} \union {{s} : s \in 0 .. MaxSend - 1} :
        WhenMessage(socket, e, reliable, numbers, cmds)

Timer ==
    \/ CheckLostEntities
    \/ \E s \in 0 .. MaxSend - 1 : Retransmit(s)
    \/ \E e \in Entity : SendAcks(e)

Return == NewReturns \/ CommandReturns \/ LostReturns \/ ErrorReturns

Next == dangling = {} /\ (Application \/ Message \/ Timer \/ Return)

Spec == Init /\ [][Next]_vars

-----------------------------------------------------------------------------
(***************************************************************************)
(* Properties                                                               *)
(***************************************************************************)
Unregistered == \E k \in DOMAIN callbacks : ~callbacks[k].live

\* No handler uses an object after its end, wherever the application runs the
\* main loop in its callbacks (mclient.c, mtrans.c), except for what is left
\* behind by mbus_client_unregister and by mbus_client_free.
NoDanglingUse == dangling # {} => Unregistered \/ ~alive

\* "Finalizes and deletes the specified MClient object" (mclient.c:112): what
\* is left of a client after mbus_client_free does nothing any more.
FreedIsSilent == ~alive => dangling = {}

\* An entry of the table of reliable messages or of acknowledgements has an
\* armed timer as long as it is there, and a timer its entry (mtrans.c): no
\* message is left without an outcome and no timer without its data.  Between
\* the last period of a message and the end of its handler there is none.
TimersMatchTables ==
    /\ t_c = acknowledgements
    /\ t_r = Outstanding \ {stack[k].seq : k \in {j \in DOMAIN stack : stack[j].in = "error"}}

\* An application that is subscribed to both events from the start has been
\* told of the entities in the table of mtrans.c, but for those it is just being
\* told have left.
ToldTheTruth ==
    alive /\ {"new", "lost"} \subseteq subscribed \ Changing =>
        present = entities \
            {stack[k].from : k \in {j \in DOMAIN stack : stack[j].in = "lost"}}

\* When a command is registered twice the first registration serves it, each
\* time (the walk of __mbus_client_incoming_message).
FirstRegistrationServes ==
    dangling = {} => \A s, t \in served : s[1] = t[1] => s[2] = t[2]

\* A reliable message is not reported as failed after it was acknowledged, nor
\* acknowledged after it was reported as failed (mtrans.c:187-210, 420-463).
SettledOnce == acked \cap failed = {}

=============================================================================
