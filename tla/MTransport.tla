----------------------------- MODULE MTransport -----------------------------
(***************************************************************************)
(* The transport of libgmbus (src/gmbus/mtrans.c) with the two send         *)
(* entries of the client above it (src/gmbus/mclient.c), for any number of  *)
(* Mbus entities on one UDP multicast session.                              *)
(*                                                                          *)
(* Every handler runs to completion on the GLib main loop of its process,   *)
(* so each is one action; interleaving is between processes and between     *)
(* the timers and the sockets of one process.  Time is abstracted: a timer  *)
(* that is armed may fire at any moment; MHello models the timing of the    *)
(* hello protocol.                                                          *)
(*                                                                          *)
(* The network only grows.  A packet may be received at any later moment,   *)
(* in any order, never, or several times.                                   *)
(***************************************************************************)
EXTENDS Integers, FiniteSets

CONSTANTS
    Entity,           \* the complete addresses, each with an "id" element
    ALL,              \* the empty address, of which every address is a subset
    NoEntity,         \* no entry in the table of known entities
    MULTICAST,        \* the group address of the session
    SendUnicast,      \* the SEND_UNICAST entry of the configuration file
    ReliableSender,   \* the entities whose application sends reliably
    PlainDest,        \* the destinations of unreliable messages
    PlainKind,        \* the payloads of unreliable messages
    Duplicates,       \* may the network deliver a reliable packet twice?
    MaxSeq,           \* bound: sends of the application and of the hello timer
    MaxAckSeq,        \* bound: sends of the acknowledgement timer
    MaxRestart,       \* bound: restarts of one entity
    MaxLoss           \* bound: packets the network withholds from a receiver

\* mtrans.c: const gdouble N_r = 3.  The number of timer periods a reliable
\* message may stay unacknowledged.
N_r == 3

\* A socket address: every run of an entity binds its unicast socket to a
\* fresh port.
Endpoint == Entity \X Nat
Address  == Entity \union {ALL}

ASSUME TransportAssumption ==
    /\ ALL \notin Entity
    /\ NoEntity \notin Endpoint
    /\ MULTICAST \notin Endpoint
    /\ SendUnicast \in BOOLEAN
    /\ Duplicates \in BOOLEAN
    /\ ReliableSender \subseteq Entity
    /\ PlainDest \subseteq Address
    /\ PlainKind \subseteq {"app", "bye"}
    /\ MaxSeq \in Nat
    /\ MaxAckSeq \in Nat
    /\ MaxRestart \in Nat
    /\ MaxLoss \in Nat

(***************************************************************************)
(* A datagram: the socket it was sent from and to, and the header fields    *)
(* the transport reads.  The payload is only told apart by what             *)
(* __mbus_transport_handle_message does with it: a hello, a bye, commands   *)
(* for the application, or nothing.                                         *)
(***************************************************************************)
Packet == [sender : Endpoint, to : Endpoint \union {MULTICAST},
           seq : Nat, type : {"RELIABLE", "UNRELIABLE"}, dst : Address,
           kind : {"hello", "bye", "app", "none"}, acks : SUBSET Nat]

\* msg->header->source
Source(p) == p.sender[1]

VARIABLES
    \* --- struct MTransport of each entity
    sequence_no,          \* the next sequence number
    entities,             \* address -> endpoint it was first heard from
    reliable_messages,    \* unacknowledged reliable messages, timer armed
    acknowledgements,     \* address -> numbers to acknowledge to it, timer armed
    \* --- the environment
    epoch,                \* how often the process of an entity was restarted
    net,                  \* every packet ever sent
    lost,                 \* <<receiver, packet>>: will not be delivered
    \* --- history variables, read by no guard but the one of Duplicates
    handled,              \* <<receiver, reliable packet>>: processed by it
    acked,                \* <<sender, number>>: settled by an acknowledgement
    failed                \* <<sender, number>>: settled by giving up

transportVars == <<sequence_no, entities, reliable_messages, acknowledgements>>
ghostVars     == <<handled, acked, failed>>
vars == <<sequence_no, entities, reliable_messages, acknowledgements,
          epoch, net, lost, handled, acked, failed>>

\* The socket address of the current incarnation of e.
Self(e) == <<e, epoch[e]>>

TypeOK ==
    /\ sequence_no \in [Entity -> Nat]
    /\ entities \in [Entity -> [Entity -> Endpoint \union {NoEntity}]]
    /\ reliable_messages \in [Entity -> SUBSET [seq : Nat, n : 1 .. N_r - 1]]
    /\ acknowledgements \in [Entity -> [Entity -> SUBSET Nat]]
    /\ epoch \in [Entity -> Nat]
    /\ net \subseteq Packet
    /\ lost \subseteq Endpoint \X net
    /\ handled \subseteq Endpoint \X net
    /\ acked \subseteq Endpoint \X Nat
    /\ failed \subseteq Endpoint \X Nat

-----------------------------------------------------------------------------
Init ==
    /\ sequence_no = [e \in Entity |-> 0]
    /\ entities = [e \in Entity |-> [f \in Entity |-> NoEntity]]
    /\ reliable_messages = [e \in Entity |-> {}]
    /\ acknowledgements = [e \in Entity |-> [f \in Entity |-> {}]]
    /\ epoch = [e \in Entity |-> 0]
    /\ net = {}
    /\ lost = {}
    /\ handled = {}
    /\ acked = {}
    /\ failed = {}

-----------------------------------------------------------------------------
(***************************************************************************)
(* Sending                                                                  *)
(***************************************************************************)

\* msg->header->sequence_no = self->sequence_no++
TakeNumberMutant(e) == UNCHANGED sequence_no    \* Mutant: not incremented.

TakeNumber(e) == sequence_no' = [sequence_no EXCEPT ![e] = @ + 1]

\* Mutant: the acknowledgements are put into the next message, whoever it is
\* for.
PiggyBackMutant(e, dst) == UNION {acknowledgements[e][d] : d \in Entity}

\* The acknowledgements a message to dst carries.  Only a unique address can
\* be a key of the table.
PiggyBack(e, dst) ==
    IF dst \in Entity THEN acknowledgements[e][dst] ELSE {}

\* Mutant: the entry stays in the table.
FlushedMutant(e, dst) == acknowledgements

\* The table without the acknowledgements the message to dst carries.
Flushed(e, dst) ==
    IF dst \in Entity
      THEN [acknowledgements EXCEPT ![e][dst] = {}]
      ELSE acknowledgements

\* Mutant: the endpoint is the own socket.
RouteSelfMutant(e, dst) == IF dst = ALL THEN MULTICAST ELSE Self(e)

\* To the endpoint the destination was first heard from if it is known, to
\* the group otherwise or if the configuration forbids unicast.
Route(e, dst) ==
    IF SendUnicast /\ dst \in Entity /\ entities[e][dst] # NoEntity
      THEN entities[e][dst]
      ELSE MULTICAST

\* The datagram e emits: mbus_link_send and mbus_link_send_unicast.
Datagram(e, type, dst, kind, acks, to) ==
    [sender |-> Self(e), to |-> to, seq |-> sequence_no[e], type |-> type,
     dst |-> dst, kind |-> kind, acks |-> acks]

\* mbus_transport_send: number the message, arm the timer of a reliable one,
\* take the acknowledgements that wait for its destination along.
Send(e, type, dst, kind) ==
    /\ sequence_no[e] < MaxSeq
    /\ TakeNumber(e)
    /\ reliable_messages' =
         IF type = "RELIABLE"
           THEN [reliable_messages EXCEPT
                   ![e] = @ \union {[seq |-> sequence_no[e], n |-> 1]}]
           ELSE reliable_messages
    /\ acknowledgements' = Flushed(e, dst)
    /\ net' = net \union {Datagram(e, type, dst, kind, PiggyBack(e, dst),
                                   Route(e, dst))}
    /\ UNCHANGED <<entities, epoch, lost, handled, acked, failed>>

\* mbus_client_send
ClientSend(e) ==
    \E dst \in PlainDest, kind \in PlainKind : Send(e, "UNRELIABLE", dst, kind)

\* mbus_client_send_reliable: refused unless the address is unique and in the
\* table of known entities.
ClientSendReliable(e) ==
    /\ e \in ReliableSender
    /\ \E dst \in Entity : /\ entities[e][dst] # NoEntity
                           /\ Send(e, "RELIABLE", dst, "app")

\* __mbus_transport_when_hello
WhenHello(e) == Send(e, "UNRELIABLE", ALL, "hello")

-----------------------------------------------------------------------------
(***************************************************************************)
(* Receiving                                                                *)
(***************************************************************************)

\* __mbus_transport_handle_message hands the message to the application.
PassedToApplication(e, p) == p.kind = "app" /\ p.dst \in {e, ALL}

\* Mutant: acknowledgements are taken as cumulative.
SettledByMutant(e, p) ==
    {m \in reliable_messages[e] : \E s \in p.acks : m.seq <= s}

\* The messages of e that __mbus_transport_check_for_acks settles: it compares
\* the number only, neither the source nor the destination of the packet.
SettledBy(e, p) == {m \in reliable_messages[e] : m.seq \in p.acks}

\* Mutant: a number is only stored when the entry is created.
OwedMutant(e, p) ==
    IF p.type = "RELIABLE" /\ acknowledgements[e][Source(p)] = {}
      THEN {p.seq}
      ELSE acknowledgements[e][Source(p)]

\* The numbers e has to acknowledge to the source of p once it has seen p.
Owed(e, p) ==
    acknowledgements[e][Source(p)]
        \union (IF p.type = "RELIABLE" THEN {p.seq} ELSE {})

\* __mbus_transport_when_link_message.  The acknowledgement of a reliable
\* packet is queued before its destination is looked at.  A known source keeps
\* the endpoint it was first heard from.
LinkMessage(e, p) ==
    /\ p.to \in {MULTICAST, Self(e)}
    /\ <<Self(e), p>> \notin lost
    /\ Source(p) # e
    /\ p.type = "RELIABLE" => (Duplicates \/ <<Self(e), p>> \notin handled)
    /\ acknowledgements' = [acknowledgements EXCEPT ![e][Source(p)] = Owed(e, p)]
    /\ reliable_messages' = [reliable_messages EXCEPT ![e] = @ \ SettledBy(e, p)]
    /\ entities' =
         IF entities[e][Source(p)] = NoEntity
           THEN [entities EXCEPT ![e][Source(p)] = p.sender]
           ELSE entities
    /\ handled' =
         IF p.type = "RELIABLE" THEN handled \union {<<Self(e), p>>} ELSE handled
    /\ acked' = acked \union {<<Self(e), m.seq>> : m \in SettledBy(e, p)}
    /\ UNCHANGED <<sequence_no, epoch, net, lost, failed>>

-----------------------------------------------------------------------------
(***************************************************************************)
(* Timers                                                                   *)
(***************************************************************************)

\* __mbus_transport_send_acks: no message to d came along in time.  The
\* acknowledgements leave in an empty message, always by multicast.
SendAcks(e, d) ==
    /\ acknowledgements[e][d] # {}
    /\ sequence_no[e] < MaxAckSeq
    /\ TakeNumber(e)
    /\ acknowledgements' = Flushed(e, d)
    /\ net' = net \union {Datagram(e, "UNRELIABLE", d, "none",
                                   acknowledgements[e][d], MULTICAST)}
    /\ UNCHANGED <<reliable_messages, entities, epoch, lost, handled, acked,
                   failed>>

\* Mutants: one period too many; the period is not counted; the message is
\* dropped after one period without a report; it is kept after the report.
WaitsOnLongMutant(m) ==
    IF m.n + 1 <= N_r THEN {[seq |-> m.seq, n |-> m.n + 1]} ELSE {}
WaitsOnUncountedMutant(m) == {m}
WaitsOnDroppedMutant(m) == {}
WaitsOnKeptMutant(m) ==
    IF m.n + 1 < N_r THEN {[seq |-> m.seq, n |-> m.n + 1]} ELSE {m}

\* What is left of the entry m when its timer fires.
WaitsOn(m) == IF m.n + 1 < N_r THEN {[seq |-> m.seq, n |-> m.n + 1]} ELSE {}

\* __retransmit_reliable: count the period, then wait for another one or
\* report MERR_SEND_RELIABLE and forget the message.  Nothing is sent.
RetransmitReliable(e, m) ==
    /\ reliable_messages' =
         [reliable_messages EXCEPT ![e] = (@ \ {m}) \union WaitsOn(m)]
    /\ failed' =
         IF m.n + 1 < N_r THEN failed ELSE failed \union {<<Self(e), m.seq>>}
    /\ UNCHANGED <<sequence_no, entities, acknowledgements, epoch, net, lost,
                   handled, acked>>

\* __mbus_transport_check_lost_entities: forget the entities without a recent
\* hello.
CheckLostEntities(e) ==
    \E dead \in (SUBSET {f \in Entity : entities[e][f] # NoEntity}) \ {{}} :
        /\ entities' = [entities EXCEPT ![e] =
                          [f \in Entity |-> IF f \in dead THEN NoEntity ELSE @[f]]]
        /\ UNCHANGED <<sequence_no, reliable_messages, acknowledgements, epoch,
                       net, lost, handled, acked, failed>>

-----------------------------------------------------------------------------
(***************************************************************************)
(* The environment                                                          *)
(***************************************************************************)

\* The process ends and is started again with the same complete address:
\* mbus_address_disambiguate keeps an id that is given, and
\* __mbus_transport_init starts from empty tables and number 0.
Restart(e) ==
    /\ epoch[e] < MaxRestart
    /\ epoch' = [epoch EXCEPT ![e] = @ + 1]
    /\ sequence_no' = [sequence_no EXCEPT ![e] = 0]
    /\ entities' = [entities EXCEPT ![e] = [f \in Entity |-> NoEntity]]
    /\ reliable_messages' = [reliable_messages EXCEPT ![e] = {}]
    /\ acknowledgements' = [acknowledgements EXCEPT ![e] = [f \in Entity |-> {}]]
    /\ UNCHANGED <<net, lost, handled, acked, failed>>

\* The network drops a reliable packet on its way to e for good.  (Not
\* receiving a packet already models its loss in every safety property; this
\* action makes the loss definite for the liveness properties.)
Lose(e, p) ==
    /\ Cardinality(lost) < MaxLoss
    /\ p.type = "RELIABLE"
    /\ Source(p) # e
    /\ <<Self(e), p>> \notin handled \union lost
    /\ lost' = lost \union {<<Self(e), p>>}
    /\ UNCHANGED <<sequence_no, entities, reliable_messages, acknowledgements,
                   epoch, net, handled, acked, failed>>

-----------------------------------------------------------------------------
Next ==
    \E e \in Entity :
        \/ ClientSend(e)
        \/ ClientSendReliable(e)
        \/ WhenHello(e)
        \/ \E p \in net : LinkMessage(e, p)
        \/ \E d \in Entity : SendAcks(e, d)
        \/ \E m \in reliable_messages[e] : RetransmitReliable(e, m)
        \/ CheckLostEntities(e)
        \/ Restart(e)
        \/ \E p \in net : Lose(e, p)

Spec == Init /\ [][Next]_vars

(***************************************************************************)
(* Fairness: the main loop serves every timer that is due and every         *)
(* datagram that waits in a socket; a datagram that is neither withheld by  *)
(* Lose nor for another socket reaches the socket.  Nothing is assumed of   *)
(* the application, of the hello timer or of restarts.                      *)
(***************************************************************************)
Fairness ==
    /\ \A e, d \in Entity : WF_vars(SendAcks(e, d))
    /\ \A e \in Entity, s \in 0 .. MaxSeq - 1 :
         WF_vars(\E m \in reliable_messages[e] :
                    m.seq = s /\ RetransmitReliable(e, m))
    /\ \A e, f \in Entity, s \in 0 .. MaxSeq - 1 :
         WF_vars(\E p \in net : Source(p) = f /\ p.seq = s /\ LinkMessage(e, p))

FairSpec == Spec /\ Fairness

-----------------------------------------------------------------------------
(***************************************************************************)
(* Properties                                                               *)
(***************************************************************************)

\* A reliable message of the current incarnation of its sender, by its name.
Pending(m) == \E e \in Entity : m[1] = Self(e)
                               /\ \E r \in reliable_messages[e] : r.seq = m[2]

Name(p) == <<p.sender, p.seq>>

\* The destination of p processed it and handed it to its application.
Delivered(p) ==
    \E h \in handled : h[2] = p /\ h[1][1] = p.dst /\ PassedToApplication(p.dst, p)

ReliablePackets == {p \in net : p.type = "RELIABLE"}

\* No two datagrams of one run of an entity share a number, whichever of the
\* send paths (application, hello timer, acknowledgement timer) took it: the
\* acknowledgement of a message can not be one of another message of that run.
SeqIdentifiesPacket ==
    \A p, q \in net : Name(p) = Name(q) => p = q

\* Every acknowledgement, queued (when_link_message) or sent (piggybacked by
\* mbus_transport_send or by send_acks), names a reliable message that the
\* acknowledging run of the entity did process and that came from the entity
\* the acknowledgement is addressed to.
AcksTruthful ==
    /\ \A e, d \in Entity : \A s \in acknowledgements[e][d] :
         \E h \in handled : h[1] = Self(e) /\ Source(h[2]) = d /\ h[2].seq = s
    /\ \A p \in net : \A s \in p.acks :
         \E h \in handled : h[1] = p.sender /\ Source(h[2]) = p.dst /\ h[2].seq = s

\* A reliable message that was processed is still queued for acknowledgement
\* or was acknowledged in a packet to its source: the two paths that empty the
\* table of acknowledgements (piggybacking and the T_c timer) lose none.
NoAckForgotten ==
    \A h \in handled :
        LET e == h[1][1] IN
        h[1] = Self(e) =>
            \/ h[2].seq \in acknowledgements[e][Source(h[2])]
            \/ \E p \in net : /\ p.sender = h[1]
                             /\ p.dst = Source(h[2])
                             /\ h[2].seq \in p.acks

\* Each reliable message of a running sender is in exactly one of three
\* states: waiting with its timer armed, acknowledged, or reported as failed.
\* A late acknowledgement can not settle it again, and no message is settled
\* that was never sent.
SettledOnce ==
    /\ acked \intersect failed = {}
    /\ \A m \in acked \union failed : ~Pending(m)
    /\ acked \union failed \subseteq {Name(p) : p \in ReliablePackets}
    /\ \A p \in ReliablePackets :
         p.sender = Self(Source(p)) =>
            Pending(Name(p)) \/ Name(p) \in acked \union failed

\* mtrans.h:65-68: a reliable message "needs to be acknowledged by the
\* receiver".  A message that left the table of reliable messages because of
\* an acknowledgement was handed to the application of its destination.
AckedWasDelivered ==
    \A p \in ReliablePackets : Name(p) \in acked => Delivered(p)

\* The T_c timer: acknowledgements do not stay in the table.  With
\* NoAckForgotten: every reliable message received is acknowledged.
AcksLeave ==
    \A e, d \in Entity :
        acknowledgements[e][d] # {} ~> acknowledgements[e][d] = {}

\* mclient.c:239-240: mbus_client_send_reliable "internally handles the
\* reception of acknowledgements or necessary retransmissions".  A reliable
\* message reaches the application of its destination.
ReliableReachesDestination ==
    \A e \in Entity, s \in 0 .. MaxSeq - 1 :
        (\E p \in ReliablePackets : Source(p) = e /\ p.seq = s)
            ~> (\E p \in ReliablePackets : Source(p) = e /\ p.seq = s /\ Delivered(p))

\* A reliable message reaches the application of its destination unless the
\* network drops its datagram on the way there: by the endpoint the sender
\* knows or by the group, it is sent to where the destination listens.
DeliveredUnlessLost ==
    \A e \in Entity, s \in 0 .. MaxSeq - 1 :
        (\E p \in ReliablePackets : Source(p) = e /\ p.seq = s)
            ~> (\E p \in ReliablePackets :
                   /\ Source(p) = e /\ p.seq = s
                   /\ Delivered(p) \/ <<Self(p.dst), p>> \in lost)

-----------------------------------------------------------------------------
(***************************************************************************)
(* What the transport promises its application, see ReliableDelivery.       *)
(***************************************************************************)
RD == INSTANCE ReliableDelivery WITH
        Message   <- (Entity \X (0 .. MaxRestart)) \X (0 .. MaxSeq - 1),
        submitted <- {Name(p) : p \in ReliablePackets},
        delivered <- {Name(p) : p \in {q \in ReliablePackets : Delivered(q)}},
        confirmed <- acked,
        abandoned <- failed

\* The steps of the transport implement the abstract service.
ImplementsReliableDelivery == RD!Safety

\* ... and its timers make it settle every message.
ImplementsReliableService == RD!Spec
=============================================================================
