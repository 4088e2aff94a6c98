-------------------------- MODULE MTransportProofs --------------------------
(***************************************************************************)
(* Theorems about MTransport, for every set of entities and every value of  *)
(* the bounds.                                                              *)
(***************************************************************************)
EXTENDS MTransport, TLAPS

\* A sender is an endpoint and its first component the source address.
LEMMA SourceType ==
    ASSUME NEW p \in Packet
    PROVE  Source(p) \in Entity /\ p.sender[2] \in Nat
                                /\ p.sender = <<Source(p), p.sender[2]>>
  BY DEF Packet, Source, Endpoint

\* What a send emits is a datagram.
LEMMA DatagramType ==
    ASSUME TypeOK, NEW e \in Entity, NEW type \in {"RELIABLE", "UNRELIABLE"},
           NEW dst \in Address, NEW kind \in {"hello", "bye", "app", "none"},
           NEW acks \in SUBSET Nat, NEW to \in Endpoint \union {MULTICAST}
    PROVE  Datagram(e, type, dst, kind, acks, to) \in Packet
  BY DEF TypeOK, Datagram, Packet, Self, Endpoint

LEMMA RouteType ==
    ASSUME TypeOK, NEW e \in Entity, NEW dst \in Address
    PROVE  Route(e, dst) \in Endpoint \union {MULTICAST}
  BY DEF TypeOK, Route

LEMMA PiggyBackType ==
    ASSUME TypeOK, NEW e \in Entity, NEW dst \in Address
    PROVE  PiggyBack(e, dst) \in SUBSET Nat
  BY DEF TypeOK, PiggyBack

\* Every send of mbus_transport_send keeps the types.
LEMMA SendType ==
    ASSUME TypeOK, NEW e \in Entity, NEW type \in {"RELIABLE", "UNRELIABLE"},
           NEW dst \in Address, NEW kind \in {"hello", "bye", "app", "none"},
           Send(e, type, dst, kind)
    PROVE  TypeOK'
  <1> DEFINE d == Datagram(e, type, dst, kind, PiggyBack(e, dst), Route(e, dst))
  <1>1. d \in Packet
    BY DatagramType, RouteType, PiggyBackType
  <1>2. net' \subseteq Packet /\ net \subseteq net'
    BY <1>1 DEF Send, TakeNumber, Flushed, TypeOK
  <1>3. lost' \subseteq Endpoint \X net' /\ handled' \subseteq Endpoint \X net'
    BY <1>2 DEF Send, TakeNumber, Flushed, TypeOK
  <1>4. sequence_no' \in [Entity -> Nat]
    BY DEF Send, TakeNumber, Flushed, TypeOK
  <1>5. acknowledgements' \in [Entity -> [Entity -> SUBSET Nat]]
    BY DEF Send, TakeNumber, Flushed, TypeOK
  <1>6. reliable_messages' \in [Entity -> SUBSET [seq : Nat, n : 1 .. N_r - 1]]
    <2>1. [seq |-> sequence_no[e], n |-> 1] \in [seq : Nat, n : 1 .. N_r - 1]
      BY DEF TypeOK, N_r
    <2>. QED  BY <2>1 DEF Send, TakeNumber, Flushed, TypeOK
  <1>. QED  BY <1>2, <1>3, <1>4, <1>5, <1>6 DEF Send, TakeNumber, Flushed, TypeOK

LEMMA LinkMessageType ==
    ASSUME TypeOK, NEW e \in Entity, NEW p \in net, LinkMessage(e, p)
    PROVE  TypeOK'
  <1>1. p \in Packet /\ Source(p) \in Entity /\ Self(e) \in Endpoint
    BY SourceType DEF TypeOK, Self, Endpoint
  <1>2. p.sender \in Endpoint /\ p.seq \in Nat
    BY <1>1 DEF Packet
  <1>3. acknowledgements' \in [Entity -> [Entity -> SUBSET Nat]]
    BY <1>1, <1>2 DEF LinkMessage, Owed, TypeOK
  <1>4. entities' \in [Entity -> [Entity -> Endpoint \union {NoEntity}]]
    BY <1>1, <1>2 DEF LinkMessage, Owed, TypeOK
  <1>5. reliable_messages' \in [Entity -> SUBSET [seq : Nat, n : 1 .. N_r - 1]]
    BY DEF LinkMessage, Owed, TypeOK
  <1>6. handled' \subseteq Endpoint \X net'
    BY <1>1 DEF LinkMessage, Owed, TypeOK
  <1>7. acked' \subseteq Endpoint \X Nat
    <2>1. \A m \in SettledBy(e, p) : m.seq \in Nat
      BY DEF SettledBy, TypeOK
    <2>. QED  BY <1>1, <2>1 DEF LinkMessage, Owed, TypeOK
  <1>. QED
    BY <1>3, <1>4, <1>5, <1>6, <1>7 DEF LinkMessage, Owed, TypeOK

LEMMA SendAcksType ==
    ASSUME TypeOK, NEW e \in Entity, NEW d \in Entity, SendAcks(e, d)
    PROVE  TypeOK'
  <1> DEFINE g == Datagram(e, "UNRELIABLE", d, "none", acknowledgements[e][d],
                           MULTICAST)
  <1>1. g \in Packet
    <2>1. d \in Address /\ acknowledgements[e][d] \in SUBSET Nat
      BY DEF Address, TypeOK
    <2>. QED  BY <2>1, DatagramType
  <1>2. net' \subseteq Packet /\ net \subseteq net'
    BY <1>1 DEF SendAcks, TakeNumber, Flushed, TypeOK
  <1>3. lost' \subseteq Endpoint \X net' /\ handled' \subseteq Endpoint \X net'
    BY <1>2 DEF SendAcks, TakeNumber, Flushed, TypeOK
  <1>4. sequence_no' \in [Entity -> Nat]
    BY DEF SendAcks, TakeNumber, Flushed, TypeOK
  <1>5. acknowledgements' \in [Entity -> [Entity -> SUBSET Nat]]
    BY DEF SendAcks, TakeNumber, Flushed, TypeOK
  <1>. QED  BY <1>2, <1>3, <1>4, <1>5 DEF SendAcks, TakeNumber, Flushed, TypeOK

\* What the retransmission timer leaves of the entry m: the entry with one
\* more period counted, or nothing.
LEMMA RetransmitEffect ==
    ASSUME TypeOK, NEW e \in Entity, NEW m \in reliable_messages[e],
           RetransmitReliable(e, m)
    PROVE  /\ m.seq \in Nat
           /\ \/ /\ m.n = 1
                 /\ reliable_messages' =
                      [reliable_messages EXCEPT
                         ![e] = (@ \ {m}) \union {[seq |-> m.seq, n |-> 2]}]
                 /\ failed' = failed
              \/ /\ m.n = 2
                 /\ reliable_messages' = [reliable_messages EXCEPT ![e] = @ \ {m}]
                 /\ failed' = failed \union {<<Self(e), m.seq>>}
  <1>1. m \in [seq : Nat, n : 1 .. 2]
    BY DEF TypeOK, N_r
  <1>2. m.n = 1 \/ m.n = 2
    BY <1>1
  <1>3. CASE m.n = 1
    <2>1. WaitsOn(m) = {[seq |-> m.seq, n |-> 2]}
      BY <1>3 DEF WaitsOn, N_r
    <2>. QED  BY <1>1, <1>3, <2>1 DEF RetransmitReliable, N_r
  <1>4. CASE m.n = 2
    <2>1. WaitsOn(m) = {}
      BY <1>4 DEF WaitsOn, N_r
    <2>2. reliable_messages' = [reliable_messages EXCEPT ![e] = @ \ {m}]
      BY <2>1 DEF RetransmitReliable
    <2>3. failed' = failed \union {<<Self(e), m.seq>>}
      BY <1>4 DEF RetransmitReliable, N_r
    <2>. QED  BY <1>1, <1>4, <2>2, <2>3
  <1>. QED  BY <1>2, <1>3, <1>4

LEMMA RetransmitType ==
    ASSUME TypeOK, NEW e \in Entity, NEW m \in reliable_messages[e],
           RetransmitReliable(e, m)
    PROVE  TypeOK'
  <1>1. m.seq \in Nat /\ Self(e) \in Endpoint
    BY RetransmitEffect DEF TypeOK, Self, Endpoint
  <1>2. reliable_messages' \in [Entity -> SUBSET [seq : Nat, n : 1 .. N_r - 1]]
    <2>1. [seq |-> m.seq, n |-> 2] \in [seq : Nat, n : 1 .. N_r - 1]
      BY <1>1 DEF N_r
    <2>. QED  BY <2>1, RetransmitEffect, SMTT(30) DEF TypeOK
  <1>3. failed' \subseteq Endpoint \X Nat
    BY <1>1, RetransmitEffect DEF TypeOK
  <1>. QED  BY <1>2, <1>3 DEF RetransmitReliable, TypeOK

LEMMA CheckLostType ==
    ASSUME TypeOK, NEW e \in Entity, CheckLostEntities(e)
    PROVE  TypeOK'
  <1>1. entities' \in [Entity -> [Entity -> Endpoint \union {NoEntity}]]
    BY DEF CheckLostEntities, TypeOK
  <1>. QED  BY <1>1 DEF CheckLostEntities, TypeOK

LEMMA RestartType ==
    ASSUME TypeOK, NEW e \in Entity, Restart(e)
    PROVE  TypeOK'
  BY DEF Restart, TypeOK

LEMMA LoseType ==
    ASSUME TypeOK, NEW e \in Entity, NEW p \in net, Lose(e, p)
    PROVE  TypeOK'
  BY DEF Lose, TypeOK, Self, Endpoint

LEMMA TypeStep == TypeOK /\ [Next]_vars => TypeOK'
  <1> SUFFICES ASSUME TypeOK, [Next]_vars
               PROVE  TypeOK'
    OBVIOUS
  <1>1. CASE UNCHANGED vars
    BY <1>1 DEF vars, TypeOK
  <1>2. ASSUME NEW e \in Entity, ClientSend(e) PROVE TypeOK'
    BY <1>2, SendType, TransportAssumption DEF ClientSend
  <1>3. ASSUME NEW e \in Entity, ClientSendReliable(e) PROVE TypeOK'
    BY <1>3, SendType DEF ClientSendReliable, Address
  <1>4. ASSUME NEW e \in Entity, WhenHello(e) PROVE TypeOK'
    BY <1>4, SendType DEF WhenHello, Address
  <1>5. ASSUME NEW e \in Entity, NEW p \in net, LinkMessage(e, p) PROVE TypeOK'
    BY <1>5, LinkMessageType
  <1>6. ASSUME NEW e \in Entity, NEW d \in Entity, SendAcks(e, d) PROVE TypeOK'
    BY <1>6, SendAcksType
  <1>7. ASSUME NEW e \in Entity, NEW m \in reliable_messages[e],
               RetransmitReliable(e, m)
        PROVE  TypeOK'
    BY <1>7, RetransmitType
  <1>8. ASSUME NEW e \in Entity, CheckLostEntities(e) PROVE TypeOK'
    BY <1>8, CheckLostType
  <1>9. ASSUME NEW e \in Entity, Restart(e) PROVE TypeOK'
    BY <1>9, RestartType
  <1>10. ASSUME NEW e \in Entity, NEW p \in net, Lose(e, p) PROVE TypeOK'
    BY <1>10, LoseType
  <1>. QED
    BY <1>1, <1>2, <1>3, <1>4, <1>5, <1>6, <1>7, <1>8, <1>9, <1>10 DEF Next

\* The tables of every entity and the datagrams keep their types: in
\* particular an armed retransmission timer has counted 1 or 2 periods.
THEOREM TypeCorrect == Spec => []TypeOK
  <1>1. Init => TypeOK
    BY DEF Init, TypeOK
  <1>. QED  BY <1>1, TypeStep, PTL DEF Spec

-----------------------------------------------------------------------------
(***************************************************************************)
(* The steps, by what the invariants below have to look at.                 *)
(***************************************************************************)

\* e puts the datagram g on the network under its next number.
Emits(e, g) ==
    /\ g \in Packet
    /\ g.sender = Self(e)
    /\ g.seq = sequence_no[e]
    /\ net' = net \union {g}
    /\ sequence_no' = [sequence_no EXCEPT ![e] = @ + 1]
    /\ UNCHANGED epoch

\* A send of the application or of the hello timer, with its inputs typed.
TypedSend(e, type, dst, kind) ==
    /\ type \in {"RELIABLE", "UNRELIABLE"}
    /\ dst \in Address
    /\ kind \in {"hello", "bye", "app", "none"}
    /\ type = "RELIABLE" =>
          /\ e \in ReliableSender
          /\ dst \in Entity /\ entities[e][dst] # NoEntity /\ kind = "app"
    /\ Send(e, type, dst, kind)

\* Steps that only forget entities or add to the network's losses.
Quiet ==
    /\ UNCHANGED <<sequence_no, reliable_messages, acknowledgements, epoch, net,
                   handled, acked, failed>>
    /\ \A x, y \in Entity : entities'[x][y] \in {entities[x][y], NoEntity}

LEMMA StepCases ==
    ASSUME TypeOK, [Next]_vars,
           NEW ACTION P,
           \A e \in Entity : \A type, dst, kind : TypedSend(e, type, dst, kind) => P,
           \A e \in Entity, p \in net : LinkMessage(e, p) => P,
           \A e, d \in Entity : SendAcks(e, d) => P,
           \A e \in Entity : \A m \in reliable_messages[e] :
                RetransmitReliable(e, m) => P,
           \A e \in Entity : Restart(e) => P,
           Quiet => P
    PROVE  P
  <1>1. CASE UNCHANGED vars
    BY <1>1 DEF vars, Quiet
  <1>2. ASSUME NEW e \in Entity, ClientSend(e) PROVE P
    BY <1>2, TransportAssumption DEF ClientSend, TypedSend
  <1>3. ASSUME NEW e \in Entity, ClientSendReliable(e) PROVE P
    BY <1>3 DEF ClientSendReliable, TypedSend, Address
  <1>4. ASSUME NEW e \in Entity, WhenHello(e) PROVE P
    BY <1>4 DEF WhenHello, TypedSend, Address
  <1>5. ASSUME NEW e \in Entity, CheckLostEntities(e) PROVE P
    BY <1>5 DEF CheckLostEntities, Quiet, TypeOK
  <1>6. ASSUME NEW e \in Entity, NEW p \in net, Lose(e, p) PROVE P
    BY <1>6 DEF Lose, Quiet
  <1>. QED  BY <1>1, <1>2, <1>3, <1>4, <1>5, <1>6 DEF Next

\* The datagram of a send.
LEMMA SendEmits ==
    ASSUME TypeOK, NEW e \in Entity, NEW type, NEW dst, NEW kind,
           TypedSend(e, type, dst, kind)
    PROVE  \E g : /\ Emits(e, g)
                 /\ g.type = type /\ g.dst = dst /\ g.kind = kind
                 /\ g.acks = PiggyBack(e, dst) /\ g.to = Route(e, dst)
  <1> DEFINE g == Datagram(e, type, dst, kind, PiggyBack(e, dst), Route(e, dst))
  <1>1. g \in Packet
    BY DatagramType, RouteType, PiggyBackType DEF TypedSend
  <1>2. Emits(e, g)
    BY <1>1 DEF Emits, TypedSend, Send, TakeNumber, Flushed, Datagram
  <1>3. /\ g.type = type /\ g.dst = dst /\ g.kind = kind
        /\ g.acks = PiggyBack(e, dst) /\ g.to = Route(e, dst)
    BY DEF Datagram
  <1>. QED  BY <1>2, <1>3

\* The datagram of the acknowledgement timer.
LEMMA SendAcksEmits ==
    ASSUME TypeOK, NEW e \in Entity, NEW d \in Entity, SendAcks(e, d)
    PROVE  \E g : /\ Emits(e, g)
                 /\ g.type = "UNRELIABLE" /\ g.dst = d
                 /\ g.acks = acknowledgements[e][d]
  <1> DEFINE g == Datagram(e, "UNRELIABLE", d, "none", acknowledgements[e][d],
                           MULTICAST)
  <1>1. g \in Packet
    <2>1. d \in Address /\ acknowledgements[e][d] \in SUBSET Nat
      BY DEF Address, TypeOK
    <2>. QED  BY <2>1, DatagramType
  <1>2. Emits(e, g)
    BY <1>1 DEF Emits, SendAcks, TakeNumber, Flushed, Datagram
  <1>3. g.type = "UNRELIABLE" /\ g.dst = d /\ g.acks = acknowledgements[e][d]
    BY DEF Datagram
  <1>. QED  BY <1>2, <1>3

-----------------------------------------------------------------------------
(***************************************************************************)
(* Numbers                                                                  *)
(***************************************************************************)

\* No datagram of a run to come; those of the current run are below the next
\* number.
NumbersBelow ==
    \A p \in net :
        /\ p.sender[2] <= epoch[Source(p)]
        /\ p.sender = Self(Source(p)) => p.seq < sequence_no[Source(p)]

Numbers == NumbersBelow /\ SeqIdentifiesPacket

\* The name of a fresh datagram is new.
LEMMA FreshName ==
    ASSUME TypeOK, NumbersBelow, NEW e \in Entity, NEW p \in net
    PROVE  Name(p) # <<Self(e), sequence_no[e]>>
  <1>1. p \in Packet
    BY DEF TypeOK
  <1>2. SUFFICES ASSUME p.sender = Self(e) PROVE p.seq # sequence_no[e]
    BY DEF Name
  <1>3. Source(p) = e
    BY <1>2 DEF Source, Self
  <1>4. p.seq < sequence_no[e] /\ p.seq \in Nat /\ sequence_no[e] \in Nat
    BY <1>1, <1>2, <1>3 DEF NumbersBelow, TypeOK, Packet
  <1>. QED  BY <1>4

LEMMA EmitsNumbers ==
    ASSUME TypeOK, Numbers, NEW e \in Entity, NEW g, Emits(e, g)
    PROVE  Numbers'
  <1>1. Source(g) = e /\ g.sender[2] = epoch[e] /\ Name(g) = <<Self(e), sequence_no[e]>>
    BY DEF Emits, Self, Source, Name
  <1>2. NumbersBelow'
    <2> SUFFICES ASSUME NEW p \in net'
                 PROVE  /\ p.sender[2] <= epoch[Source(p)]
                        /\ p.sender = Self(Source(p)) =>
                              p.seq < sequence_no'[Source(p)]
      BY DEF NumbersBelow, Emits, Self, Source
    <2>1. CASE p = g
      BY <1>1, <2>1 DEF Emits, TypeOK
    <2>2. CASE p \in net
      <3>1. p \in Packet /\ Source(p) \in Entity
        BY <2>2, SourceType DEF TypeOK
      <3>2. sequence_no[Source(p)] <= sequence_no'[Source(p)]
        BY <3>1 DEF Emits, TypeOK
      <3>3. p.seq \in Nat /\ sequence_no[Source(p)] \in Nat
                          /\ sequence_no'[Source(p)] \in Nat
        BY <3>1 DEF Emits, TypeOK, Packet
      <3>. QED  BY <2>2, <3>2, <3>3 DEF Numbers, NumbersBelow
    <2>. QED  BY <2>1, <2>2 DEF Emits
  <1>3. SeqIdentifiesPacket'
    <2>1. \A p \in net : Name(p) # Name(g)
      BY <1>1, FreshName DEF Numbers
    <2>2. \A p : Name(p)' = Name(p)
      BY DEF Name
    <2>. QED  BY <2>1, <2>2 DEF Numbers, SeqIdentifiesPacket, Emits
  <1>. QED  BY <1>2, <1>3 DEF Numbers

LEMMA NumbersStep == TypeOK /\ Numbers /\ [Next]_vars => Numbers'
  <1> SUFFICES ASSUME TypeOK, Numbers, [Next]_vars PROVE Numbers'
    OBVIOUS
  <1>1. ASSUME NEW e \in Entity, NEW type, NEW dst, NEW kind,
               TypedSend(e, type, dst, kind)
        PROVE  Numbers'
    BY <1>1, SendEmits, EmitsNumbers
  <1>2. ASSUME NEW e \in Entity, NEW d \in Entity, SendAcks(e, d) PROVE Numbers'
    BY <1>2, SendAcksEmits, EmitsNumbers
  <1>3. ASSUME UNCHANGED <<net, sequence_no, epoch>> PROVE Numbers'
    BY <1>3 DEF Numbers, NumbersBelow, SeqIdentifiesPacket, Self, Source, Name
  <1>4. ASSUME NEW e \in Entity, Restart(e) PROVE Numbers'
    <2>1. SeqIdentifiesPacket'
      BY <1>4 DEF Restart, Numbers, SeqIdentifiesPacket, Name
    <2>2. NumbersBelow'
      <3> SUFFICES ASSUME NEW p \in net
                   PROVE  /\ p.sender[2] <= epoch'[Source(p)]
                          /\ p.sender = <<Source(p), epoch'[Source(p)]>> =>
                                p.seq < sequence_no'[Source(p)]
        BY <1>4 DEF NumbersBelow, Restart, Self, Source
      <3>1. p \in Packet /\ Source(p) \in Entity /\ p.sender[2] \in Nat
        BY SourceType DEF TypeOK
      <3>2. p.sender[2] <= epoch[Source(p)] /\ epoch[Source(p)] \in Nat
        BY <3>1 DEF Numbers, NumbersBelow, TypeOK
      <3>3. CASE Source(p) = e
        BY <1>4, <3>1, <3>2, <3>3 DEF Restart, TypeOK
      <3>4. CASE Source(p) # e
        BY <1>4, <3>1, <3>2, <3>4 DEF Restart, Numbers, NumbersBelow, Self, TypeOK
      <3>. QED  BY <3>3, <3>4
    <2>. QED  BY <2>1, <2>2 DEF Numbers
  <1>5. ASSUME NEW e \in Entity, NEW p \in net, LinkMessage(e, p) PROVE Numbers'
    BY <1>3, <1>5 DEF LinkMessage, Owed
  <1>6. ASSUME NEW e \in Entity, NEW m \in reliable_messages[e],
               RetransmitReliable(e, m)
        PROVE  Numbers'
    BY <1>3, <1>6 DEF RetransmitReliable
  <1>7. Quiet => Numbers'
    BY <1>3 DEF Quiet
  <1>. QED  BY <1>1, <1>2, <1>4, <1>5, <1>6, <1>7, StepCases

LEMMA NumbersInvariant == Spec => []Numbers
  <1>1. Init => Numbers
    BY DEF Init, Numbers, NumbersBelow, SeqIdentifiesPacket
  <1>. QED  BY <1>1, NumbersStep, TypeCorrect, PTL DEF Spec

\* Numbers are not reused within a run, whichever path sends.
THEOREM NumbersUnique == Spec => []SeqIdentifiesPacket
  <1>1. Numbers => SeqIdentifiesPacket
    BY DEF Numbers
  <1>. QED  BY <1>1, NumbersInvariant, PTL

-----------------------------------------------------------------------------
(***************************************************************************)
(* Acknowledgements                                                         *)
(***************************************************************************)

\* Run i of an entity processed a reliable message with number s from d.
Processed(i, d, s) ==
    \E h \in handled : h[1] = i /\ Source(h[2]) = d /\ h[2].seq = s

\* The two halves of AcksTruthful: the table and the network.
QueuedTruthful ==
    \A e, d \in Entity : \A s \in acknowledgements[e][d] : Processed(Self(e), d, s)

SentTruthful ==
    \A p \in net : \A s \in p.acks : Processed(p.sender, p.dst, s)

LEMMA TruthfulForm == AcksTruthful <=> QueuedTruthful /\ SentTruthful
  BY DEF AcksTruthful, QueuedTruthful, SentTruthful, Processed

\* History is never forgotten.
LEMMA ProcessedStays ==
    ASSUME handled \subseteq handled', NEW i, NEW d, NEW s, Processed(i, d, s)
    PROVE  Processed(i, d, s)'
  BY DEF Processed, Source

\* Steps that take acknowledgements out of the table of a run, or start a run
\* with an empty one.
LEMMA QueuedStays ==
    ASSUME QueuedTruthful, handled \subseteq handled',
           \A x, d \in Entity : \/ acknowledgements'[x][d] = {}
                               \/ /\ acknowledgements'[x][d]
                                       \subseteq acknowledgements[x][d]
                                  /\ epoch'[x] = epoch[x]
    PROVE  QueuedTruthful'
  <1> SUFFICES ASSUME NEW x \in Entity, NEW d \in Entity,
                      NEW s \in acknowledgements'[x][d]
               PROVE  Processed(Self(x), d, s)'
    BY DEF QueuedTruthful
  <1>1. Self(x)' = Self(x) /\ s \in acknowledgements[x][d]
    BY DEF Self
  <1>2. Processed(Self(x), d, s)
    BY <1>1 DEF QueuedTruthful
  <1>3. \E h \in handled' : h[1] = Self(x)' /\ Source(h[2]) = d /\ h[2].seq = s
    BY <1>1, <1>2 DEF Processed
  <1>. QED  BY <1>3 DEF Processed, Source

LEMMA TruthfulStep == TypeOK /\ AcksTruthful /\ [Next]_vars => AcksTruthful'
  <1> SUFFICES ASSUME TypeOK, AcksTruthful, [Next]_vars PROVE AcksTruthful'
    OBVIOUS
  <1>a. QueuedTruthful /\ SentTruthful
    BY TruthfulForm
  <1>b. (QueuedTruthful' /\ SentTruthful') => AcksTruthful'
    BY DEF AcksTruthful, QueuedTruthful, SentTruthful, Processed
  <1>1. ASSUME NEW e \in Entity, NEW type, NEW dst, NEW kind,
               TypedSend(e, type, dst, kind)
        PROVE  AcksTruthful'
    <2>1. PICK g : Emits(e, g) /\ g.dst = dst /\ g.acks = PiggyBack(e, dst)
      BY <1>1, SendEmits
    <2>2. handled' = handled /\ epoch' = epoch
      BY <1>1 DEF TypedSend, Send, TakeNumber, Flushed
    <2>3. \A x, d \in Entity : acknowledgements'[x][d] \subseteq acknowledgements[x][d]
      BY <1>1 DEF TypedSend, Send, TakeNumber, Flushed, TypeOK
    <2>4. QueuedTruthful'
      BY <1>a, <2>2, <2>3, QueuedStays
    <2>5. \A s \in g.acks : Processed(g.sender, g.dst, s)
      BY <1>a, <2>1 DEF QueuedTruthful, PiggyBack, Emits
    <2>6. SentTruthful'
      BY <1>a, <2>1, <2>2, <2>5 DEF SentTruthful, Processed, Source, Emits
    <2>. QED  BY <1>b, <2>4, <2>6
  <1>2. ASSUME NEW e \in Entity, NEW d \in Entity, SendAcks(e, d)
        PROVE  AcksTruthful'
    <2>1. PICK g : Emits(e, g) /\ g.dst = d /\ g.acks = acknowledgements[e][d]
      BY <1>2, SendAcksEmits
    <2>2. handled' = handled /\ epoch' = epoch
      BY <1>2 DEF SendAcks, TakeNumber, Flushed
    <2>3. \A x, y \in Entity : acknowledgements'[x][y] \subseteq acknowledgements[x][y]
      BY <1>2 DEF SendAcks, TakeNumber, Flushed, TypeOK
    <2>4. QueuedTruthful'
      BY <1>a, <2>2, <2>3, QueuedStays
    <2>5. \A s \in g.acks : Processed(g.sender, g.dst, s)
      BY <1>a, <2>1 DEF QueuedTruthful, Emits
    <2>6. SentTruthful'
      BY <1>a, <2>1, <2>2, <2>5 DEF SentTruthful, Processed, Source, Emits
    <2>. QED  BY <1>b, <2>4, <2>6
  <1>3. ASSUME NEW e \in Entity, NEW p \in net, LinkMessage(e, p)
        PROVE  AcksTruthful'
    <2>1. handled \subseteq handled' /\ epoch' = epoch /\ net' = net
      BY <1>3 DEF LinkMessage, Owed
    <2>2. SentTruthful'
      BY <1>a, <2>1, ProcessedStays DEF SentTruthful
    <2>3. QueuedTruthful'
      <3> SUFFICES ASSUME NEW x \in Entity, NEW d \in Entity,
                          NEW s \in acknowledgements'[x][d]
                   PROVE  Processed(Self(x), d, s)'
        BY DEF QueuedTruthful
      <3>1. Self(x)' = Self(x)
        BY <2>1 DEF Self
      <3>2. CASE s \in acknowledgements[x][d]
        BY <1>a, <2>1, <3>1, <3>2, ProcessedStays DEF QueuedTruthful
      <3>3. CASE s \notin acknowledgements[x][d]
        <4>1. p.type = "RELIABLE" /\ x = e /\ d = Source(p) /\ s = p.seq
          BY <1>3, <3>3, SourceType DEF LinkMessage, Owed, TypeOK
        <4>2. <<Self(e), p>> \in handled'
          BY <1>3, <4>1 DEF LinkMessage, Owed
        <4>. QED  BY <3>1, <4>1, <4>2 DEF Processed, Source
      <3>. QED  BY <3>2, <3>3
    <2>. QED  BY <1>b, <2>2, <2>3
  <1>4. ASSUME NEW e \in Entity, Restart(e) PROVE AcksTruthful'
    <2>1. handled' = handled /\ net' = net
      BY <1>4 DEF Restart
    <2>2. SentTruthful'
      BY <1>a, <2>1 DEF SentTruthful, Processed, Source
    <2>3. \A x, d \in Entity : \/ acknowledgements'[x][d] = {}
                               \/ /\ acknowledgements'[x][d] = acknowledgements[x][d]
                                  /\ epoch'[x] = epoch[x]
      BY <1>4 DEF Restart, TypeOK
    <2>4. QueuedTruthful'
      BY <1>a, <2>1, <2>3, QueuedStays
    <2>. QED  BY <1>b, <2>2, <2>4
  <1>5. ASSUME UNCHANGED <<handled, net, epoch, acknowledgements>>
        PROVE  AcksTruthful'
    BY <1>5, <1>a, <1>b, QueuedStays DEF SentTruthful, Processed, Source
  <1>6. ASSUME NEW e \in Entity, NEW m \in reliable_messages[e],
               RetransmitReliable(e, m)
        PROVE  AcksTruthful'
    BY <1>5, <1>6 DEF RetransmitReliable
  <1>7. Quiet => AcksTruthful'
    BY <1>5 DEF Quiet
  <1>. QED  BY <1>1, <1>2, <1>3, <1>4, <1>6, <1>7, StepCases

\* No acknowledgement is invented or sent to somebody it is not for.
THEOREM AcksAreTruthful == Spec => []AcksTruthful
  <1>1. Init => AcksTruthful
    BY DEF Init, AcksTruthful
  <1>. QED  BY <1>1, TruthfulStep, TypeCorrect, PTL DEF Spec

\* NoAckForgotten is inductive together with: no run to come has processed a
\* message.
HandledByRuns == \A h \in handled : h[1][2] <= epoch[h[1][1]]

LEMMA HandledType ==
    ASSUME TypeOK, NEW h \in handled
    PROVE  /\ h[1][1] \in Entity /\ h[1][2] \in Nat /\ h[1] = <<h[1][1], h[1][2]>>
           /\ h[2] \in net /\ h[2] \in Packet /\ h = <<h[1], h[2]>>
           /\ Source(h[2]) \in Entity
  BY SourceType DEF TypeOK, Endpoint

\* The table of e towards d is emptied into the datagram g.
LEMMA FlushKeeps ==
    ASSUME TypeOK, NoAckForgotten, NEW e \in Entity, NEW g, Emits(e, g),
           handled' = handled,
           \A x, y \in Entity :
              \/ acknowledgements'[x][y] = acknowledgements[x][y]
              \/ x = e /\ y = g.dst /\ g.acks = acknowledgements[x][y]
    PROVE  NoAckForgotten'
  <1> SUFFICES ASSUME NEW h \in handled, h[1] = Self(h[1][1])
               PROVE  \/ h[2].seq \in acknowledgements'[h[1][1]][Source(h[2])]
                      \/ \E p \in net' : /\ p.sender = h[1]
                                       /\ p.dst = Source(h[2])
                                       /\ h[2].seq \in p.acks
    BY DEF NoAckForgotten, Emits, Self, Source
  <1> DEFINE x == h[1][1]
             y == Source(h[2])
  <1>1. x \in Entity /\ y \in Entity
    BY HandledType
  <1>2. CASE \E p \in net : /\ p.sender = h[1]
                            /\ p.dst = Source(h[2])
                            /\ h[2].seq \in p.acks
    BY <1>2 DEF Emits
  <1>3. CASE h[2].seq \in acknowledgements[x][y]
    <2>1. CASE acknowledgements'[x][y] = acknowledgements[x][y]
      BY <1>3, <2>1
    <2>2. CASE x = e /\ y = g.dst /\ g.acks = acknowledgements[x][y]
      <3>1. g \in net' /\ g.sender = h[1] /\ g.dst = Source(h[2])
                       /\ h[2].seq \in g.acks
        BY <1>3, <2>2 DEF Emits
      <3>. QED  BY <3>1
    <2>. QED  BY <1>1, <2>1, <2>2
  <1>. QED  BY <1>2, <1>3 DEF NoAckForgotten

LEMMA ForgottenStep ==
    TypeOK /\ HandledByRuns /\ NoAckForgotten /\ [Next]_vars
        => HandledByRuns' /\ NoAckForgotten'
  <1> SUFFICES ASSUME TypeOK, HandledByRuns, NoAckForgotten, [Next]_vars
               PROVE  HandledByRuns' /\ NoAckForgotten'
    OBVIOUS
  <1>1. ASSUME NEW e \in Entity, NEW type, NEW dst, NEW kind,
               TypedSend(e, type, dst, kind)
        PROVE  HandledByRuns' /\ NoAckForgotten'
    <2>1. PICK g : Emits(e, g) /\ g.dst = dst /\ g.acks = PiggyBack(e, dst)
      BY <1>1, SendEmits
    <2>2. handled' = handled
      BY <1>1 DEF TypedSend, Send, TakeNumber, Flushed
    <2>3. \A x, y \in Entity :
              \/ acknowledgements'[x][y] = acknowledgements[x][y]
              \/ x = e /\ y = g.dst /\ g.acks = acknowledgements[x][y]
      BY <1>1, <2>1 DEF TypedSend, Send, TakeNumber, Flushed, TypeOK, PiggyBack
    <2>4. NoAckForgotten'
      BY <2>1, <2>2, <2>3, FlushKeeps
    <2>. QED  BY <2>1, <2>2, <2>4 DEF HandledByRuns, Emits
  <1>2. ASSUME NEW e \in Entity, NEW d \in Entity, SendAcks(e, d)
        PROVE  HandledByRuns' /\ NoAckForgotten'
    <2>1. PICK g : Emits(e, g) /\ g.dst = d /\ g.acks = acknowledgements[e][d]
      BY <1>2, SendAcksEmits
    <2>2. handled' = handled
      BY <1>2 DEF SendAcks, TakeNumber, Flushed
    <2>3. \A x, y \in Entity :
              \/ acknowledgements'[x][y] = acknowledgements[x][y]
              \/ x = e /\ y = g.dst /\ g.acks = acknowledgements[x][y]
      BY <1>2, <2>1 DEF SendAcks, TakeNumber, Flushed, TypeOK
    <2>4. NoAckForgotten'
      BY <2>1, <2>2, <2>3, FlushKeeps
    <2>. QED  BY <2>1, <2>2, <2>4 DEF HandledByRuns, Emits
  <1>3. ASSUME NEW e \in Entity, NEW p \in net, LinkMessage(e, p)
        PROVE  HandledByRuns' /\ NoAckForgotten'
    <2>1. epoch' = epoch /\ net' = net
          /\ (handled' = handled \/ (p.type = "RELIABLE"
                                     /\ handled' = handled \union {<<Self(e), p>>}))
      BY <1>3 DEF LinkMessage, Owed
    <2>2. HandledByRuns'
      BY <2>1 DEF HandledByRuns, Self, TypeOK
    <2>3. \A x, y \in Entity : acknowledgements[x][y] \subseteq acknowledgements'[x][y]
      BY <1>3 DEF LinkMessage, Owed, TypeOK
    <2>4. p.type = "RELIABLE" => p.seq \in acknowledgements'[e][Source(p)]
      BY <1>3, SourceType DEF LinkMessage, Owed, TypeOK
    <2>5. NoAckForgotten'
      <3> SUFFICES ASSUME NEW h \in handled', h[1] = Self(h[1][1])
                   PROVE  \/ h[2].seq \in acknowledgements'[h[1][1]][Source(h[2])]
                          \/ \E q \in net : /\ q.sender = h[1]
                                          /\ q.dst = Source(h[2])
                                          /\ h[2].seq \in q.acks
        BY <2>1 DEF NoAckForgotten, Self, Source
      <3>1. CASE h \in handled
        BY <2>3, <3>1, HandledType DEF NoAckForgotten
      <3>2. CASE p.type = "RELIABLE" /\ h = <<Self(e), p>>
        BY <2>4, <3>2 DEF Self
      <3>. QED  BY <2>1, <3>1, <3>2
    <2>. QED  BY <2>2, <2>5
  <1>4. ASSUME NEW e \in Entity, Restart(e) PROVE HandledByRuns' /\ NoAckForgotten'
    <2>1. handled' = handled /\ net' = net
      BY <1>4 DEF Restart
    <2>2. ASSUME NEW h \in handled
          PROVE  /\ h[1][2] <= epoch'[h[1][1]]
                 /\ h[1][1] = e => h[1][2] # epoch'[e]
      <3>1. h[1][1] \in Entity /\ h[1][2] \in Nat /\ h[1][2] <= epoch[h[1][1]]
        BY HandledType DEF HandledByRuns
      <3>2. epoch[h[1][1]] \in Nat /\ epoch[e] \in Nat /\ epoch'[e] = epoch[e] + 1
            /\ (h[1][1] # e => epoch'[h[1][1]] = epoch[h[1][1]])
        BY <1>4, <3>1 DEF Restart, TypeOK
      <3>. QED  BY <3>1, <3>2
    <2>3. HandledByRuns'
      BY <2>1, <2>2 DEF HandledByRuns
    <2>4. NoAckForgotten'
      <3> SUFFICES ASSUME NEW h \in handled, h[1] = Self(h[1][1])'
                   PROVE  \/ h[2].seq \in acknowledgements'[h[1][1]][Source(h[2])]
                          \/ \E q \in net : /\ q.sender = h[1]
                                          /\ q.dst = Source(h[2])
                                          /\ h[2].seq \in q.acks
        BY <2>1 DEF NoAckForgotten, Source
      <3>1. h[1][1] \in Entity /\ Source(h[2]) \in Entity
        BY HandledType
      <3>2. h[1][2] = epoch'[h[1][1]]
        BY DEF Self
      <3>3. h[1][1] # e
        BY <2>2, <3>2
      <3>4. h[1] = Self(h[1][1]) /\ acknowledgements'[h[1][1]] = acknowledgements[h[1][1]]
        BY <1>4, <3>1, <3>3 DEF Restart, TypeOK, Self
      <3>. QED  BY <3>4 DEF NoAckForgotten
    <2>. QED  BY <2>3, <2>4
  <1>5. ASSUME UNCHANGED <<handled, net, epoch, acknowledgements>>
        PROVE  HandledByRuns' /\ NoAckForgotten'
    BY <1>5 DEF HandledByRuns, NoAckForgotten, Self, Source
  <1>6. ASSUME NEW e \in Entity, NEW m \in reliable_messages[e],
               RetransmitReliable(e, m)
        PROVE  HandledByRuns' /\ NoAckForgotten'
    BY <1>5, <1>6 DEF RetransmitReliable
  <1>7. Quiet => HandledByRuns' /\ NoAckForgotten'
    BY <1>5 DEF Quiet
  <1>. QED  BY <1>1, <1>2, <1>3, <1>4, <1>6, <1>7, StepCases

\* Piggybacking and the T_c timer lose no acknowledgement.
THEOREM NoAckIsForgotten == Spec => []NoAckForgotten
  <1>1. Init => HandledByRuns /\ NoAckForgotten
    BY DEF Init, HandledByRuns, NoAckForgotten
  <1>. QED  BY <1>1, ForgottenStep, TypeCorrect, PTL DEF Spec

-----------------------------------------------------------------------------
(***************************************************************************)
(* Settlement                                                               *)
(***************************************************************************)

ReliableNames == {Name(p) : p \in ReliablePackets}

\* Every entry of the table of reliable messages is a message that was sent
\* and is not settled, and has an entry only once ...
PendingOpen ==
    \A e \in Entity : \A r \in reliable_messages[e] :
        <<Self(e), r.seq>> \in ReliableNames \ (acked \union failed)

PendingOnce ==
    \A e \in Entity : \A r, s \in reliable_messages[e] : r.seq = s.seq => r = s

SettledWasSent ==
    /\ acked \union failed \subseteq ReliableNames
    /\ acked \intersect failed = {}

\* ... and every message of a running sender has an entry or is settled.
NothingDropped ==
    \A p \in ReliablePackets :
        p.sender = Self(Source(p)) =>
            \/ \E r \in reliable_messages[Source(p)] : r.seq = p.seq
            \/ Name(p) \in acked \union failed

Settlement == PendingOpen /\ PendingOnce /\ SettledWasSent /\ NothingDropped

LEMMA SettlementImplies == TypeOK /\ Settlement => SettledOnce
  <1> SUFFICES ASSUME TypeOK, Settlement PROVE SettledOnce
    OBVIOUS
  <1>1. \A m \in acked \union failed : ~Pending(m)
    <2> SUFFICES ASSUME NEW m \in acked \union failed, NEW e \in Entity,
                        m[1] = Self(e),
                        NEW r \in reliable_messages[e], r.seq = m[2]
                 PROVE  FALSE
      BY DEF Pending
    <2>1. m = <<m[1], m[2]>>
      BY DEF TypeOK
    <2>. QED  BY <2>1 DEF Settlement, PendingOpen
  <1>2. ASSUME NEW p \in ReliablePackets, p.sender = Self(Source(p))
        PROVE  Pending(Name(p)) \/ Name(p) \in acked \union failed
    <2>1. Source(p) \in Entity
      BY SourceType DEF ReliablePackets, TypeOK
    <2>. QED  BY <1>2, <2>1 DEF Settlement, NothingDropped, Pending, Name
  <1>. QED
    BY <1>1, <1>2 DEF SettledOnce, Settlement, SettledWasSent, ReliableNames

\* What the steps below have in common: names only grow, runs do not change.
LEMMA NamesGrow ==
    ASSUME net \subseteq net'
    PROVE  ReliableNames \subseteq ReliableNames'
  BY DEF ReliableNames, ReliablePackets, Name

LEMMA SendSettlement ==
    ASSUME TypeOK, Numbers, Settlement, NEW e \in Entity, NEW type, NEW dst,
           NEW kind, TypedSend(e, type, dst, kind)
    PROVE  Settlement'
  <1>1. PICK g : Emits(e, g) /\ g.type = type
    BY SendEmits
  <1>2. /\ epoch' = epoch /\ acked' = acked /\ failed' = failed
        /\ net' = net \union {g} /\ Name(g) = <<Self(e), sequence_no[e]>>
        /\ Source(g) = e
    BY <1>1 DEF TypedSend, Send, TakeNumber, Flushed, Emits, Name, Self, Source
  <1>3. ReliableNames \subseteq ReliableNames'
        /\ (type = "RELIABLE" => Name(g) \in ReliableNames')
    BY <1>1, <1>2, NamesGrow DEF ReliableNames, ReliablePackets, Name
  <1>4. Name(g) \notin ReliableNames
    BY <1>2, FreshName DEF Numbers, ReliableNames, ReliablePackets
  <1>5. Name(g) \notin acked \union failed
    BY <1>4 DEF Settlement, SettledWasSent
  <1>6. \A x \in Entity : \A r \in reliable_messages'[x] :
           \/ r \in reliable_messages[x]
           \/ type = "RELIABLE" /\ x = e /\ r = [seq |-> sequence_no[e], n |-> 1]
    BY DEF TypedSend, Send, TakeNumber, Flushed, TypeOK
  <1>7. \A x \in Entity : reliable_messages[x] \subseteq reliable_messages'[x]
    BY DEF TypedSend, Send, TakeNumber, Flushed, TypeOK
  <1>8. \A x \in Entity : \A r \in reliable_messages[x] :
           <<Self(x), r.seq>> \in ReliableNames
    BY DEF Settlement, PendingOpen
  <1>9. PendingOpen'
    <2> SUFFICES ASSUME NEW x \in Entity, NEW r \in reliable_messages'[x]
                 PROVE  <<Self(x), r.seq>> \in ReliableNames' \ (acked \union failed)
      BY <1>2 DEF PendingOpen, Self
    <2>. QED  BY <1>2, <1>3, <1>5, <1>6 DEF Settlement, PendingOpen
  <1>10. PendingOnce'
    <2>1. \A r \in reliable_messages[e] : r.seq # sequence_no[e]
      BY <1>2, <1>4, <1>8
    <2>. QED  BY <1>6, <2>1 DEF Settlement, PendingOnce
  <1>11. SettledWasSent'
    BY <1>2, <1>3 DEF Settlement, SettledWasSent
  <1>12. NothingDropped'
    <2> SUFFICES ASSUME NEW p \in net', p.type = "RELIABLE",
                        p.sender = Self(Source(p))
                 PROVE  \/ \E r \in reliable_messages'[Source(p)] : r.seq = p.seq
                        \/ Name(p) \in acked \union failed
      BY <1>2 DEF NothingDropped, ReliablePackets, Self, Source, Name
    <2>1. CASE p \in net
      <3>1. Source(p) \in Entity
        BY <2>1, SourceType DEF TypeOK
      <3>. QED  BY <1>7, <2>1, <3>1 DEF Settlement, NothingDropped, ReliablePackets
    <2>2. CASE p = g
      <3>1. [seq |-> sequence_no[e], n |-> 1] \in reliable_messages'[e]
        BY <1>1, <2>2 DEF TypedSend, Send, TakeNumber, Flushed, TypeOK
      <3>. QED  BY <1>1, <1>2, <2>2, <3>1 DEF Emits
    <2>. QED  BY <1>2, <2>1, <2>2
  <1>. QED  BY <1>9, <1>10, <1>11, <1>12 DEF Settlement

LEMMA SendAcksSettlement ==
    ASSUME TypeOK, Settlement, NEW e \in Entity, NEW d \in Entity, SendAcks(e, d)
    PROVE  Settlement'
  <1>1. PICK g : Emits(e, g) /\ g.type = "UNRELIABLE"
    BY SendAcksEmits
  <1>2. ReliablePackets' = ReliablePackets
    BY <1>1 DEF ReliablePackets, Emits
  <1>3. ReliableNames' = ReliableNames
    BY <1>2 DEF ReliableNames, Name
  <1>. QED
    BY <1>2, <1>3 DEF SendAcks, TakeNumber, Flushed, Settlement, PendingOpen, PendingOnce,
                      SettledWasSent, NothingDropped, Self, Source, Name

\* One or several entries of e leave the table and are settled at once.
LEMMA SettleSome ==
    ASSUME TypeOK, Settlement, NEW e \in Entity,
           NEW gone \in SUBSET reliable_messages[e],
           UNCHANGED <<net, epoch>>,
           reliable_messages' = [reliable_messages EXCEPT ![e] = @ \ gone],
           \/ /\ acked' = acked \union {<<Self(e), m.seq>> : m \in gone}
              /\ failed' = failed
           \/ /\ failed' = failed \union {<<Self(e), m.seq>> : m \in gone}
              /\ acked' = acked
    PROVE  Settlement'
  <1> DEFINE new == {<<Self(e), m.seq>> : m \in gone}
  <1>1. acked' \union failed' = (acked \union failed) \union new
    OBVIOUS
  <1>2. ReliableNames' = ReliableNames /\ ReliablePackets' = ReliablePackets
    BY DEF ReliableNames, ReliablePackets, Name
  <1>3. new \subseteq ReliableNames \ (acked \union failed)
    BY DEF Settlement, PendingOpen
  <1>4. \A x \in Entity : /\ reliable_messages'[x] \subseteq reliable_messages[x]
                          /\ x # e => reliable_messages'[x] = reliable_messages[x]
    BY DEF TypeOK
  <1>5. reliable_messages'[e] = reliable_messages[e] \ gone
    BY DEF TypeOK
  <1>6. SettledWasSent'
    BY <1>2, <1>3 DEF Settlement, SettledWasSent
  <1>7. PendingOnce'
    BY <1>4 DEF Settlement, PendingOnce
  <1>8. PendingOpen'
    <2> SUFFICES ASSUME NEW x \in Entity, NEW r \in reliable_messages'[x]
                 PROVE  <<Self(x), r.seq>> \in
                            ReliableNames \ ((acked \union failed) \union new)
      BY <1>1, <1>2 DEF PendingOpen, Self
    <2>1. <<Self(x), r.seq>> \in ReliableNames \ (acked \union failed)
      BY <1>4 DEF Settlement, PendingOpen
    <2>2. <<Self(x), r.seq>> \notin new
      <3> SUFFICES ASSUME NEW m \in gone, <<Self(x), r.seq>> = <<Self(e), m.seq>>
                   PROVE  FALSE
        OBVIOUS
      <3>1. x = e /\ r.seq = m.seq
        BY DEF Self
      <3>2. r \in reliable_messages[e] \ gone /\ m \in reliable_messages[e]
        BY <1>5, <3>1
      <3>. QED  BY <3>1, <3>2 DEF Settlement, PendingOnce
    <2>. QED  BY <2>1, <2>2
  <1>9. NothingDropped'
    <2> SUFFICES ASSUME NEW p \in ReliablePackets, p.sender = Self(Source(p))
                 PROVE  \/ \E r \in reliable_messages'[Source(p)] : r.seq = p.seq
                        \/ Name(p) \in (acked \union failed) \union new
      BY <1>1, <1>2 DEF NothingDropped, Self, Source, Name
    <2>1. Source(p) \in Entity
      BY SourceType DEF ReliablePackets, TypeOK
    <2>2. CASE Name(p) \in acked \union failed
      BY <2>2
    <2>3. ASSUME NEW r \in reliable_messages[Source(p)], r.seq = p.seq
          PROVE  \/ \E q \in reliable_messages'[Source(p)] : q.seq = p.seq
                 \/ Name(p) \in new
      <3>1. CASE Source(p) = e /\ r \in gone
        BY <2>3, <3>1 DEF Name
      <3>2. CASE ~(Source(p) = e /\ r \in gone)
        BY <1>4, <1>5, <2>1, <2>3, <3>2
      <3>. QED  BY <3>1, <3>2
    <2>. QED  BY <2>2, <2>3 DEF Settlement, NothingDropped
  <1>. QED  BY <1>6, <1>7, <1>8, <1>9 DEF Settlement

LEMMA RetransmitSettlement ==
    ASSUME TypeOK, Settlement, NEW e \in Entity, NEW m \in reliable_messages[e],
           RetransmitReliable(e, m)
    PROVE  Settlement'
  <1>1. UNCHANGED <<net, epoch, acked>>
    BY DEF RetransmitReliable
  <1>2. CASE /\ reliable_messages' = [reliable_messages EXCEPT ![e] = @ \ {m}]
             /\ failed' = failed \union {<<Self(e), m.seq>>}
    <2> DEFINE gone == {m}
    <2>1. failed' = failed \union {<<Self(e), r.seq>> : r \in gone}
      BY <1>2
    <2>2. reliable_messages' = [reliable_messages EXCEPT ![e] = @ \ gone]
      BY <1>2
    <2>3. gone \in SUBSET reliable_messages[e]
      OBVIOUS
    <2>. HIDE DEF gone
    <2>. QED  BY <1>1, <2>1, <2>2, <2>3, SettleSome
  <1>3. CASE /\ reliable_messages' = [reliable_messages EXCEPT
                   ![e] = (@ \ {m}) \union {[seq |-> m.seq, n |-> 2]}]
             /\ failed' = failed
    <2> DEFINE k == [seq |-> m.seq, n |-> 2]
    <2>1. \A x \in Entity : x # e => reliable_messages'[x] = reliable_messages[x]
      BY <1>3 DEF TypeOK
    <2>2. reliable_messages'[e] = (reliable_messages[e] \ {m}) \union {k}
      BY <1>3 DEF TypeOK
    <2>3. k.seq = m.seq
      OBVIOUS
    <2>. HIDE DEF k
    <2>4. ReliableNames' = ReliableNames /\ ReliablePackets' = ReliablePackets
      BY <1>1 DEF ReliableNames, ReliablePackets, Name
    <2>5. PendingOpen'
      <3> SUFFICES ASSUME NEW x \in Entity, NEW r \in reliable_messages'[x]
                   PROVE  <<Self(x), r.seq>> \in ReliableNames \ (acked \union failed)
        BY <1>1, <1>3, <2>4 DEF PendingOpen, Self
      <3>. QED  BY <2>1, <2>2, <2>3 DEF Settlement, PendingOpen
    <2>6. PendingOnce'
      <3> SUFFICES ASSUME NEW x \in Entity, NEW r \in reliable_messages'[x],
                          NEW s \in reliable_messages'[x], r.seq = s.seq
                   PROVE  r = s
        BY DEF PendingOnce
      <3>1. CASE x # e
        BY <2>1, <3>1 DEF Settlement, PendingOnce
      <3>2. CASE x = e
        BY <2>2, <2>3, <3>2 DEF Settlement, PendingOnce
      <3>. QED  BY <3>1, <3>2
    <2>7. SettledWasSent'
      BY <1>1, <1>3, <2>4 DEF Settlement, SettledWasSent
    <2>8. NothingDropped'
      <3> SUFFICES ASSUME NEW p \in ReliablePackets, p.sender = Self(Source(p)),
                          Name(p) \notin acked \union failed
                   PROVE  \E r \in reliable_messages'[Source(p)] : r.seq = p.seq
        BY <1>1, <1>3, <2>4 DEF NothingDropped, Self, Source, Name
      <3>1. Source(p) \in Entity
        BY SourceType DEF ReliablePackets, TypeOK
      <3>2. PICK r \in reliable_messages[Source(p)] : r.seq = p.seq
        BY DEF Settlement, NothingDropped
      <3>. QED  BY <2>1, <2>2, <2>3, <3>1, <3>2
    <2>. QED  BY <2>5, <2>6, <2>7, <2>8 DEF Settlement
  <1>. QED  BY <1>2, <1>3, RetransmitEffect

LEMMA RestartSettlement ==
    ASSUME TypeOK, Numbers, Settlement, NEW e \in Entity, Restart(e)
    PROVE  Settlement'
  <1>1. UNCHANGED <<net, acked, failed>>
    BY DEF Restart
  <1>2. ReliableNames' = ReliableNames /\ ReliablePackets' = ReliablePackets
    BY <1>1 DEF ReliableNames, ReliablePackets, Name
  <1>3. \A x \in Entity : \/ x = e /\ reliable_messages'[x] = {}
                          \/ /\ x # e
                             /\ reliable_messages'[x] = reliable_messages[x]
                             /\ epoch'[x] = epoch[x]
    BY DEF Restart, TypeOK
  <1>4. PendingOpen'
    <2> SUFFICES ASSUME NEW x \in Entity, NEW r \in reliable_messages'[x]
                 PROVE  <<<<x, epoch'[x]>>, r.seq>> \in ReliableNames \ (acked \union failed)
      BY <1>1, <1>2 DEF PendingOpen, Self
    <2>. QED  BY <1>3 DEF Settlement, PendingOpen, Self
  <1>5. PendingOnce'
    BY <1>3 DEF Settlement, PendingOnce
  <1>6. SettledWasSent'
    BY <1>1, <1>2 DEF Settlement, SettledWasSent
  <1>7. NothingDropped'
    <2> SUFFICES ASSUME NEW p \in ReliablePackets,
                        p.sender = <<Source(p), epoch'[Source(p)]>>
                 PROVE  \/ \E r \in reliable_messages'[Source(p)] : r.seq = p.seq
                        \/ Name(p) \in acked \union failed
      BY <1>1, <1>2 DEF NothingDropped, Self, Source, Name
    <2>1. /\ Source(p) \in Entity /\ p.sender[2] \in Nat
          /\ p.sender[2] <= epoch[Source(p)]
      BY SourceType DEF ReliablePackets, TypeOK, Numbers, NumbersBelow
    <2>2. Source(p) # e
      <3>1. epoch'[e] = epoch[e] + 1 /\ epoch[e] \in Nat
        BY DEF Restart, TypeOK
      <3>. QED  BY <2>1, <3>1
    <2>. QED  BY <1>3, <2>1, <2>2 DEF Settlement, NothingDropped, Self
  <1>. QED  BY <1>4, <1>5, <1>6, <1>7 DEF Settlement

LEMMA SettlementStep ==
    TypeOK /\ Numbers /\ Settlement /\ [Next]_vars => Settlement'
  <1> SUFFICES ASSUME TypeOK, Numbers, Settlement, [Next]_vars PROVE Settlement'
    OBVIOUS
  <1>1. ASSUME NEW e \in Entity, NEW type, NEW dst, NEW kind,
               TypedSend(e, type, dst, kind)
        PROVE  Settlement'
    BY <1>1, SendSettlement
  <1>2. ASSUME NEW e \in Entity, NEW d \in Entity, SendAcks(e, d) PROVE Settlement'
    BY <1>2, SendAcksSettlement
  <1>3. ASSUME NEW e \in Entity, NEW p \in net, LinkMessage(e, p) PROVE Settlement'
    <2> DEFINE gone == SettledBy(e, p)
    <2>1. gone \in SUBSET reliable_messages[e]
      BY DEF SettledBy
    <2>2. /\ UNCHANGED <<net, epoch, failed>>
          /\ reliable_messages' = [reliable_messages EXCEPT ![e] = @ \ gone]
          /\ acked' = acked \union {<<Self(e), m.seq>> : m \in gone}
      BY <1>3 DEF LinkMessage, Owed
    <2>. HIDE DEF gone
    <2>. QED  BY <2>1, <2>2, SettleSome
  <1>4. ASSUME NEW e \in Entity, NEW m \in reliable_messages[e],
               RetransmitReliable(e, m)
        PROVE  Settlement'
    BY <1>4, RetransmitSettlement
  <1>5. ASSUME NEW e \in Entity, Restart(e) PROVE Settlement'
    BY <1>5, RestartSettlement
  <1>6. Quiet => Settlement'
    BY DEF Quiet, Settlement, PendingOpen, PendingOnce, SettledWasSent,
           NothingDropped, ReliableNames, ReliablePackets, Self, Source, Name
  <1>. QED  BY <1>1, <1>2, <1>3, <1>4, <1>5, <1>6, StepCases

LEMMA SettlementInit == Init => Settlement
  BY DEF Init, Settlement, PendingOpen, PendingOnce, SettledWasSent,
         NothingDropped, ReliableNames, ReliablePackets

\* A reliable message of a running sender is waiting, acknowledged or failed:
\* one of them, and the answer is final.
THEOREM MessagesSettleOnce == Spec => []SettledOnce
  <1>. QED
    BY SettlementInit, SettlementStep, SettlementImplies, NumbersInvariant,
       TypeCorrect, PTL DEF Spec
=============================================================================
