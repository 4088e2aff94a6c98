------------------------- MODULE MTransportDelivery -------------------------
(***************************************************************************)
(* What an acknowledgement is worth.  In a session that is not restarted,    *)
(* and in which an acknowledgement can be for one sender only and from one   *)
(* receiver only, the transport implements the reliable delivery service.    *)
(* The assumptions are needed, see the run crossed.                          *)
(***************************************************************************)
EXTENDS MTransportProofs

\* At most two entities share the session.
TwoParties == \A x, y, z \in Entity : x = y \/ y = z \/ x = z

\* One of any number of entities sends reliably, to the sockets of entities.
OneSender == SendUnicast /\ \A x, y \in ReliableSender : x = y

Unmistaken == TwoParties \/ OneSender

\* Nobody is restarted, nobody is in its own table of known entities, and a
\* reliable message is addressed to one entity other than its sender, which
\* does not process it itself.
FirstRuns == \A e \in Entity : epoch[e] = 0

ToAnother ==
    /\ \A e \in Entity : entities[e][e] = NoEntity
    /\ \A p \in ReliablePackets : /\ p.dst \in Entity
                                  /\ p.dst # Source(p)
                                  /\ p.kind = "app"
                                  /\ p.seq < MaxSeq
    /\ \A h \in handled : h[2] \in ReliablePackets /\ Source(h[2]) # h[1][1]

Peers == FirstRuns /\ ToAnother

\* What is known of an entity is a socket of its own.  Reliable messages are of
\* those who may send them and, where unicast is allowed, come to nobody but
\* their destination.
Addressed ==
    /\ \A x, y \in Entity : entities[x][y] = NoEntity \/ entities[x][y][1] = y
    /\ \A p \in ReliablePackets :
           /\ Source(p) \in ReliableSender
           /\ SendUnicast => p.to # MULTICAST /\ p.to[1] = p.dst
    /\ SendUnicast => \A h \in handled : h[1][1] = h[2].dst

LEMMA PeersStep ==
    ASSUME MaxRestart = 0, TypeOK, Peers, [Next]_vars
    PROVE  Peers'
  <1>1. ASSUME NEW e \in Entity, NEW type, NEW dst, NEW kind,
               TypedSend(e, type, dst, kind)
        PROVE  Peers'
    <2>1. PICK g : Emits(e, g) /\ g.type = type /\ g.dst = dst /\ g.kind = kind
      BY <1>1, SendEmits
    <2>2. entities' = entities /\ handled' = handled /\ epoch' = epoch
      BY <1>1 DEF TypedSend, Send
    <2>3. Source(g) = e
      BY <2>1 DEF Emits, Self, Source
    <2>4. g.type = "RELIABLE" =>
             g.dst \in Entity /\ g.dst # e /\ g.kind = "app" /\ g.seq < MaxSeq
      BY <1>1, <2>1 DEF Peers, ToAnother, TypedSend, Send, Emits
    <2>5. \A p \in ReliablePackets' : p \in ReliablePackets \/ (p = g /\ g.type = "RELIABLE")
      BY <2>1 DEF ReliablePackets, Emits
    <2>6. ReliablePackets \subseteq ReliablePackets'
      BY <2>1 DEF ReliablePackets, Emits
    <2>. QED
      BY <2>2, <2>3, <2>4, <2>5, <2>6 DEF Peers, FirstRuns, ToAnother, Source
  <1>2. ASSUME NEW e \in Entity, NEW d \in Entity, SendAcks(e, d) PROVE Peers'
    <2>1. PICK g : Emits(e, g) /\ g.type = "UNRELIABLE"
      BY <1>2, SendAcksEmits
    <2>2. ReliablePackets' = ReliablePackets
      BY <2>1 DEF ReliablePackets, Emits
    <2>. QED
      BY <1>2, <2>2 DEF SendAcks, Peers, FirstRuns, ToAnother, Source
  <1>3. ASSUME NEW e \in Entity, NEW p \in net, LinkMessage(e, p) PROVE Peers'
    <2>1. ReliablePackets' = ReliablePackets /\ epoch' = epoch
      BY <1>3 DEF LinkMessage, ReliablePackets
    <2>2. \A x \in Entity : entities'[x][x] = NoEntity
      BY <1>3, SourceType DEF LinkMessage, Peers, ToAnother, TypeOK
    <2>3. \A h \in handled' : \/ h \in handled
                              \/ h = <<Self(e), p>> /\ p.type = "RELIABLE"
      BY <1>3 DEF LinkMessage
    <2>4. \A h \in handled' : h[2] \in ReliablePackets /\ Source(h[2]) # h[1][1]
      BY <1>3, <2>3 DEF Peers, ToAnother, LinkMessage, ReliablePackets, Self
    <2>. QED  BY <2>1, <2>2, <2>4 DEF Peers, FirstRuns, ToAnother, Source
  <1>4. ASSUME NEW e \in Entity, NEW m \in reliable_messages[e],
               RetransmitReliable(e, m)
        PROVE  Peers'
    BY <1>4 DEF RetransmitReliable, Peers, FirstRuns, ToAnother, Source,
                ReliablePackets
  <1>5. ASSUME NEW e \in Entity, Restart(e) PROVE Peers'
    BY <1>5 DEF Restart, Peers, FirstRuns
  <1>6. Quiet => Peers'
    <2> SUFFICES ASSUME Quiet PROVE Peers'
      OBVIOUS
    <2>1. \A x \in Entity : entities'[x][x] = NoEntity
      BY DEF Quiet, Peers, ToAnother
    <2>. QED
      BY <2>1 DEF Quiet, Peers, FirstRuns, ToAnother, Source, ReliablePackets
  <1>. QED  BY <1>1, <1>2, <1>3, <1>4, <1>5, <1>6, StepCases

LEMMA AddressedStep ==
    ASSUME TypeOK, Addressed, [Next]_vars
    PROVE  Addressed'
  <1>1. ASSUME NEW e \in Entity, NEW type, NEW dst, NEW kind,
               TypedSend(e, type, dst, kind)
        PROVE  Addressed'
    <2>1. PICK g : /\ Emits(e, g) /\ g.type = type /\ g.dst = dst
                   /\ g.to = Route(e, dst)
      BY <1>1, SendEmits
    <2>2. entities' = entities /\ handled' = handled
      BY <1>1 DEF TypedSend, Send
    <2>3. ASSUME g.type = "RELIABLE"
          PROVE  /\ Source(g) \in ReliableSender
                 /\ SendUnicast => g.to # MULTICAST /\ g.to[1] = g.dst
      <3>1. /\ e \in ReliableSender /\ dst \in Entity
            /\ entities[e][dst] # NoEntity
        BY <1>1, <2>1, <2>3 DEF TypedSend
      <3>2. Source(g) = e
        BY <2>1 DEF Emits, Self, Source
      <3>3. entities[e][dst] \in Endpoint /\ entities[e][dst][1] = dst
        BY <3>1 DEF TypeOK, Addressed
      <3>4. entities[e][dst] # MULTICAST
        BY <3>3, TransportAssumption
      <3>. QED  BY <2>1, <3>1, <3>2, <3>3, <3>4 DEF Route
    <2>4. \A p \in ReliablePackets' : p \in ReliablePackets \/ (p = g /\ g.type = "RELIABLE")
      BY <2>1 DEF ReliablePackets, Emits
    <2>. QED  BY <2>2, <2>3, <2>4 DEF Addressed, Source
  <1>2. ASSUME NEW e \in Entity, NEW d \in Entity, SendAcks(e, d) PROVE Addressed'
    <2>1. PICK g : Emits(e, g) /\ g.type = "UNRELIABLE"
      BY <1>2, SendAcksEmits
    <2>2. ReliablePackets' = ReliablePackets
      BY <2>1 DEF ReliablePackets, Emits
    <2>. QED  BY <1>2, <2>2 DEF SendAcks, Addressed, Source
  <1>3. ASSUME NEW e \in Entity, NEW p \in net, LinkMessage(e, p) PROVE Addressed'
    <2>1. ReliablePackets' = ReliablePackets
      BY <1>3 DEF LinkMessage, ReliablePackets
    <2>2. \A x, y \in Entity : entities'[x][y] = NoEntity \/ entities'[x][y][1] = y
      <3>1. Source(p) \in Entity /\ p.sender[1] = Source(p)
        BY SourceType DEF TypeOK, Source
      <3>2. ASSUME NEW x \in Entity, NEW y \in Entity
            PROVE  \/ entities'[x][y] = entities[x][y]
                   \/ entities'[x][y] = p.sender /\ y = Source(p)
        BY <1>3, <3>1 DEF LinkMessage, TypeOK
      <3>. QED  BY <3>1, <3>2 DEF Addressed
    <2>3. ASSUME SendUnicast, NEW h \in handled' PROVE h[1][1] = h[2].dst
      <3>1. CASE h \in handled
        BY <2>3, <3>1 DEF Addressed
      <3>2. CASE h = <<Self(e), p>> /\ p.type = "RELIABLE"
        <4>1. p \in ReliablePackets /\ p.to \in {MULTICAST, Self(e)}
          BY <1>3, <3>2 DEF LinkMessage, ReliablePackets
        <4>2. p.to = Self(e) /\ p.to[1] = p.dst
          BY <2>3, <4>1 DEF Addressed
        <4>. QED  BY <3>2, <4>2
      <3>. QED  BY <1>3, <2>3, <3>1, <3>2 DEF LinkMessage
    <2>. QED  BY <2>1, <2>2, <2>3 DEF Addressed, Source
  <1>4. ASSUME NEW e \in Entity, NEW m \in reliable_messages[e],
               RetransmitReliable(e, m)
        PROVE  Addressed'
    BY <1>4 DEF RetransmitReliable, Addressed, Source, ReliablePackets
  <1>5. ASSUME NEW e \in Entity, Restart(e) PROVE Addressed'
    <2>1. \A x, y \in Entity : entities'[x][y] \in {entities[x][y], NoEntity}
      BY <1>5 DEF Restart, TypeOK
    <2>. QED  BY <1>5, <2>1 DEF Restart, Addressed, Source, ReliablePackets
  <1>6. Quiet => Addressed'
    BY DEF Quiet, Addressed, Source, ReliablePackets
  <1>. QED  BY <1>1, <1>2, <1>3, <1>4, <1>5, <1>6, StepCases

\* The heart of the matter: what an arriving acknowledgement settles was
\* delivered.  In a session of two the only other entity is both the one that
\* acknowledges and the one the message was for; when there is one sender, it
\* is the sender of what was acknowledged, and what comes by unicast is
\* acknowledged by its destination.
LEMMA SettledByWasDelivered ==
    ASSUME Unmistaken, TypeOK, Numbers, AcksTruthful, Settlement, Peers, Addressed,
           NEW e \in Entity, NEW p \in net, LinkMessage(e, p),
           NEW m \in SettledBy(e, p)
    PROVE  \E q \in ReliablePackets : Name(q) = <<Self(e), m.seq>> /\ Delivered(q)
  <1>1. m \in reliable_messages[e] /\ m.seq \in p.acks
    BY DEF SettledBy
  <1>2. PICK h \in handled : /\ h[1] = p.sender
                             /\ Source(h[2]) = p.dst
                             /\ h[2].seq = m.seq
    BY <1>1 DEF AcksTruthful
  <1> DEFINE q == h[2]
             d == h[1][1]
  <1>3. /\ d \in Entity /\ Source(q) \in Entity /\ q \in Packet
        /\ q \in ReliablePackets /\ Source(q) # d
    BY HandledType DEF Peers, ToAnother
  <1>4. d = Source(p) /\ d # e
    BY <1>2 DEF LinkMessage, Source
  <1>5. Source(q) = e
    <2>1. CASE TwoParties
      BY <1>3, <1>4, <2>1 DEF TwoParties
    <2>2. CASE OneSender
      <3>1. PICK r \in ReliablePackets : Name(r) = <<Self(e), m.seq>>
        BY <1>1 DEF Settlement, PendingOpen, ReliableNames
      <3>2. Source(r) = e
        BY <3>1 DEF Name, Source, Self
      <3>. QED  BY <1>3, <2>2, <3>1, <3>2 DEF OneSender, Addressed
    <2>. QED  BY <2>1, <2>2 DEF Unmistaken
  <1>6. q.dst = d
    <2>1. CASE TwoParties
      BY <1>3, <1>4, <1>5, <2>1 DEF TwoParties, Peers, ToAnother
    <2>2. CASE OneSender
      BY <2>2 DEF OneSender, Addressed
    <2>. QED  BY <2>1, <2>2 DEF Unmistaken
  <1>7. q.sender = Self(e)
    <2>1. q.sender = <<e, q.sender[2]>> /\ q.sender[2] \in Nat
      BY <1>3, <1>5, SourceType
    <2>2. q.sender[2] <= epoch[e] /\ epoch[e] = 0
      BY <1>3, <1>5 DEF Numbers, NumbersBelow, Peers, FirstRuns, ReliablePackets
    <2>. QED  BY <2>1, <2>2 DEF Self
  <1>8. Delivered(q)
    BY <1>3, <1>6 DEF Delivered, PassedToApplication, Peers, ToAnother
  <1>. QED  BY <1>2, <1>3, <1>7, <1>8 DEF Name

-----------------------------------------------------------------------------
(***************************************************************************)
(* The refinement, step by step                                             *)
(***************************************************************************)

DeliveredNames == {Name(p) : p \in {q \in ReliablePackets : Delivered(q)}}

\* The invariants of the session, together.
Session == TypeOK /\ Numbers /\ AcksTruthful /\ Settlement /\ Peers /\ Addressed

LEMMA SessionStep ==
    ASSUME MaxRestart = 0
    PROVE  Session /\ [Next]_vars => Session'
  <1>1. Session /\ [Next]_vars => TypeOK'
    BY TypeStep DEF Session
  <1>. QED
    BY <1>1, NumbersStep, TruthfulStep, SettlementStep, PeersStep, AddressedStep
       DEF Session

LEMMA SessionInit == Init => Session
  <1>1. Init => Numbers /\ AcksTruthful
    BY DEF Init, Numbers, NumbersBelow, SeqIdentifiesPacket, AcksTruthful
  <1>2. Init => Peers /\ Addressed
    BY DEF Init, Peers, FirstRuns, ToAnother, Addressed, ReliablePackets
  <1>3. Init => TypeOK
    BY DEF Init, TypeOK
  <1>. QED  BY <1>1, <1>2, <1>3, SettlementInit DEF Session

\* Steps that neither send a reliable message, nor receive one, nor settle one
\* are not visible to the service.
LEMMA Invisible ==
    ASSUME ReliablePackets' = ReliablePackets,
           UNCHANGED <<handled, acked, failed>>
    PROVE  UNCHANGED RD!vars
  BY DEF RD!vars, Delivered, PassedToApplication, Name

\* The name of a reliable message is one of the messages of the service.
LEMMA NameIsMessage ==
    ASSUME Session, NEW p \in ReliablePackets
    PROVE  Name(p) \in (Entity \X (0 .. MaxRestart)) \X (0 .. MaxSeq - 1)
  <1>1. p \in Packet /\ p \in net
    BY DEF Session, ReliablePackets, TypeOK
  <1>2. /\ Source(p) \in Entity /\ p.sender[2] \in Nat
        /\ p.sender = <<Source(p), p.sender[2]>>
    BY <1>1, SourceType
  <1>3. p.sender[2] <= 0
    BY <1>1, <1>2 DEF Session, Numbers, NumbersBelow, Peers, FirstRuns
  <1>4. p.seq \in 0 .. MaxSeq - 1
    BY <1>1, TransportAssumption DEF Session, Peers, ToAnother, Packet
  <1>5. p.sender[2] \in 0 .. MaxRestart
    BY <1>2, <1>3, TransportAssumption
  <1>. QED  BY <1>2, <1>4, <1>5 DEF Name

LEMMA SendRefines ==
    ASSUME Session, NEW e \in Entity, NEW type, NEW dst, NEW kind,
           TypedSend(e, type, dst, kind), Session'
    PROVE  [RD!Next]_RD!vars
  <1>1. PICK g : Emits(e, g) /\ g.type = type
    BY SendEmits DEF Session
  <1>2. UNCHANGED <<handled, acked, failed>>
    BY DEF TypedSend, Send
  <1>3. CASE type = "UNRELIABLE"
    <2>1. ReliablePackets' = ReliablePackets
      BY <1>1, <1>3 DEF Emits, ReliablePackets
    <2>. QED  BY <1>2, <2>1, Invisible
  <1>4. CASE type = "RELIABLE"
    <2>1. ReliablePackets' = ReliablePackets \union {g}
      BY <1>1, <1>4 DEF Emits, ReliablePackets
    <2>2. ReliableNames' = ReliableNames \union {Name(g)}
      BY <2>1 DEF ReliableNames, Name
    <2>3. Name(g) \notin ReliableNames
      BY <1>1, FreshName DEF Session, Numbers, ReliableNames, ReliablePackets,
                             Emits, Name
    <2>4. g \notin ReliablePackets
      BY <2>3 DEF ReliableNames
    <2>5. \A h \in handled : h[2] # g
      BY <2>4 DEF Session, Peers, ToAnother
    <2>6. {q \in ReliablePackets' : Delivered(q)'} =
            {q \in ReliablePackets : Delivered(q)}
      BY <1>2, <2>1, <2>5 DEF Delivered, PassedToApplication
    <2>7. DeliveredNames' = DeliveredNames
      BY <2>6 DEF DeliveredNames, Name
    <2>8. Name(g) \in (Entity \X (0 .. MaxRestart)) \X (0 .. MaxSeq - 1)
      <3>1. Name(g) = <<<<e, epoch[e]>>, sequence_no[e]>>
        BY <1>1 DEF Emits, Name, Self
      <3>2. epoch[e] \in 0 .. MaxRestart
        BY TransportAssumption DEF Session, Peers, FirstRuns
      <3>3. sequence_no[e] \in 0 .. MaxSeq - 1
        BY TransportAssumption DEF TypedSend, Send, Session, TypeOK
      <3>. QED  BY <3>1, <3>2, <3>3
    <2>9. RD!Submit(Name(g))
      BY <1>2, <2>2, <2>3, <2>7 DEF RD!Submit, ReliableNames, DeliveredNames
    <2>. QED  BY <2>8, <2>9 DEF RD!Next
  <1>. QED  BY <1>3, <1>4 DEF TypedSend

LEMMA ReceiveRefines ==
    ASSUME Unmistaken, Session, NEW e \in Entity, NEW p \in net, LinkMessage(e, p)
    PROVE  [RD!Next]_RD!vars
  <1> DEFINE arrived == {Name(q) : q \in {r \in {p} : /\ p.type = "RELIABLE"
                                                     /\ p.dst = e
                                                     /\ PassedToApplication(e, p)}}
             answered == {<<Self(e), m.seq>> : m \in SettledBy(e, p)}
  <1>1. ReliablePackets' = ReliablePackets
    BY DEF LinkMessage, ReliablePackets
  <1>2. ReliableNames' = ReliableNames
    BY <1>1 DEF ReliableNames, Name
  <1>3. arrived \in SUBSET ReliableNames
    BY DEF ReliableNames, ReliablePackets
  <1>4. answered \in SUBSET (DeliveredNames \ (acked \union failed))
    <2> SUFFICES ASSUME NEW m \in SettledBy(e, p)
                 PROVE  <<Self(e), m.seq>> \in DeliveredNames \ (acked \union failed)
      OBVIOUS
    <2>1. <<Self(e), m.seq>> \in DeliveredNames
      BY SettledByWasDelivered DEF Session, DeliveredNames
    <2>2. m \in reliable_messages[e]
      BY DEF SettledBy
    <2>3. <<Self(e), m.seq>> \notin acked \union failed
      BY <2>2 DEF Session, Settlement, PendingOpen
    <2>. QED  BY <2>1, <2>3
  <1>5. DeliveredNames' = DeliveredNames \union arrived
    <2>1. ASSUME NEW q \in ReliablePackets
          PROVE  Delivered(q)' <=> \/ Delivered(q)
                                  \/ /\ q = p /\ p.type = "RELIABLE" /\ p.dst = e
                                     /\ PassedToApplication(e, p)
      <3>1. p.type = "RELIABLE" => handled' = handled \union {<<Self(e), p>>}
        BY DEF LinkMessage
      <3>2. p.type # "RELIABLE" => handled' = handled
        BY DEF LinkMessage
      <3> DEFINE App == PassedToApplication(q.dst, q)
      <3>3. Delivered(q) <=> App /\ \E h \in handled : h[2] = q /\ h[1][1] = q.dst
        BY DEF Delivered
      <3>4. Delivered(q)' <=> App /\ \E h \in handled' : h[2] = q /\ h[1][1] = q.dst
        BY DEF Delivered, PassedToApplication
      <3>5. q = p /\ p.dst = e => (App <=> PassedToApplication(e, p))
        OBVIOUS
      <3>. HIDE DEF App
      <3>6. CASE p.type # "RELIABLE"
        BY <3>2, <3>3, <3>4, <3>6
      <3>7. CASE p.type = "RELIABLE"
        <4> DEFINE new == <<Self(e), p>>
        <4>1. new[2] = p /\ new[1][1] = e
          BY DEF Self
        <4>2. handled' = handled \union {new}
          BY <3>1, <3>7
        <4>. HIDE DEF new
        <4>. QED  BY <3>3, <3>4, <3>5, <3>7, <4>1, <4>2
      <3>. QED  BY <3>6, <3>7
    <2>2. p.type = "RELIABLE" => p \in ReliablePackets
      BY DEF ReliablePackets
    <2>. QED  BY <1>1, <2>1, <2>2 DEF DeliveredNames, Name
  <1>6. acked' = acked \union answered /\ failed' = failed
    BY DEF LinkMessage
  <1>7. answered \in SUBSET DeliveredNames
    BY <1>4
  <1>. HIDE DEF arrived, answered
  <1>8. RD!Exchange(arrived, answered)
    BY <1>2, <1>3, <1>4, <1>5, <1>6
       DEF RD!Exchange, RD!Settled, ReliableNames, DeliveredNames
  <1>. QED  BY <1>3, <1>7, <1>8 DEF RD!Next, ReliableNames, DeliveredNames

LEMMA RetransmitRefines ==
    ASSUME Session, NEW e \in Entity, NEW m \in reliable_messages[e],
           RetransmitReliable(e, m)
    PROVE  [RD!Next]_RD!vars
  <1>1. UNCHANGED <<net, handled, acked>>
    BY DEF RetransmitReliable
  <1>2. ReliablePackets' = ReliablePackets
    BY <1>1 DEF ReliablePackets
  <1>3. CASE failed' = failed
    BY <1>1, <1>2, <1>3, Invisible
  <1>4. CASE failed' = failed \union {<<Self(e), m.seq>>}
    <2>1. <<Self(e), m.seq>> \in ReliableNames \ (acked \union failed)
      BY DEF Session, Settlement, PendingOpen
    <2>2. <<Self(e), m.seq>> \in (Entity \X (0 .. MaxRestart)) \X (0 .. MaxSeq - 1)
      BY <2>1, NameIsMessage DEF ReliableNames
    <2>3. ReliableNames' = ReliableNames /\ DeliveredNames' = DeliveredNames
      BY <1>1, <1>2 DEF ReliableNames, DeliveredNames, Name, Delivered,
                        PassedToApplication
    <2>4. RD!Abandon(<<Self(e), m.seq>>)
      BY <1>1, <1>4, <2>1, <2>3
         DEF RD!Abandon, RD!Settled, ReliableNames, DeliveredNames
    <2>. QED  BY <2>2, <2>4 DEF RD!Next
  <1>. QED  BY <1>3, <1>4, RetransmitEffect DEF Session

LEMMA StepRefines ==
    ASSUME Unmistaken, MaxRestart = 0, Session, [Next]_vars
    PROVE  [RD!Next]_RD!vars
  <1>0. Session' /\ TypeOK
    BY SessionStep DEF Session
  <1>1. ASSUME NEW e \in Entity, NEW type, NEW dst, NEW kind,
               TypedSend(e, type, dst, kind)
        PROVE  [RD!Next]_RD!vars
    BY <1>0, <1>1, SendRefines
  <1>2. ASSUME NEW e \in Entity, NEW d \in Entity, SendAcks(e, d)
        PROVE  [RD!Next]_RD!vars
    <2>1. PICK g : Emits(e, g) /\ g.type = "UNRELIABLE"
      BY <1>0, <1>2, SendAcksEmits
    <2>2. ReliablePackets' = ReliablePackets
      BY <2>1 DEF ReliablePackets, Emits
    <2>. QED  BY <1>2, <2>2, Invisible DEF SendAcks
  <1>3. ASSUME NEW e \in Entity, NEW p \in net, LinkMessage(e, p)
        PROVE  [RD!Next]_RD!vars
    BY <1>3, ReceiveRefines
  <1>4. ASSUME NEW e \in Entity, NEW m \in reliable_messages[e],
               RetransmitReliable(e, m)
        PROVE  [RD!Next]_RD!vars
    BY <1>4, RetransmitRefines
  <1>5. ASSUME NEW e \in Entity, Restart(e) PROVE [RD!Next]_RD!vars
    BY <1>5 DEF Restart, Session, Peers, FirstRuns
  <1>6. Quiet => [RD!Next]_RD!vars
    BY Invisible DEF Quiet, ReliablePackets
  <1>. QED  BY <1>0, <1>1, <1>2, <1>3, <1>4, <1>5, <1>6, StepCases

LEMMA InitRefines == Init => RD!Init
  BY DEF Init, RD!Init, ReliablePackets

\* mtrans.h:65-68, mclient.c:239-240 in a session of two, or of one that sends
\* reliably: an acknowledged message was delivered, and every message is
\* settled at most once.
THEOREM TransportRefines ==
    ASSUME Unmistaken, MaxRestart = 0
    PROVE  Spec => ImplementsReliableDelivery
  <1>1. Session /\ [Next]_vars => [RD!Next]_RD!vars
    BY StepRefines
  <1>2. Session /\ [Next]_vars => Session'
    BY SessionStep
  <1>. QED
    BY <1>1, <1>2, SessionInit, InitRefines, PTL
       DEF Spec, ImplementsReliableDelivery, RD!Safety

-----------------------------------------------------------------------------

LEMMA DeliveredStays ==
    ASSUME handled \subseteq handled', NEW q, Delivered(q)
    PROVE  Delivered(q)'
  BY DEF Delivered, PassedToApplication

LEMMA AckedStep ==
    ASSUME Unmistaken, Session, AckedWasDelivered, [Next]_vars
    PROVE  AckedWasDelivered'
  <1>0. TypeOK
    BY DEF Session
  <1>1. ASSUME NEW e \in Entity, NEW type, NEW dst, NEW kind,
               TypedSend(e, type, dst, kind)
        PROVE  AckedWasDelivered'
    <2>1. PICK g : Emits(e, g)
      BY <1>0, <1>1, SendEmits
    <2>2. handled' = handled /\ acked' = acked
      BY <1>1 DEF TypedSend, Send
    <2>3. Name(g) \notin ReliableNames
      BY <2>1, <1>0, FreshName DEF Session, Numbers, ReliableNames,
                                   ReliablePackets, Emits, Name
    <2>4. Name(g) \notin acked
      BY <2>3 DEF Session, Settlement, SettledWasSent
    <2>5. \A p \in ReliablePackets' : p \in ReliablePackets \/ p = g
      BY <2>1 DEF ReliablePackets, Emits
    <2>. QED
      BY <2>2, <2>4, <2>5, DeliveredStays DEF AckedWasDelivered, Name
  <1>2. ASSUME NEW e \in Entity, NEW d \in Entity, SendAcks(e, d)
        PROVE  AckedWasDelivered'
    <2>1. PICK g : Emits(e, g) /\ g.type = "UNRELIABLE"
      BY <1>0, <1>2, SendAcksEmits
    <2>2. ReliablePackets' = ReliablePackets
      BY <2>1 DEF ReliablePackets, Emits
    <2>. QED
      BY <1>2, <2>2, DeliveredStays DEF SendAcks, AckedWasDelivered, Name
  <1>3. ASSUME NEW e \in Entity, NEW p \in net, LinkMessage(e, p)
        PROVE  AckedWasDelivered'
    <2>1. /\ net' = net /\ handled \subseteq handled'
          /\ acked' = acked \union {<<Self(e), m.seq>> : m \in SettledBy(e, p)}
      BY <1>3 DEF LinkMessage
    <2>2. ReliablePackets' = ReliablePackets
      BY <2>1 DEF ReliablePackets
    <2> SUFFICES ASSUME NEW r \in ReliablePackets, Name(r) \in acked'
                 PROVE  Delivered(r)
      BY <2>1, <2>2, DeliveredStays DEF AckedWasDelivered, Name
    <2>3. CASE Name(r) \in acked
      BY <2>3 DEF AckedWasDelivered
    <2>4. ASSUME NEW m \in SettledBy(e, p), Name(r) = <<Self(e), m.seq>>
          PROVE  Delivered(r)
      <3>1. PICK q \in ReliablePackets : Name(q) = <<Self(e), m.seq>> /\ Delivered(q)
        BY <1>3, SettledByWasDelivered DEF Session
      <3>2. q = r
        BY <2>4, <3>1 DEF Session, Numbers, SeqIdentifiesPacket, ReliablePackets
      <3>. QED  BY <3>1, <3>2
    <2>. QED  BY <2>1, <2>3, <2>4
  <1>4. ASSUME UNCHANGED <<net, handled, acked>> PROVE AckedWasDelivered'
    BY <1>4, DeliveredStays DEF AckedWasDelivered, ReliablePackets, Name
  <1>5. ASSUME NEW e \in Entity, NEW m \in reliable_messages[e],
               RetransmitReliable(e, m)
        PROVE  AckedWasDelivered'
    BY <1>4, <1>5 DEF RetransmitReliable
  <1>6. ASSUME NEW e \in Entity, Restart(e) PROVE AckedWasDelivered'
    BY <1>4, <1>6 DEF Restart
  <1>7. Quiet => AckedWasDelivered'
    BY <1>4 DEF Quiet
  <1>. QED  BY <1>0, <1>1, <1>2, <1>3, <1>5, <1>6, <1>7, StepCases

\* mtrans.h:65-68: a reliable message that left the table because of an
\* acknowledgement was handed to the application of its destination, in a
\* session of two entities, or of one sender and any number of others, that are
\* not restarted.
THEOREM AckedMeansDelivered ==
    ASSUME Unmistaken, MaxRestart = 0
    PROVE  Spec => []AckedWasDelivered
  <1>1. Init => AckedWasDelivered
    BY DEF Init, AckedWasDelivered, ReliablePackets
  <1>2. Session /\ AckedWasDelivered /\ [Next]_vars => AckedWasDelivered'
    BY AckedStep
  <1>3. Session /\ [Next]_vars => Session'
    BY SessionStep
  <1>. QED  BY <1>1, <1>2, <1>3, SessionInit, PTL DEF Spec
=============================================================================
