-------------------------------- MODULE MLink --------------------------------
(***************************************************************************)
(* The links of a few processes (src/gmbus/mlink.c), from the configuration *)
(* file to the message that a listener hears.  Each process has one link,   *)
(* as the list of sessions in which another one would be found stays empty: *)
(* two links of one program are two processes here.                         *)
(*                                                                          *)
(* Above the link is a transport (src/gmbus/mtrans.c), of which this module *)
(* has what it does when it is made and the fields it sets in a message.    *)
(* Numbers, acknowledgements and the choice of the endpoint are in          *)
(* MTransport: here they may be anything.  Below the link is the network,   *)
(* which may also bring messages of programs that use another library.      *)
(***************************************************************************)
EXTENDS MMessage, MCoder

CONSTANTS
    Process,
    Files,          \* the configuration files that each process may find
    AddressText,    \* the address that each application gives to its client
    Id,             \* what generate_id makes for each process, a word
    Draft,          \* what applications put into messages, see Composed
    Foreign,        \* messages of other programs, how these write them, their key
    Leaving,        \* bound: the processes that may free their transport
    MaxText,        \* MBUS_MESSAGE_BUF_SIZE, in tokens
    MaxSend         \* bound: messages, those of other programs with them

VARIABLES
    file,       \* the file that each process has read
    config,
    fate,       \* of each process
    address,    \* of its transport
    error,      \* link->error.type
    net,        \* the datagrams on their way
    heard,      \* history: the messages that were passed to the listeners
    refused,    \* history: the datagrams that were not, with what they held
    sent        \* history: what was sent, and by whom

vars == <<file, config, fate, address, error, net, heard, refused, sent>>

\* "undefined": the process went on with memory that is not its own, and
\* nothing is said of what it does then.  "aborted": g_error.
Fate == {"new", "configured", "running", "freed", "aborted", "undefined"}

MErrorType == {"MERR_NOERR", "MERR_READ", "MERR_CODER_SETUP", "MERR_DECODE",
               "MERR_PARSE", "MERR_SEND"}

FOREIGNER == "foreigner"
GROUP     == "group"

ASSUME LinkAssumption ==
    /\ Files \in [Process -> SUBSET File]
    /\ AddressText \in [Process -> Text]
    /\ Id \in [Process -> Word]
    /\ \A d \in Draft : /\ d.message.type \in {"U", "R"}
                        /\ d.message.sequence_no \in Digits
                        /\ d.message.acks \in Seq(Digits)
                        /\ d.message.destination \in Text
                        /\ d.message.payload \in Seq(Command)
                        /\ d.spoken \in Seq(Text)
    /\ \A f \in Foreign : f.key \in HashKey /\ f.text \in Text /\ f.message \in Message
    /\ {FOREIGNER, GROUP} \cap Process = {}
    /\ MaxText \in Nat
    /\ MaxSend \in Nat

Init ==
    /\ file      = [p \in Process |-> Missing]
    /\ config    = [p \in Process |-> ConfigNew]
    /\ fate      = [p \in Process |-> "new"]
    /\ address   = [p \in Process |-> <<>>]
    /\ error     = [p \in Process |-> "MERR_NOERR"]
    /\ net       = {}
    /\ heard     = {}
    /\ refused   = {}
    /\ sent      = {}

Becomes(p, f) == fate' = [fate EXCEPT ![p] = f]
Reports(p, e) == error' = [error EXCEPT ![p] = e]

(***************************************************************************)
(* Setting up.                                                             *)
(***************************************************************************)
\* mbus_config_new( TRUE ).
ReadConfig(p, f) ==
    /\ fate[p] = "new"
    /\ file' = [file EXCEPT ![p] = f]
    /\ IF ReadsNull(f) THEN Becomes(p, "undefined") /\ UNCHANGED config
       ELSE IF Aborts(f) THEN Becomes(p, "aborted") /\ UNCHANGED config
       ELSE Becomes(p, "configured") /\ config' = [config EXCEPT ![p] = ConfigRead(f)]
    /\ UNCHANGED <<address, error, net, heard, refused, sent>>

\* The application may change its configuration before it is used.
SetAlgorithm(p, a) ==
    /\ fate[p] = "configured"
    /\ config' = [config EXCEPT ![p].hash_algo = a]
    /\ UNCHANGED <<file, fate, address, error, net, heard, refused, sent>>

\* mbus_transport_new: the transport's address, with the elements that could be
\* read, and its link, to which it attaches when the link is well.
Open(p) ==
    LET a == ReadAddress(AddressText[p], 1)
        isOk == CoderIsOk(config[p])
    IN  /\ fate[p] = "configured"
        /\ IF a.past THEN Becomes(p, "undefined") ELSE Becomes(p, "running")
        /\ address' = [address EXCEPT ![p] = Disambiguate(a.elements, Id[p])]
        /\ Reports(p, IF isOk THEN "MERR_NOERR" ELSE "MERR_CODER_SETUP")
        /\ UNCHANGED <<file, config, net, heard, refused, sent>>

\* mbus_link_free, called by the transport's.
Free(p) ==
    /\ p \in Leaving
    /\ fate[p] = "running"
    /\ Becomes(p, "freed")
    /\ net' = {d \in net : d.to # p}
    /\ UNCHANGED <<file, config, address, error, heard, refused, sent>>

(***************************************************************************)
(* Sending.                                                                *)
(***************************************************************************)
\* Commands are made from objects, or (in "spoken") from texts.
Commands(d) ==
    d.message.payload \o [i \in DOMAIN d.spoken |-> CommandNew(d.spoken[i]).command]

\* A message as the application has put it together and the transport has
\* completed it.
Composed(p, d) ==
    [header |-> [type |-> d.message.type, sequence_no |-> d.message.sequence_no,
                 timestamp |-> Clock, source |-> address[p],
                 destination |-> ReadAddress(d.message.destination, 1).elements,
                 acks |-> d.message.acks],
     payload |-> Commands(d)]

\* What makes the sending undefined: a text that can not be read, data that do
\* not fit, a coder that was not set up.
Misspoken(d) ==
    \/ ReadAddress(d.message.destination, 1).past
    \/ \E i \in DOMAIN d.spoken : CommandNew(d.spoken[i]).broken

IsUndefined(p, m) ==
    \/ \E i \in DOMAIN m.payload : Overruns(m.payload[i].arguments)
    \/ ~CoderIsOk(config[p])

EndpointOf(p, to) ==
    IF to = GROUP THEN config[p].group_addr ELSE config[to].unicast_addr

\* Mutant: what goes to the group leaves from the multicast socket.
SocketMutant(p, to) ==
    IF to = GROUP THEN config[p].group_addr ELSE config[p].unicast_addr

\* Everything is sent from the unicast socket.
Socket(p, to) == config[p].unicast_addr

\* No network takes a datagram for another family than the socket's, or for no
\* port.
MustFail(p, to) ==
    \/ Socket(p, to).af_family # EndpointOf(p, to).af_family
    \/ to = GROUP /\ config[p].group_addr.port = 0

\* The group's datagrams come back to the sender as well.
Receivers(p, to) ==
    {q \in Process : /\ fate[q] = "running"
                     /\ CoderIsOk(config[q])
                     /\ IF to = GROUP THEN config[q].group_addr = config[p].group_addr
                                      ELSE q = to}

Datagrams(p, m, to) ==
    LET text == MessageAsString(m)
    IN  {[from |-> p, to |-> q, data |-> Encode(config[p], text), holds |-> m] :
             q \in Receivers(p, to)}

\* sendto, which does not wait.  It may return -1 for any datagram: the buffers
\* are full, the text is too long, the network is not reachable or not allowed.
\* Each -1 is reported and then ends the process.
SendFails(p) ==
    /\ Reports(p, "MERR_SEND")
    /\ Becomes(p, "aborted")
    /\ UNCHANGED net

SendSucceeds(p, m, to) ==
    /\ ~MustFail(p, to)
    /\ Reports(p, "MERR_NOERR")
    /\ net' = net \union Datagrams(p, m, to)
    /\ UNCHANGED fate

\* mbus_link_send to the group, mbus_link_send_unicast to the endpoint of an
\* entity that was heard before.
Send(p, d, to) ==
    LET m == Composed(p, d)
    IN  /\ fate[p] = "running"
        /\ Cardinality(sent) < MaxSend
        /\ to = GROUP \/ \E h \in heard : h.by = p /\ h.from = to
        /\ sent' = sent \union {[by |-> p, what |-> d]}
        /\ IF Misspoken(d) \/ IsUndefined(p, m)
           THEN Becomes(p, "undefined") /\ UNCHANGED <<error, net>>
           ELSE SendFails(p) \/ SendSucceeds(p, m, to)
        /\ UNCHANGED <<file, config, address, heard, refused>>

\* Another program that knows some key sends to p's sockets.
SendForeign(p, f) ==
    LET data == [digest |-> Digest(f.key, f.text), text |-> f.text]
    IN  /\ fate[p] = "running"
        /\ CoderIsOk(config[p])
        /\ Cardinality(sent) < MaxSend
        /\ sent' = sent \union {[by |-> FOREIGNER, what |-> f]}
        /\ net' = net \union {[from |-> FOREIGNER, to |-> p, data |-> data, holds |-> f.message]}
        /\ UNCHANGED <<file, config, fate, address, error, heard, refused>>

(***************************************************************************)
(* Receiving.                                                              *)
(***************************************************************************)
\* What recvfrom leaves of a datagram.
Received(data) ==
    [data EXCEPT !.text = SubSeq(@, 1, IF Len(@) < MaxText THEN Len(@) ELSE MaxText)]

Refused(p, d) == [by |-> p, from |-> d.from, length |-> Len(d.data.text)]

\* __mbus_link_udp_event.  Of a datagram that is refused nobody is told: the
\* error stays in the link until the next event or sending resets it.
UdpEvent(p, d) ==
    /\ fate[p] = "running"
    /\ d.to = p
    /\ net' = net \ {d}
    /\ \E data \in {Received(d.data)} : \E r \in {ReadMessage(data.text)} :
           \/ /\ ~DigestMatches(config[p], data)
              /\ Reports(p, "MERR_DECODE")
              /\ refused' = refused \union {Refused(p, d)}
              /\ UNCHANGED <<fate, heard>>
           \/ /\ DigestMatches(config[p], data)
              /\ r.how = "refused"
              /\ Reports(p, "MERR_PARSE")
              /\ refused' = refused \union {Refused(p, d)}
              /\ UNCHANGED <<fate, heard>>
           \/ /\ DigestMatches(config[p], data)
              /\ r.how = "broken"
              /\ Becomes(p, "undefined")
              /\ UNCHANGED <<error, heard, refused>>
           \/ /\ DigestMatches(config[p], data)
              /\ r.how = "ok"
              /\ Reports(p, "MERR_NOERR")
              /\ heard' = heard \union
                     {[by |-> p, from |-> d.from, key |-> d.data.digest.key,
                       holds |-> d.holds, message |-> r.message]}
              /\ UNCHANGED <<fate, refused>>
    /\ UNCHANGED <<file, config, address, sent>>

\* recvfrom fails: the listeners' error callbacks are called, no datagram is
\* taken from the network.
ReadFails(p) ==
    /\ fate[p] = "running"
    /\ CoderIsOk(config[p])
    /\ Reports(p, "MERR_READ")
    /\ UNCHANGED <<file, config, fate, address, net, heard, refused, sent>>

Next ==
    \E p \in Process :
        \/ \E f \in Files[p] : ReadConfig(p, f)
        \/ \E a \in Algorithm : SetAlgorithm(p, a)
        \/ Open(p)
        \/ Free(p)
        \/ \E d \in Draft, to \in Process \union {GROUP} : Send(p, d, to)
        \/ \E f \in Foreign : SendForeign(p, f)
        \/ \E d \in net : UdpEvent(p, d)
        \/ ReadFails(p)

Spec == Init /\ [][Next]_vars

\* What may be assumed of other programs: of a payload that is safe they write a
\* text that the reader gets through, and of a message that is safe one that
\* says to the reader what they mean by it.
OthersAreUnderstood ==
    \A f \in Foreign :
        /\ PayloadIsSafe(f.message.payload) => ReadMessage(f.text).how # "broken"
        /\ MessageIsSafe(f.message) /\ ReadMessage(f.text).how = "ok" =>
               ReadMessage(f.text).message = f.message
-----------------------------------------------------------------------------
(***************************************************************************)
(* Properties.                                                             *)
(***************************************************************************)
\* The variables hold what the program's types allow.
TypeOK ==
    /\ \A p \in Process : file[p] \in Files[p] \union {Missing}
    /\ config \in [Process -> Config]
    /\ fate \in [Process -> Fate]
    /\ \A p \in Process : address[p] \in Address
    /\ error \in [Process -> MErrorType]
    /\ \A d \in net : d.to \in Process /\ d.from \in Process \union {FOREIGNER}
    /\ \A h \in heard : h.message \in Message
    /\ \A s \in sent : IF s.by = FOREIGNER THEN s.what \in Foreign
                                             ELSE s.by \in Process /\ s.what \in Draft

\* Sessions with different keys do not hear each other: whatever two processes
\* of the library have read from their files, a message that one of them hears
\* was encoded with its own key (mbus_coder_decode).
SessionsAreSeparate ==
    \A h \in heard :
        /\ h.key = config[h.by].hash_key
        /\ h.from \in Process => config[h.from].hash_key = config[h.by].hash_key

\* The other way round: processes whose configurations are equal in the sense of
\* mbus_config_is_equal understand each other.  What one sends is refused by the
\* other only when it is longer than the buffer of __mbus_link_udp_event.
EqualSessionsUnderstand ==
    \A r \in refused :
        r.from \in Process /\ ConfigIsEqual(config[r.from], config[r.by])
            => r.length > MaxText

\* A safe message arrives as it was sent: all its commands, with the same names
\* and the same arguments in the same nesting, the addresses, the number and the
\* acknowledgements in their order (the writers and readers of mheader.c,
\* mpayload.c, mcommand.c, mtypes.c and maddress.c fit together).
HeardAsSent ==
    \A h \in heard : MessageIsSafe(h.holds) => h.message = h.holds

\* All messages of a process are found under one address, its own: that is what
\* the tables of the transport, which compare addresses element by element and
\* hash their id, rely on.
KnownByOneAddress ==
    \A h \in heard : h.from \in Process =>
        LET source == h.message.header.source
        IN  /\ IsEqual(source, address[h.from]) /\ IsEqual(address[h.from], source)
            /\ HashedBy(source) = HashedBy(address[h.from])

\* A process that has set up its coder, whose application uses only readable
\* texts, leaves the ground of what is defined only for a message that is not
\* safe, be it of another process or of another program.
OnlyUnsafeIsUndefined ==
    \A p \in Process :
        fate[p] = "undefined" =>
            \/ ReadsNull(file[p])
            \/ ~CoderIsOk(config[p])
            \/ \E s \in sent : s.by = p /\ Misspoken(s.what)
            \/ \E s \in sent : ~PayloadIsSafe(IF s.by = FOREIGNER THEN s.what.message.payload
                                              ELSE Commands(s.what))
            \/ ReadAddress(AddressText[p], 1).past

\* Nobody is ended by whom it hears: a process whose socket can reach its group
\* can also reach the socket of every process it has heard, over the group or
\* directly, whatever the two files say of addresses and interfaces.  (With a
\* socket of another family the first unicast would end it, by g_error in
\* __mbus_link_do_send.)
HeardCanBeAnswered ==
    \A h \in heard :
        h.from \in Process /\ ~MustFail(h.by, GROUP) => ~MustFail(h.by, h.from)
=============================================================================
