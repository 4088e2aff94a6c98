# Verification of libgmbus

libgmbus is a C library (GLib main loop, UDP multicast) that implements the
Mbus local coordination protocol: *entities* with structured addresses find
each other by periodic hello messages, exchange messages of commands, reliably
if asked to, and may call each other's procedures.  This directory holds TLA+
models of its protocol, its handlers and its wire format, TLC configurations
that check them on small instances, and TLAPS proofs that hold for every value
of the constants.

Run everything from this directory: `tlc -config two.cfg MCTransport`,
`tlapm MTransportProofs.tla`.  The tables below name module and configuration
of each run.

## 1. The system

```
   application            callbacks: command, unknown message, return,
        |                 new/lost entity, error
   RPCEntity  (rpcentity.c, rpctypes.c)    calls, returns, ids
        |  unknown_message
   MClient    (mclient.c)                  registered commands, dispatch
        |  incoming_message
   MTransport (mtrans.c)                   hello, entities, reliability
        |  MLinkCallback
   MLink      (mlink.c, udp.c)             two sockets, crypto, error state
        |
   UDP multicast
```

| Component | State | Operations | What makes it correct |
|---|---|---|---|
| MTransport, reliability | sequence counter; table of reliable messages with a timer each; table of acknowledgements per source with a timer each | send, hello, receive, send acks (T_c), "retransmit" (T_r) | numbers are unique; acknowledgements are truthful and none is forgotten; each message is settled once and in the end; settled by an acknowledgement means delivered |
| MTransport, hello | table address -> (endpoint, last_hello); hello timer; lost timer | hello, receive, check for lost entities | a silent entity is dropped in bounded time; a living one only after the hellos the constants promise; an endpoint is that of the present run |
| RPCEntity, RPCCommand, RPCReturn | static id counter; table of commands; table of outstanding calls | register, send command, incoming command, send return, incoming return | a callback runs once, for its own call, with the outcome the server gave |
| MClient | list of (command, callback); event callbacks; index of the current command | register, unregister, subscribe, unsubscribe, dispatch, send, send reliable, free | each command reaches its first registration; no callback, timer or handler uses what was freed, however handlers nest; the application knows the entities of the table |
| MLink, MEndpoint | two sockets, coder, error state | new, send, receive, free | sessions with different keys are separate, equal ones understand each other; a process can reach everybody it has heard |
| MAddress | list of key:value elements | read, as_string, is_equal, subset, disambiguate, hash | an entity is known by one address; equal addresses hash alike; equality and subset are orders where wildcards allow it |
| MMessage, MHeader, MPayload, MCommand | header fields, list of commands | read, as_string | what is written is read back |
| mtypes, base64 | typed objects, nested lists | new, read, as_string | the reader inverts the writer, and only text that no writer should make confuses it |
| MCoder | digest algorithm, key | encode, decode | a text is accepted exactly when it was encoded with the same key |
| MConfig | the entries of the configuration file | read, defaults, is_equal | equal configurations make a session |
| mutil | none | blanks, characters, errors | see the readers |

### How the parts interact

Each process runs one GLib main loop: a timer or a readable socket invokes a
handler, the handler runs to completion, calling the layer above through
callbacks and the layer below directly.  Concurrency is therefore between
*processes*, between the *timers and sockets* of one process, and between a
handler and what the application does in a callback.  Datagrams may be dropped,
duplicated and reordered by UDP; a process may end at any time, with or without
a bye, and be started again with the same address.

What is hard about it: acknowledgements take two routes (with any message to
their source, or alone, by multicast) and are matched by number; three timers
per entity race with what arrives; a table entry outlives the process it
describes; ids and numbers start at 0 in each process; the intervals of hello
and lost timers are computed from two different tables; callbacks run in the
middle of handlers; readers assume what writers do, and say little when they
give up.  `PROJECT.json` lists every such hazard at its line, with the
properties that address it.

## 2. The modules

| Module | Models |
|---|---|
| `MTransport` | mtrans.c and the send functions of mclient.c: N entities, the network, restarts; time abstracted |
| `ReliableDelivery` | what a reliable send promises, abstractly |
| `MCTransport` | instances for TLC |
| `MTransportProofs` | types, numbers, acknowledgements, settlement: for any number of entities |
| `MTransportDelivery` | two entities, or one that sends reliably, without restarts: refinement of `ReliableDelivery`, delivery |
| `MHello` | the hello and lost timers of mtrans.c, in time |
| `MCHello`, `MHelloProofs` | instances, theorems |
| `RPCEntity` | rpcentity.c, rpctypes.c |
| `RPCService` | what a remote procedure call promises, abstractly |
| `MCRPC`, `RPCEntityProofs` | instances, theorems |
| `MClient` | mclient.c and the handlers of mtrans.c in one process, cut at their callbacks |
| `MCClient`, `MClientProofs` | instances, theorems |
| `MText` | texts as sequences of tokens; the walks of mutil.c |
| `MAddress`, `MAddressProofs` | maddress.c as operators; laws of equality, subset and hash, sorting, reading what was written |
| `MTypes` | objects and lists of mtypes.c, base64 lengths |
| `MMessage`, `MMessageProofs` | mheader.c, mcommand.c, mpayload.c, mmessage.c; reading what was written, for lists, payloads and messages |
| `MConfig` | mconfig.c, endpoints of udp.c |
| `MCoder` | mcoder.c |
| `MLink` | mlink.c over all of these: processes, files, datagrams |
| `MCLink`, `MLinkProofs` | instance, theorems |

`MMessage` extends `MAddress` and `MTypes`, which extend `MText`; `MCoder`
extends `MConfig` and `MText`; `MLink` extends `MMessage` and `MCoder`.

### MTransport

`sequence_no`, `entities`, `reliable_messages` and `acknowledgements` are the
members of `struct MTransport`, indexed by entity.  An entry of
`reliable_messages` is its number and `n`, the count of timer periods; an entry
of `acknowledgements` is the set of numbers owed to a source.  An endpoint is a
pair of an entity and the number of its run, because each run binds its unicast
socket to a new port (mlink.c:182-191).  `net` holds every datagram ever sent,
so a later receipt is any delay, no receipt a loss, two receipts a duplicate.

| Action | Code |
|---|---|
| `ClientSend`, `ClientSendReliable` | mbus_client_send(_reliable), mbus_transport_send |
| `WhenHello` | __mbus_transport_when_hello |
| `LinkMessage` | __mbus_transport_when_link_message with all it calls: new entity, acknowledgements, dispatch, queueing of the own acknowledgement |
| `SendAcks` | __mbus_transport_send_acks (T_c) |
| `RetransmitReliable` | __retransmit_reliable (T_r), which resends nothing |
| `CheckLostEntities` | any set of entities may be found dead (their timing is `MHello`) |
| `Restart` | the process ends and starts with the same address |
| `Lose` | the network withholds a datagram for good |

`Lose` adds no behaviour to the safety properties.  It is there so that the
liveness runs can lose a datagram although receipt is fair.

`ReliableDelivery` has messages that are submitted, delivered, then confirmed
or abandoned, each answer once and confirmation only after delivery.  The
mapping: submitted are the reliable datagrams in `net`, delivered those their
destination handed to its application, confirmed and abandoned the history
variables `acked` and `failed`.

### MHello

Time is discrete with a unit of 100 ms, of which all constants of the code
(200 ms per entity, 1 s minimum, 0.9 to 1.1 dither, 5 intervals, 1 s lost
period) are multiples or which bounds them: an interval of 10 units takes 9 to 11.  A timer may fire up to `MaxLate`
units late: GLib serves timers between handlers.  `age[w][e]` is the time since
`last_hello` of the entry for `e` in the table of `w`.  Entities of a large session that are not modelled are only counted: whenever a table size is
asked for, the number of further entries is any of `OtherCount`.  `missed`, `down` and
`brief` are history variables.  A hello and its receipt are one action, because
transit is shorter than a unit; any other message is `OtherMessage`, which, as
in the code, creates an entry but does not refresh one.

### RPCEntity

`commands` and `returns` are the hash tables of the entity, `rpc_id` the static
counter.  `SendCommand` is rpc_command_new and rpc_entity_send_command: the
record is made before the send, which may be refused.  `IncomingCommand` and
`IncomingReturn` are the two branches of __rpc_entity_incoming_message, with
rpc_return_new, rpc_entity_send_return and rpc_return_new_from_command.  A
process has one RPCEntity.  The transport below is reduced to the set of
messages sent; it is the weakest that MTransport can be, so what holds here
holds above it.  The pointer in rpcentity.c:63 is uninitialised when there is
no record; both of what a build may do with it are allowed (`wild`).

`RPCService` has calls that are issued, executed by servers, and answered once
with the outcome of one of the executions.

### MClient

`MTransport` takes each handler as one step.  `MClient` looks at one process
and cuts the handlers where they call the application.  `stack` has a frame for
each handler that is suspended in a callback; what the frame holds are the
local variables that the handler reads afterwards (the message, the index of
the command, the entity that is lost, the number of the failed message).  In
the callbacks of `Nest` the application may run the main loop again, up to
`MaxDepth` deep, and any timer or socket is served there, except the source
whose own handler is suspended.  In any callback it may register, unregister,
subscribe, unsubscribe and send.  `dangling` records the first use of something
that was freed or is not there; then the model stops.

| Action | Code |
|---|---|
| `Register`, `Unregister`, `Subscribe`, `Unsubscribe` | the functions of mclient.c of these names |
| `Send`, `SendReliable` | mbus_client_send(_reliable), as far as tables and timers go |
| `Free` | mbus_client_free, mbus_transport_free |
| `WhenMessage`, `NewReturns`, `CommandReturns` | __mbus_transport_when_link_message up to the first callback, from new_entity to the next, from one command to the next |
| `CheckLostEntities`, `LostReturns` | __mbus_transport_check_lost_entities and __find_dead_entities, cut at lost_entity |
| `Retransmit`, `ErrorReturns` | __retransmit_reliable, cut at transport_error |
| `SendAcks` | __mbus_transport_send_acks |

Peers and their messages are arbitrary: they acknowledge any number at any
time.  Time is abstracted; `LongCallbacks` says whether a callback may take
longer than an entity needs to be lost.

### MText, MAddress, MTypes, MMessage

Texts are sequences of tokens: characters with a meaning of their own, and runs
of the others (`MText`).  Each writer (`XAsString`) and each reader (`ReadX`) is
an operator; readers are recursive functions over positions, as the code moves
a pointer or erases what it has read.  The body of each (`Elements`, `Items`,
`Acks`, `Lines`: one element, and the rest by `From`) is an operator of its own,
so that proofs can speak of it.  A list is the sequence of what its text shows
(`List`: its brackets are balanced).  A reader has the outcomes of the code:
read, given up ("failed", "refused"), or gone on with memory that it should not
touch ("broken", "past").  Where the code writes zeros into the text while it
reads, the positions of these are part of the result (`zeros`), because
mpayload.c stops at them.  Base64 is modelled by lengths only: how many bytes
survive the array that base64.c allocates.  `MessageIsSafe` says which messages
a writer should make: sorted addresses, symbols that begin with a capital,
strings without quotes, data of a length that is encoded in full, floats that
"%f" can print.

### MConfig, MCoder, MLink

A process reads one of `Files` (`ReadConfig`), opens its transport (`Open`),
composes any of `Draft` for the group or for a peer it has heard (`Send`),
receives (`UdpEvent`, with the cut at the buffer, the digest, the reader and
the listener, in this order), and may fail to read or leave.  `SendForeign`
are messages of other programs.  A datagram carries, next to its text, what it
was meant to say (`holds`); `heard` compares it with what the reader made of
it.  Other programs may write what they like; `OthersAreUnderstood` says which
of them can be expected to be heard as they mean it.  `fate` is "undefined" when the code goes on with memory that is not its
own and "aborted" after g_error; nothing more is said of such a process.
The system may refuse any datagram (`SendFails`: full buffers, as the socket
does not wait, a text that is too long, a network that is not there or not
allowed), and it must refuse one for another address family than the socket's or
for port 0 (`MustFail`).  Each refusal ends the process, as in the code.

## 3. What is checked

Passing runs:

| Run | Module | Shows | Instance |
|---|---|---|---|
| `two` | MCTransport | NoAckForgotten, AcksTruthful, SettledOnce, AckedWasDelivered, ImplementsReliableDelivery | 2 entities, both reliable, duplicates, symmetry, 2 sends of each application, 1 more ack message |
| `restart` | MCTransport | TypeOK, SeqIdentifiesPacket, AcksTruthful, NoAckForgotten, SettledOnce | 2 entities, each restarted once |
| `live` | MCTransport | AcksLeave, ImplementsReliableService, DeliveredUnlessLost | 2 entities, fair, one reliable datagram may be lost |
| `hello` | MCHello | TypeOK, EntriesAreFresh, SilenceBeforeLoss, StaleEndpointsAreRecent | an announcer started up to twice, a watcher started any number of times, any hello may be lost, 0 or 7 further entries whenever the table is looked at, timers up to a unit late |
| `rpc` | MCRPC | AnswersOwnCall, OutstandingOrAnswered, ImplementsRPCService, CallsComplete | a caller, two servers, two calls, fair receivers |
| `rpcrestart` | MCRPC | TypeOK, AnsweredOnce, OutstandingOrAnswered | a caller, two servers that both answer an anycast, duplicates, the caller and a server restarted once |
| `client` | MCClient | TypeOK, NoDanglingUse, TimersMatchTables, ToldTheTruth, FirstRegistrationServes, SettledOnce | two peers, two commands, hellos, byes and messages of two commands; two registrations, one reliable message, the main loop run once more in the callbacks for commands, unknown messages and new entities |
| `wire` | MCLink | TypeOK, SessionsAreSeparate, EqualSessionsUnderstand, HeardAsSent, KnownByOneAddress, OnlyUnsafeIsUndefined, HeardCanBeAnswered | two processes, 8 files for one and 2 for the other, six messages (every type, nested lists, three commands, every unsafe kind) and two of other programs, at most two sent |

Runs that find a disagreement between the code and its documentation, each with
one property that fails:

| Run | Property | What happens |
|---|---|---|
| `crossed` | AckedWasDelivered | The acknowledgement for one sender is multicast and settles the message with the same number of another (mtrans.c:187-210 compares the number only). |
| `oneloss` | ReliableReachesDestination | mclient.c:239 promises "necessary retransmissions"; mtrans.c:420-463 sends nothing again. |
| `anycast` | UnmatchedIsUnknown | The second return to an anycast is handled through an uninitialised pointer. |
| `freed` | FreedIsSilent | mclient.c:112 "Finalizes and deletes"; the T_c and T_r timers stay armed (mtrans.c:393-404) and use the transport afterwards. |

AckedWasDelivered holds in sessions of two entities without restarts (run
`two`, theorem `AckedMeansDelivered`).  Both conditions are needed.  `crossed`
shows what a third entity does in the default configuration.  Two variants of
`crossed.cfg` give other counterexamples: with `SendUnicast = FALSE` and
`ReliableSender <- OnlyA` a reliable message is multicast and a bystander
acknowledges it (mtrans.c:288-309 queues the number before it looks at the
destination); with `Entity <- TwoEntities`, `ReliableSender <- OnlyA` and
`MaxRestart = 1` an acknowledgement for an earlier run settles a message of the
new one, because numbers start at 0 again.

It also holds in sessions of any size with one sender of reliable messages, as
long as there is unicast and nobody is restarted: `crossed.cfg` with
`ReliableSender <- OnlyA` passes, and `AckedMeansDelivered` covers that case too.

In the same way AnswersOwnCall of RPCEntity holds without restarts only (run
`rpc`, theorem `AnswersAreForTheirCalls`): `__rpc_id` (rpctypes.c:31, "The unique
RPC id" of rpctypes.h:58) starts at 0 in each process, and `rpcrestart.cfg` with
AnswersOwnCall in place of its invariants shows the return of an old call
answering a new one.  An endpoint that is not that of the present process stays
in the table for as long as hellos come (mtrans.c:177), and what is sent to it is
lost: StaleEndpointsAreRecent only says that the entity was back before it was
missed.  rpc_return_new (rpctypes.c:228) stores its argument, documented as the application status, as the RPC status; the application learns
it all the same from the application result, which is what `RPCService` calls
the outcome.

NoDanglingUse and its neighbours hold under conditions on the application.
`client` has them: `Nest` leaves out the callbacks for lost entities and for
errors, and no callback outlasts the silence of an entity.  Each is needed.
With "error" in `Nest` the acknowledgement of a failed message frees it below
the suspended __retransmit_reliable; with "lost" a new entity is added to the
table that g_hash_table_foreach_remove is walking through; with
`LongCallbacks = TRUE` the lost timer removes an entity while its hello waits
in the new_entity callback, and __mbus_transport_recv_hello uses an entry that
is not there.  Each of the three replacements in `client.cfg` shows a
counterexample.  Use of an unregistered command and of a freed client are left
out of NoDanglingUse by name: the first is a defect of mclient.c:234
(g_slist_remove is given a list element instead of its data, so that the freed
registration stays in the list), the second is run `freed`.

### Other known deviations

Met while the modules were written; the models do what the code does.

* rpctypes.c:165 reads the status of a return in the branch for every key but
  RPC-STATUS, so that a caller always sees RPC_OK (rpctypes.h:74 "The RPC
  status"); the outcome arrives by the application result.
* A message of several commands: `_index` is not set for unknown commands, so
  that rpcentity.c:37 reads the first command each time.
* mtypes.c:432: a word that begins with a small letter is no symbol to the
  reader, although mbus_symbol_new makes one.  The reader then goes on with the
  end and the object of the element before, or with none.  The command
  `mbus.test(bla)` of tests/mtest.c:60 and 87 is such a text.
* Strings are written without escapes (mtypes.c:135) and end at the first quote.
* base64.c:60 reserves too little: 7, 10 or 11 bytes lose their end, no bytes
  become some, and more than 12 are written behind the array.
* mconfig.c:104: an algorithm other than HMAC-MD5-96 is read as HMAC-MD5-96.
* Any sendto that fails ends the process (mlink.c:276), where mclient.c:180
  promises FALSE ("TRUE means the operations was successfully completed").
* An INTERFACE that is not an address of the group's family, or no PORT, ends
  the process with its first hello (mlink.c:276).
* Errors of decoding and parsing are set in the link and reset by the next
  event; no listener hears of them (mlink.c:84-101).

### Bounds and why they are enough

* *Sends* (`MaxSeq`, `MaxAckSeq`): two messages per entity let two reliable
  messages be outstanding at once, in either order, next to hellos; one or more
  further numbers are for the acknowledgement timer, so that it is never the
  bound of the application that stops an acknowledgement.  Numbers are only
  compared for equality, and their uniqueness is proved for all of them.
* *Entities*: the hazards are about a sender, a destination and a bystander.
* *Restarts*: one restart gives an old run and a new one, which is what ids and
  endpoints confuse.
* *Hello*: the state is bounded by the dead time, without any other bound than
  `MaxRuns`, the starts of the announcer.  0 and 7 further entries are on both
  sides of the table size at which the interval leaves its minimum, for the
  announcer (10 and 14 units) as for the watcher (10 and 18, as it counts one
  entry more), so that either may have the larger table; with 7 an interval for one
  entity less in the dead time shows in SilenceBeforeLoss.
* *RPC*: two calls of one caller to two servers give two answers to one
  anycast and two answers in the wrong order; with restarts, one call of each run
  has the same id.
* *Client*: two nested handlers give every pair of interleaved handlers; a
  suspended handler only depends on tables, so a third repeats what two do.  Two
  registrations are two of one command or one of each.  The proofs are for any
  depth and number.
* *Wire*: one message of each process, or two of one, give each error once and
  what follows it.  `MaxText` is 78 tokens in place of 32768 bytes: the longest
  message is longer, all others are not.  Each kind of argument and each kind
  of confusion occurs in some draft; the runs reach messages of three commands
  heard whole, unsafe ones altered, messages refused for their key, for their
  text and for their length, and processes that are undefined by what they sent
  and by what they received.

Duplicates are switched on where the state space allows it (`two`,
`rpcrestart`); elsewhere every datagram is processed at most once by each run.

CHECK_DEADLOCK is FALSE in the runs of MCTransport, MCRPC, MCClient and MCLink:
when the bounded sends or calls are used up and everything has been settled (or
the client is freed, or a process has ended), the bounded system stops, and so would the real one without hellos.  MCHello does check deadlock:
time never stops.

### Fairness

`MTransport!Fairness`: the main loop serves each armed T_c and T_r timer and
each datagram that reaches a socket.  That is what a GLib main loop does as
long as the application returns from its callbacks.  Fairness is weak, per
entity and per source and number, so that one stream of packets does not starve
another.  Nothing is assumed of the application, of the hello timer, of lost
entity checks or of restarts.  Fair receipt is an assumption about the network:
`Lose` takes datagrams out of it, in `live` and `oneloss` one.
`RPCEntity!Fairness` is fair receipt on a network that drops nothing.  The
code's promise to complete a call rests on that alone, as there is no timeout.

## 4. What is proved

TLAPS proves these for every value of the constants that satisfies the ASSUME
of the module (any number of entities, any bound, any network behaviour):

| Theorem | States | Argument |
|---|---|---|
| `MTransportProofs!TypeCorrect` | TypeOK | inductive as it stands; a timer entry has counted 1 or 2 periods |
| `NumbersUnique` | SeqIdentifiesPacket | strengthened by `NumbersBelow`: what a run has sent has numbers below its counter, and no packet is from a later run |
| `AcksAreTruthful` | AcksTruthful | inductive with types: a queue entry comes from a receipt, a packet from a queue |
| `NoAckIsForgotten` | NoAckForgotten | with `HandledByRuns`: nothing was handled by a run that is still to come, so a restart leaves no obligation |
| `MessagesSettleOnce` | SettledOnce | with `Settlement`: pending entries are unsettled, unique per number and sent |
| `MTransportDelivery!TransportRefines` | ImplementsReliableDelivery | no restarts, and two entities or one reliable sender with unicast (`Unmistaken`): then the one who acknowledges can only be the destination (`Session`, with `Addressed`: unicast reaches nobody else), each action maps to an abstract step or to a stutter |
| `AckedMeansDelivered` | AckedWasDelivered | from the same invariant |
| `MHelloProofs!TypeCorrect` | TypeOK | the size of a table is bounded, hence so are the intervals |
| `SilentEntitiesAreForgotten` | EntriesAreFresh | `Fresh`: age plus the time left on the lost timer stays within the bound |
| `NoHastyLoss` | SilenceBeforeLoss | `Silence`: age plus the time to the next hello is at most one interval of the entity's own largest table, served late (`Punctual`), for each hello missed and one more |
| `OldEndpointsAreRecent` | StaleEndpointsAreRecent | `Recalled`: an entry is at least as old as its entity was down, so that an old endpoint beside a running entity means a brief absence |
| `RPCEntityProofs!TypeCorrect` | TypeOK | inductive |
| `CallsAreAnsweredOnce`, `CallsStayOutstanding` | AnsweredOnce (of the sequence of all invocations), OutstandingOrAnswered | `RecordInv`: a record exists exactly for the ids below the counter without an answer, and answers are for past or present runs |
| `AnswersAreForTheirCalls` | AnswersOwnCall | no restarts: with `OneRun` an id names one call |
| `CallsImplementService` | ImplementsRPCService | each action is Issue, Execute, Answer or a stutter |
| `MClientProofs!TypeCorrect` | TypeOK | inductive, a lemma for each handler |
| `FirstRegistrationWins` | FirstRegistrationServes | entries only move from registered to freed and never change places; what was served stays served |
| `NothingDangles`, `TimersAndTables`, `TellsTheTruth`, `SettlesOnce` | NoDanglingUse, TimersMatchTables, ToldTheTruth, SettledOnce | under `Cautious` (no long callbacks, no main loop in the lost and error callbacks): `Handling` ties each suspended handler to the entry it will use |
| `MLinkProofs!KeysSeparate` | SessionsAreSeparate | `LinkInv`: a datagram carries the digest of its sender's key, which does not change once messages are sent |
| `HeardAreReachable` | HeardCanBeAnswered | `LinkInv` with `FamilyMeets`: what is heard came from a socket of the family of the listener's own socket or group |
| `MLinkProofs!TypeCorrect` | TypeOK | `MessageInv`, and that the reader makes typed messages of any text |
| `EqualSessionsDo` | EqualSessionsUnderstand | `MessageInv`: the reader never refuses what the writer made, safe or not, so only the key and the length are left |
| `OneAddressForEach` | KnownByOneAddress | the header of any message of a process is read (`MessageRead`), and an address in order stays as it is (`SortedKeepsOrder`) |
| `SafeMessagesArrive` | HeardAsSent | `MessageRoundTrip`; for other programs, `OthersAreUnderstood` |
| `UndefinedByUnsafe` | OnlyUnsafeIsUndefined | inductive with `MessageInv`: the reader is not broken by a safe payload; for other programs, `OthersAreUnderstood` |
| `MAddressProofs!EqualityOfAddresses`, `SubsetOfAddresses` | - | equality is reflexive and symmetric and makes subsets of each other; both are transitive over an address without wildcards |
| `EqualAddressesHashAlike` | - | equal addresses whose ids have no wildcard are hashed alike, which g_hash_table requires |
| `SortedIsInOrder`, `SortedKeepsOrder` | - | sorting is a permutation into the order of the keys that keeps the order of equal ones: the n-th place is the element with n - 1 before it, by the cardinality of initial segments |
| `AddressRoundTrip` | - | an address that was written is read as itself, sorted, and up to its end |
| `MMessageProofs!ListRoundTrip`, `PayloadRoundTrip`, `MessageRoundTrip` | - | safe lists, payloads and messages of any length are read as they were written |

The conditions "two entities", "one sender", "no restarts" are assumptions of
the theorems that name them; section 3 says why.  The invariants were checked
with TLC before they were proved, `LinkInv` and `MessageInv` on the instance of
`wire`.

### Texts of any length

The prover has no induction rule that takes a predicate, so the inductions are
made in set form (`MAddressProofs!SetInduction`, from the well-foundedness of <
on Nat): the set of numbers for which the claim holds contains each number whose
predecessors it contains, hence all.  That the readers, recursive functions over
positions, are what their bodies say is proved the same way (`RankRecursion`,
`DownwardRecursion`): each body looks at later positions only, which is a lemma
for each reader.  From there:

1. *Types.*  Whatever the text is, a reader returns one of its outcomes, with a
   next position inside the text or one behind it, and items of their types,
   balanced for a list (`ReadMessageTyped` for the whole).
2. *What is written stands in the text.*  `Holds(t, p, s)` says that s is in t
   at p; a concatenation is held piece by piece.  So every round trip is proved
   of a text that holds what was written anywhere, which is what nesting needs.
3. *Round trips*, by induction over what is left: elements of an address, items
   of a list up to the bracket that closes it (by its depth), lines of a payload,
   for which it matters that the zeros that the reader writes are behind it.
4. *Messages.*  `MessageRead`: the header of every message with readable
   addresses is read, sorted, whatever the payload is; the payload is read whole
   when it is safe.  This is more than the round trip of safe messages: it is why
   equal sessions do not refuse each other's unsafe messages either.

### The invariants of MLink

`LinkInv` is about what passes through the network as it is: configurations
come from the files, a datagram has the key of its sender, and the families of
two processes that hear each other fit.  `MessageInv` is about what the texts
say: processes that have opened their transport keep address and configuration
(`SetUpInv`); a datagram is the text of something sent (`Carried`); what was
heard is what the reader made of such a text (`HeardWell`); what was refused
had another key or did not fit (`RefusedWell`).  None of the properties is
inductive alone, as the network sits between what is sent and what is heard.

HeardAsSent and OnlyUnsafeIsUndefined say something of messages of other
programs.  `OthersAreUnderstood` is the hypothesis about these: their texts of
safe messages mean what they say, and those of safe payloads are readable.
`OwnTextsAreUnderstood` proves that a program that writes like this library
satisfies it, and `MCLink` has TLC evaluate it for `wire`.  Without other
programs (`Foreign = {}`) it holds trivially.

### Only model-checked

All liveness properties (AcksLeave, ImplementsReliableService,
DeliveredUnlessLost, CallsComplete), because the prover does not reason about
fairness.  Every safety property of a passing run is a theorem.  The properties
of the failing runs are false.

## 5. What is not modelled

* *Copies, assignments, setters, mbus_list_remove, mbus_argument_check*: pure
  functions that no modelled handler depends on.  (Three of them do not do what
  they say: mheader.c:242 copies no acknowledgement, mpayload.c:164 appends
  instead of replacing, mtypes.c:513 removes nothing.)
* *Several listeners on one link*: links are shared by way of a list of
  sessions that nothing is ever added to (mlink.c:124-140).
* *A configuration file that is not there* (g_error), the decoding of the key,
  failures of socket, bind and setsockopt (printed, ignored).
* *Numbers and names longer than the buffers of the readers*, numbers that do
  not fit 64 bits.
* *Malformed returns and short command names in rpcentity.c*, rpc_entity_free.
* *Allocation, text layout, debug output, option parsing*: no protocol state.
* *What md5 and hmac compute*: vendored algorithms; a digest is idealised as the
  pair of key and text, so that no two of them collide.
* *init.c*: a thin wrapper of the GLib main loop; its effect, one handler at a
  time, is the atomicity of every action, and nested main loops are in `MClient`.

Abstractions that should be known: in MTransport callbacks of the application
are separate steps, as if it acted from the main loop (`MClient` has them inside
the handlers); link errors do not occur there; a reliable send looks the destination up and finds it unless the table
was emptied.  In RPCEntity a message has one command, and all messages were
written by an RPCEntity.  Sequence numbers do not wrap (2^32 sends).

## 6. Plan

1. `RPCEntity` over messages of several commands and malformed returns, with the
   dispatch of `MClient` below it.
2. Assignments and `mbus_list_remove`, as operators against what they promise.
3. Theorems: what is heard of unsafe messages, as far as their text determines
   it; the conditions of `Cautious` one by one.
4. Larger instances of `wire`: three processes, messages of other programs to
   both sockets.
