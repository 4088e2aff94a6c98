----------------------------- MODULE MLinkProofs -----------------------------
(***************************************************************************)
(* Theorems about MLink, for all processes, files, texts and messages.      *)
(* There are two inductive invariants: LinkInv, of keys and address         *)
(* families, which pass through the network as they are, and MessageInv, of *)
(* what the messages say; the second one rests on the theorems of           *)
(* MMessageProofs, that the reader inverts the writer.                      *)
(***************************************************************************)
EXTENDS MLink, MMessageProofs

(***************************************************************************)
(* Configurations.                                                         *)
(***************************************************************************)
LEMMA EndpointTypes ==
    ASSUME NEW ep \in Endpoint
    PROVE  /\ \A host \in Host \union {ANY, LOOPBACK, DEFAULT, UNSET} :
                  SetAddress4(ep, host) \in Endpoint
           /\ \A host \in Host \union {ANY, LOOPBACK, UNSET} :
                  SetAddress6(ep, host) \in Endpoint
           /\ \A s \in Written : /\ SetAddressFromString(ep, s) \in Endpoint
                                 /\ SetAddressFromString(ep, s).af_family =
                                       IF s.dots THEN "AF_INET" ELSE "AF_INET6"
  <1>1. /\ \A host \in Host \union {ANY, LOOPBACK, DEFAULT, UNSET} :
               /\ SetAddress4(ep, host) \in Endpoint
               /\ SetAddress4(ep, host).af_family = "AF_INET"
        /\ \A host \in Host \union {ANY, LOOPBACK, UNSET} :
               /\ SetAddress6(ep, host) \in Endpoint
               /\ SetAddress6(ep, host).af_family = "AF_INET6"
    BY DEF Endpoint, Family, SetAddress4, SetAddress6
  <1>2. ASSUME NEW s \in Written
        PROVE  /\ SetAddressFromString(ep, s) \in Endpoint
               /\ SetAddressFromString(ep, s).af_family =
                     IF s.dots THEN "AF_INET" ELSE "AF_INET6"
    <2>1. /\ s.host \in Host /\ s.dots \in BOOLEAN
          /\ ep.in \in Host \union {ANY, LOOPBACK, DEFAULT, UNSET}
          /\ ep.in6 \in Host \union {ANY, LOOPBACK, UNSET}
      BY DEF Written, Endpoint
    <2>2. CASE s.dots
      BY <1>1, <2>1, <2>2 DEF SetAddressFromString
    <2>3. CASE ~s.dots
      BY <1>1, <2>1, <2>3 DEF SetAddressFromString
    <2>. QED  BY <2>1, <2>2, <2>3
  <1>. QED  BY <1>1, <1>2

LEMMA NewConfig == ConfigNew \in Config
  BY DEF ConfigNew, Config, Algorithm, NewEndpoint, SetAddress4, Endpoint, Family

\* The family that a file gives to the group.
GroupFamily(f) ==
    IF f.ADDRESS = Missing \/ f.ADDRESS.dots THEN "AF_INET" ELSE "AF_INET6"

LEMMA GroupOfFile ==
    ASSUME NEW f \in File
    PROVE  /\ GroupAddress(f) \in Endpoint
           /\ GroupAddress(f).af_family = GroupFamily(f)
           /\ GroupAddress(f).port = Or(f.PORT, 0)
  <1> DEFINE new == ConfigNew.group_addr
             ep  == IF f.ADDRESS = Missing THEN SetAddress4(new, DEFAULT)
                                           ELSE SetAddressFromString(new, f.ADDRESS)
  <1>1. new \in Endpoint
    BY NewConfig DEF Config
  <1>2. ep \in Endpoint /\ ep.af_family = GroupFamily(f)
    <2>1. CASE f.ADDRESS = Missing
      <3>1. ep.af_family = "AF_INET"
        BY <1>1, <2>1 DEF SetAddress4, Endpoint
      <3>. QED  BY <1>1, <2>1, <3>1, EndpointTypes DEF GroupFamily
    <2>2. CASE f.ADDRESS # Missing
      <3>1. f.ADDRESS \in Written
        BY <2>2 DEF File
      <3>. QED  BY <1>1, <2>2, <3>1, EndpointTypes DEF GroupFamily
    <2>. QED  BY <2>1, <2>2
  <1>3. Or(f.PORT, 0) \in Port \union {0}
    BY DEF Or, File
  <1>4. GroupAddress(f) = [ep EXCEPT !.port = Or(f.PORT, 0)]
    BY DEF GroupAddress
  <1> HIDE DEF ep
  <1>. QED  BY <1>2, <1>3, <1>4 DEF Endpoint

\* The own socket has the family of the group, unless the file names an
\* interface.
LEMMA UnicastOfFile ==
    ASSUME NEW f \in File
    PROVE  /\ UnicastAddress(f) \in Endpoint
           /\ f.INTERFACE = Missing => UnicastAddress(f).af_family = GroupFamily(f)
           /\ f.INTERFACE # Missing =>
                UnicastAddress(f).af_family =
                    IF f.INTERFACE.dots THEN "AF_INET" ELSE "AF_INET6"
  <1> DEFINE new == ConfigNew.unicast_addr
             host == IF Or(f.SCOPE, "HOSTLOCAL") = "HOSTLOCAL" THEN LOOPBACK ELSE ANY
  <1>1. new \in Endpoint
    BY NewConfig DEF Config
  <1>2. host \in {LOOPBACK, ANY}
    OBVIOUS
  <1>3. ScopeAddress(f) = IF GroupAddress(f).af_family = "AF_INET"
                          THEN SetAddress4(new, host) ELSE SetAddress6(new, host)
    BY DEF ScopeAddress
  <1> HIDE DEF new, host
  <1>4. ScopeAddress(f) \in Endpoint
    BY <1>1, <1>2, <1>3, EndpointTypes
  <1>5. ScopeAddress(f).af_family = GroupFamily(f)
    BY <1>1, <1>3, GroupOfFile DEF SetAddress4, SetAddress6, Endpoint, GroupFamily
  <1>6. CASE f.INTERFACE = Missing
    BY <1>4, <1>5, <1>6 DEF UnicastAddress
  <1>7. CASE f.INTERFACE # Missing
    <2>1. f.INTERFACE \in Written
      BY <1>7 DEF File
    <2>. QED  BY <1>4, <1>7, <2>1, EndpointTypes DEF UnicastAddress
  <1>. QED  BY <1>6, <1>7

LEMMA ReadConfigType ==
    ASSUME NEW f \in File, ~ReadsNull(f)
    PROVE  ConfigRead(f) \in Config
  <1>1. /\ f.HASHKEY \in HashKey
        /\ Or(f.SEND_UNICAST, TRUE) \in BOOLEAN
        /\ Or(f.SCOPE, "HOSTLOCAL") \in {"HOSTLOCAL", "LINKLOCAL"}
    BY DEF File, ReadsNull, Or
  <1>. QED  BY <1>1, GroupOfFile, UnicastOfFile DEF ConfigRead, Config, Algorithm

(***************************************************************************)
(* The inductive invariant.  A process keeps what it has read from its file *)
(* but for the algorithm; nothing is sent or heard before that; datagrams   *)
(* carry their sender's key, and what one process has from another came     *)
(* from a socket of the family of the group or of its own socket.           *)
(***************************************************************************)
ConfigInv ==
    /\ config \in [Process -> Config]
    /\ fate \in [Process -> Fate]
    /\ error \in [Process -> MErrorType]
    /\ file \in [Process -> File \union {Missing}]

FamilyMeets(p, q) ==
    config[q].unicast_addr.af_family \in
        {config[p].group_addr.af_family, config[p].unicast_addr.af_family}

NetInv ==
    \A d \in net :
        /\ d.to \in Process
        /\ fate[d.to] # "new"
        /\ \E k, t : d.data = [digest |-> Digest(k, t), text |-> t]
        /\ d.from \in Process =>
               /\ fate[d.from] # "new"
               /\ d.data.digest.key = config[d.from].hash_key
               /\ FamilyMeets(d.to, d.from)

HeardInv ==
    \A h \in heard :
        /\ h.by \in Process
        /\ fate[h.by] # "new"
        /\ h.key = config[h.by].hash_key
        /\ h.from \in Process =>
               /\ fate[h.from] # "new"
               /\ h.key = config[h.from].hash_key
               /\ FamilyMeets(h.by, h.from)

LinkInv == ConfigInv /\ NetInv /\ HeardInv

LEMMA LinkInvInit == Init => LinkInv
  <1> SUFFICES ASSUME Init PROVE LinkInv
    OBVIOUS
  <1>1. ConfigInv
    BY NewConfig DEF Init, ConfigInv, Fate, MErrorType
  <1>2. NetInv /\ HeardInv
    BY DEF Init, NetInv, HeardInv
  <1>. QED  BY <1>1, <1>2 DEF LinkInv

\* What the other parts of the invariant need to know of a step.
Keeps ==
    \A p \in Process :
        /\ fate[p] # "new" =>
               /\ fate'[p] # "new"
               /\ file'[p] = file[p]
               /\ config'[p].hash_key = config[p].hash_key
               /\ config'[p].group_addr = config[p].group_addr
               /\ config'[p].unicast_addr = config[p].unicast_addr

LEMMA ReadConfigKeeps ==
    ASSUME LinkInv, NEW p \in Process, NEW f \in Files[p], ReadConfig(p, f)
    PROVE  ConfigInv' /\ Keeps
  <1>1. f \in File
    BY LinkAssumption
  <1>2. /\ fate[p] = "new"
        /\ file' = [file EXCEPT ![p] = f]
        /\ UNCHANGED error
    BY DEF ReadConfig
  <1>3. \/ fate' = [fate EXCEPT ![p] = "undefined"] /\ UNCHANGED config
        \/ fate' = [fate EXCEPT ![p] = "aborted"] /\ UNCHANGED config
        \/ /\ ~ReadsNull(f)
           /\ fate' = [fate EXCEPT ![p] = "configured"]
           /\ config' = [config EXCEPT ![p] = ConfigRead(f)]
    BY DEF ReadConfig, Becomes
  <1>4. /\ ConfigRead(f).group_addr = GroupAddress(f)
        /\ ConfigRead(f).unicast_addr = UnicastAddress(f)
    BY DEF ConfigRead
  <1>5. ConfigInv'
    BY <1>1, <1>2, <1>3, <1>4, ReadConfigType DEF LinkInv, ConfigInv, Fate
  <1>6. Keeps
    BY <1>2, <1>3 DEF LinkInv, ConfigInv, Fate, Keeps
  <1>. QED  BY <1>5, <1>6

LEMMA SetAlgorithmKeeps ==
    ASSUME LinkInv, NEW p \in Process, NEW a \in Algorithm, SetAlgorithm(p, a)
    PROVE  ConfigInv' /\ Keeps
  <1> DEFINE c == [config[p] EXCEPT !.hash_algo = a]
  <1>1. c \in Config /\ c.hash_key = config[p].hash_key
           /\ c.group_addr = config[p].group_addr
           /\ c.unicast_addr = config[p].unicast_addr
    BY DEF LinkInv, ConfigInv, Config
  <1>2. config' = [config EXCEPT ![p] = c] /\ UNCHANGED <<file, fate, error>>
    BY DEF SetAlgorithm
  <1> HIDE DEF c
  <1>3. ConfigInv'
    BY <1>1, <1>2 DEF LinkInv, ConfigInv
  <1>4. Keeps
    BY <1>1, <1>2 DEF LinkInv, ConfigInv, Keeps
  <1>. QED  BY <1>3, <1>4

\* The steps that leave the configurations alone.
LEMMA OthersKeep ==
    ASSUME LinkInv, NEW p \in Process, UNCHANGED <<file, config>>, fate[p] # "new",
           fate' = fate \/ (\E f \in {"running", "freed", "aborted", "undefined"} :
                               /\ fate' = [fate EXCEPT ![p] = f]
                               /\ f = "running" => fate[p] = "configured"),
           error' = error \/ \E e \in MErrorType : error' = [error EXCEPT ![p] = e]
    PROVE  ConfigInv' /\ Keeps
  <1>1. fate' \in [Process -> Fate] /\ error' \in [Process -> MErrorType]
    BY DEF LinkInv, ConfigInv, Fate
  <1>2. \A q \in Process : /\ fate[q] # "new" => fate'[q] # "new"
                           /\ fate'[q] = "new" => fate[q] = "new" /\ q # p
                           /\ fate'[q] \in {"configured", "running"} =>
                                 fate[q] \in {"configured", "running"}
    BY DEF LinkInv, ConfigInv
  <1>3. \A q \in Process : q # p => error'[q] = error[q]
    BY DEF LinkInv, ConfigInv
  <1>4. ConfigInv'
    BY <1>1, <1>2, <1>3 DEF LinkInv, ConfigInv
  <1>5. Keeps
    BY <1>2 DEF Keeps
  <1>. QED  BY <1>4, <1>5

LEMMA FamilyKept ==
    ASSUME Keeps, NEW p \in Process, NEW q \in Process,
           fate[p] # "new", fate[q] # "new", FamilyMeets(p, q)
    PROVE  FamilyMeets(p, q)'
  BY DEF Keeps, FamilyMeets

LEMMA NetKept ==
    ASSUME LinkInv, Keeps, net' \subseteq net
    PROVE  NetInv'
  <1> SUFFICES ASSUME NEW d \in net
               PROVE  /\ d.to \in Process
                      /\ fate'[d.to] # "new"
                      /\ \E k, t : d.data = [digest |-> Digest(k, t), text |-> t]
                      /\ d.from \in Process =>
                             /\ fate'[d.from] # "new"
                             /\ d.data.digest.key = config'[d.from].hash_key
                             /\ FamilyMeets(d.to, d.from)'
    BY DEF NetInv
  <1>1. d.to \in Process /\ fate[d.to] # "new"
    BY DEF LinkInv, NetInv
  <1>2. \E k, t : d.data = [digest |-> Digest(k, t), text |-> t]
    BY DEF LinkInv, NetInv
  <1>3. ASSUME d.from \in Process
        PROVE  /\ fate[d.from] # "new"
               /\ d.data.digest.key = config[d.from].hash_key
               /\ FamilyMeets(d.to, d.from)
    BY <1>3 DEF LinkInv, NetInv
  <1>. QED  BY <1>1, <1>2, <1>3, FamilyKept DEF Keeps

LEMMA HeardKept ==
    ASSUME LinkInv, Keeps, UNCHANGED heard
    PROVE  HeardInv'
  <1> SUFFICES ASSUME NEW h \in heard
               PROVE  /\ h.by \in Process
                      /\ fate'[h.by] # "new"
                      /\ h.key = config'[h.by].hash_key
                      /\ h.from \in Process =>
                             /\ fate'[h.from] # "new"
                             /\ h.key = config'[h.from].hash_key
                             /\ FamilyMeets(h.by, h.from)'
    BY DEF HeardInv
  <1>1. h.by \in Process /\ fate[h.by] # "new" /\ h.key = config[h.by].hash_key
    BY DEF LinkInv, HeardInv
  <1>2. ASSUME h.from \in Process
        PROVE  /\ fate[h.from] # "new"
               /\ h.key = config[h.from].hash_key
               /\ FamilyMeets(h.by, h.from)
    BY <1>2 DEF LinkInv, HeardInv
  <1>. QED  BY <1>1, <1>2, FamilyKept DEF Keeps

LEMMA QuietStep ==
    ASSUME LinkInv, ConfigInv', Keeps, net' \subseteq net, UNCHANGED heard
    PROVE  LinkInv'
  BY NetKept, HeardKept DEF LinkInv

(***************************************************************************)
(* Sending.                                                                *)
(***************************************************************************)
\* Datagrams go to processes that share the sender's group, or from one own
\* socket to another of the same family.
LEMMA DatagramsMeet ==
    ASSUME LinkInv, NEW p \in Process, fate[p] = "running", NEW m,
           NEW to \in Process \union {GROUP}, ~MustFail(p, to),
           NEW d \in Datagrams(p, m, to)
    PROVE  /\ d.to \in Process
           /\ d.from = p
           /\ fate[d.to] # "new"
           /\ \E k, t : d.data = [digest |-> Digest(k, t), text |-> t]
           /\ d.data.digest.key = config[p].hash_key
           /\ FamilyMeets(d.to, p)
  <1>1. PICK q \in Receivers(p, to) :
            d = [from |-> p, to |-> q, data |-> Encode(config[p], MessageAsString(m)), holds |-> m]
    BY DEF Datagrams
  <1>2. q \in Process /\ fate[q] = "running"
        /\ (to = GROUP => config[q].group_addr = config[p].group_addr)
        /\ (to # GROUP => q = to)
    BY DEF Receivers
  <1>3. FamilyMeets(q, p)
    BY <1>2 DEF FamilyMeets, MustFail, Socket, EndpointOf
  <1>4. /\ d.to = q /\ d.from = p
        /\ d.data = [digest |-> Digest(config[p].hash_key, MessageAsString(m)),
                     text |-> MessageAsString(m)]
    BY <1>1 DEF Encode
  <1>5. d.data.digest.key = config[p].hash_key
    BY <1>4 DEF Digest
  <1>. QED  BY <1>2, <1>3, <1>4, <1>5

LEMMA NetGrows ==
    ASSUME LinkInv, Keeps, NEW p \in Process, fate[p] = "running", NEW m,
           NEW to \in Process \union {GROUP}, ~MustFail(p, to),
           net' = net \union Datagrams(p, m, to)
    PROVE  NetInv'
  <1> SUFFICES ASSUME NEW d \in net'
               PROVE  /\ d.to \in Process
                      /\ fate'[d.to] # "new"
                      /\ \E k, t : d.data = [digest |-> Digest(k, t), text |-> t]
                      /\ d.from \in Process =>
                             /\ fate'[d.from] # "new"
                             /\ d.data.digest.key = config'[d.from].hash_key
                             /\ FamilyMeets(d.to, d.from)'
    BY DEF NetInv
  <1>1. /\ d.to \in Process
        /\ fate[d.to] # "new"
        /\ \E k, t : d.data = [digest |-> Digest(k, t), text |-> t]
        /\ d.from \in Process =>
               /\ fate[d.from] # "new"
               /\ d.data.digest.key = config[d.from].hash_key
               /\ FamilyMeets(d.to, d.from)
    <2>1. CASE d \in net
      BY <2>1 DEF LinkInv, NetInv
    <2>2. CASE d \in Datagrams(p, m, to)
      BY <2>2, DatagramsMeet
    <2>. QED  BY <2>1, <2>2
  <1>. QED  BY <1>1, FamilyKept DEF Keeps

LEMMA SendStep ==
    ASSUME LinkInv, NEW p \in Process, NEW d \in Draft,
           NEW to \in Process \union {GROUP}, Send(p, d, to)
    PROVE  LinkInv'
  <1> DEFINE m == Composed(p, d)
  <1>1. /\ fate[p] = "running"
        /\ to = GROUP \/ \E h \in heard : h.by = p /\ h.from = to
        /\ UNCHANGED <<file, config, address, heard, refused>>
    BY DEF Send
  <1>2. \/ /\ fate' = [fate EXCEPT ![p] = "undefined"]
           /\ UNCHANGED <<error, net>>
        \/ /\ fate' = [fate EXCEPT ![p] = "aborted"]
           /\ error' = [error EXCEPT ![p] = "MERR_SEND"]
           /\ UNCHANGED net
        \/ /\ ~MustFail(p, to)
           /\ error' = [error EXCEPT ![p] = "MERR_NOERR"]
           /\ net' = net \union Datagrams(p, m, to)
           /\ UNCHANGED fate
    BY DEF Send, SendFails, SendSucceeds, Becomes, Reports
  <1> HIDE DEF m
  <1>3. ConfigInv' /\ Keeps
    BY <1>1, <1>2, OthersKeep DEF MErrorType
  <1>4. HeardInv'
    BY <1>1, <1>3, HeardKept
  <1>5. NetInv'
    <2>1. CASE UNCHANGED net
      BY <1>3, <2>1, NetKept
    <2>2. CASE ~MustFail(p, to) /\ net' = net \union Datagrams(p, m, to)
      BY <1>1, <1>3, <2>2, NetGrows
    <2>. QED  BY <1>2, <2>1, <2>2
  <1>. QED  BY <1>3, <1>4, <1>5 DEF LinkInv

LEMMA SendForeignStep ==
    ASSUME LinkInv, NEW p \in Process, NEW f \in Foreign, SendForeign(p, f)
    PROVE  LinkInv'
  <1> DEFINE data == [digest |-> Digest(f.key, f.text), text |-> f.text]
             d == [from |-> FOREIGNER, to |-> p, data |-> data, holds |-> f.message]
  <1>1. /\ fate[p] = "running"
        /\ net' = net \union {d}
        /\ UNCHANGED <<file, config, fate, error, heard>>
    BY DEF SendForeign
  <1>2. /\ d.to = p /\ d.from \notin Process
        /\ \E k, t : d.data = [digest |-> Digest(k, t), text |-> t]
    BY LinkAssumption
  <1> HIDE DEF d
  <1>3. ConfigInv' /\ Keeps
    BY <1>1, OthersKeep
  <1>4. HeardInv'
    BY <1>1, <1>3, HeardKept
  <1>5. NetInv'
    <2>1. \A c \in net' : c \in net \/ c = d
      BY <1>1
    <2>2. fate' = fate /\ config' = config
      BY <1>1
    <2>. QED  BY <1>1, <1>2, <2>1, <2>2 DEF LinkInv, NetInv, FamilyMeets
  <1>. QED  BY <1>3, <1>4, <1>5 DEF LinkInv

(***************************************************************************)
(* Receiving.                                                              *)
(***************************************************************************)
LEMMA UdpEventStep ==
    ASSUME LinkInv, NEW p \in Process, NEW d \in net, UdpEvent(p, d)
    PROVE  LinkInv'
  <1> DEFINE data == Received(d.data)
             r == ReadMessage(data.text)
             h == [by |-> p, from |-> d.from, key |-> d.data.digest.key,
                   holds |-> d.holds, message |-> r.message]
  <1>1. /\ fate[p] = "running"
        /\ d.to = p
        /\ net' \subseteq net
        /\ UNCHANGED <<file, config, address, sent>>
    BY DEF UdpEvent
  <1>2. /\ fate' = fate \/ fate' = [fate EXCEPT ![p] = "undefined"]
        /\ \/ error' = error
           \/ \E e \in MErrorType \ {"MERR_SEND"} : error' = [error EXCEPT ![p] = e]
        /\ \/ heard' = heard
           \/ DigestMatches(config[p], data) /\ heard' = heard \union {h}
    BY DEF UdpEvent, Becomes, Reports, MErrorType
  <1>3. data.digest = d.data.digest
    <2>1. PICK k, t : d.data = [digest |-> Digest(k, t), text |-> t]
      BY DEF LinkInv, NetInv
    <2>. QED  BY <2>1 DEF Received
  <1> HIDE DEF r, data
  <1>4. ConfigInv' /\ Keeps
    BY <1>1, <1>2, OthersKeep
  <1>5. NetInv'
    BY <1>1, <1>4, NetKept
  <1>6. HeardInv'
    <2>1. CASE heard' = heard
      BY <1>4, <2>1, HeardKept
    <2>2. CASE DigestMatches(config[p], data) /\ heard' = heard \union {h}
      <3>1. d.data.digest.key = config[p].hash_key
        BY <1>3, <2>2 DEF DigestMatches, Digest
      <3>2. d.from \in Process =>
                /\ fate[d.from] # "new"
                /\ d.data.digest.key = config[d.from].hash_key
                /\ FamilyMeets(p, d.from)
        BY <1>1 DEF LinkInv, NetInv
      <3>3. ASSUME NEW g \in heard'
            PROVE  /\ g.by \in Process
                   /\ fate[g.by] # "new"
                   /\ g.key = config[g.by].hash_key
                   /\ g.from \in Process =>
                          /\ fate[g.from] # "new"
                          /\ g.key = config[g.from].hash_key
                          /\ FamilyMeets(g.by, g.from)
        <4>1. CASE g \in heard
          BY <4>1 DEF LinkInv, HeardInv
        <4>2. CASE g = h
          BY <1>1, <3>1, <3>2, <4>2
        <4>. QED  BY <2>2, <4>1, <4>2
      <3>4. \A q \in Process : /\ fate[q] # "new" => fate'[q] # "new"
                               /\ fate[q] # "new" => config'[q].hash_key = config[q].hash_key
        BY <1>4 DEF Keeps
      <3>. QED  BY <1>4, <3>3, <3>4, FamilyKept DEF HeardInv
    <2>. QED  BY <1>2, <2>1, <2>2
  <1>. QED  BY <1>4, <1>5, <1>6 DEF LinkInv

LEMMA LinkInvStep == LinkInv /\ [Next]_vars => LinkInv'
  <1> SUFFICES ASSUME LinkInv, [Next]_vars PROVE LinkInv'
    OBVIOUS
  <1>1. ASSUME NEW p \in Process, NEW f \in Files[p], ReadConfig(p, f) PROVE LinkInv'
    <2>1. UNCHANGED <<error, net, heard>>
      BY <1>1 DEF ReadConfig
    <2>. QED  BY <1>1, <2>1, ReadConfigKeeps, QuietStep
  <1>2. ASSUME NEW p \in Process, NEW a \in Algorithm, SetAlgorithm(p, a) PROVE LinkInv'
    <2>1. UNCHANGED <<error, net, heard>>
      BY <1>2 DEF SetAlgorithm
    <2>. QED  BY <1>2, <2>1, SetAlgorithmKeeps, QuietStep
  <1>3. ASSUME NEW p \in Process, Open(p) PROVE LinkInv'
    <2>1. /\ fate[p] = "configured"
          /\ \/ fate' = [fate EXCEPT ![p] = "undefined"]
             \/ fate' = [fate EXCEPT ![p] = "running"]
          /\ \/ error' = [error EXCEPT ![p] = "MERR_NOERR"]
             \/ error' = [error EXCEPT ![p] = "MERR_CODER_SETUP"]
          /\ UNCHANGED <<file, config, net, heard>>
      BY <1>3, Zenon DEF Open, Becomes, Reports
    <2>2. \E e \in MErrorType : error' = [error EXCEPT ![p] = e]
      BY <2>1 DEF MErrorType
    <2>3. /\ fate[p] # "new"
          /\ \E f \in {"running", "freed", "aborted", "undefined"} :
                /\ fate' = [fate EXCEPT ![p] = f]
                /\ f = "running" => fate[p] = "configured"
      BY <2>1
    <2>4. ConfigInv' /\ Keeps
      BY <2>1, <2>2, <2>3, OthersKeep
    <2>. QED  BY <2>1, <2>4, QuietStep
  <1>4. ASSUME NEW p \in Process, Free(p) PROVE LinkInv'
    <2>1. /\ fate[p] = "running"
          /\ fate' = [fate EXCEPT ![p] = "freed"]
          /\ net' \subseteq net
          /\ UNCHANGED <<file, config, error, heard>>
      BY <1>4 DEF Free, Becomes
    <2>2. ConfigInv' /\ Keeps
      BY <2>1, OthersKeep
    <2>. QED  BY <2>1, <2>2, QuietStep
  <1>5. ASSUME NEW p \in Process, ReadFails(p) PROVE LinkInv'
    <2>1. /\ fate[p] = "running"
          /\ error' = [error EXCEPT ![p] = "MERR_READ"]
          /\ UNCHANGED <<file, config, fate, net, heard>>
      BY <1>5 DEF ReadFails, Reports
    <2>2. ConfigInv' /\ Keeps
      BY <2>1, OthersKeep DEF MErrorType
    <2>. QED  BY <2>1, <2>2, QuietStep
  <1>6. CASE UNCHANGED vars
    <2>1. Keeps /\ UNCHANGED vars
      BY <1>6 DEF vars, Keeps
    <2>2. ConfigInv'
      BY <2>1 DEF vars, LinkInv, ConfigInv
    <2>. QED  BY <2>1, <2>2, QuietStep DEF vars
  <1>7. CASE Next
    <2>1. PICK p \in Process :
            \/ \E f \in Files[p] : ReadConfig(p, f)
            \/ \E a \in Algorithm : SetAlgorithm(p, a)
            \/ Open(p)
            \/ Free(p)
            \/ \E d \in Draft, to \in Process \union {GROUP} : Send(p, d, to)
            \/ \E f \in Foreign : SendForeign(p, f)
            \/ \E d \in net : UdpEvent(p, d)
            \/ ReadFails(p)
      BY <1>7 DEF Next
    <2>2. ASSUME NEW d \in Draft, NEW to \in Process \union {GROUP}, Send(p, d, to)
          PROVE  LinkInv'
      BY <2>2, SendStep
    <2>3. ASSUME NEW f \in Foreign, SendForeign(p, f) PROVE LinkInv'
      BY <2>3, SendForeignStep
    <2>4. ASSUME NEW d \in net, UdpEvent(p, d) PROVE LinkInv'
      BY <2>4, UdpEventStep
    <2>. QED  BY <1>1, <1>2, <1>3, <1>4, <1>5, <2>1, <2>2, <2>3, <2>4
  <1>. QED  BY <1>6, <1>7

\* What mbus_config_read and the endpoints of src/gmbus/udp.c make of the files
\* stays with the processes, the datagrams and what was heard.
THEOREM LinkInvHolds == Spec => []LinkInv
  BY LinkInvInit, LinkInvStep, PTL DEF Spec

(***************************************************************************)
(* Theorems about keys and families.                                       *)
(***************************************************************************)
\* A process hears what was encoded with its own key, and another process of
\* the library only when both have the same key (mbus_coder_decode).
THEOREM KeysSeparate == Spec => []SessionsAreSeparate
  <1>1. LinkInv => SessionsAreSeparate
    BY DEF LinkInv, HeardInv, SessionsAreSeparate
  <1>. QED  BY <1>1, LinkInvHolds, PTL

\* A process that can send to its group can send to everybody it has heard,
\* whatever files the others have read: all they have sent came from a socket of
\* its group's family or of its own (Datagrams, FamilyMeets).
THEOREM HeardAreReachable == Spec => []HeardCanBeAnswered
  <1>1. LinkInv => HeardCanBeAnswered
    <2>. SUFFICES ASSUME LinkInv, NEW h \in heard, h.from \in Process,
                         ~MustFail(h.by, GROUP)
                  PROVE  ~MustFail(h.by, h.from)
      BY DEF HeardCanBeAnswered
    <2>1. h.by \in Process /\ FamilyMeets(h.by, h.from)
      BY DEF LinkInv, HeardInv
    <2>2. h.from # GROUP
      BY LinkAssumption
    <2>3. config[h.by].unicast_addr.af_family = config[h.by].group_addr.af_family
      BY DEF MustFail, Socket, EndpointOf
    <2>. QED  BY <2>1, <2>2, <2>3 DEF MustFail, Socket, EndpointOf, FamilyMeets
  <1>. QED  BY <1>1, LinkInvHolds, PTL

(***************************************************************************)
(* The second inductive invariant, about what the messages say.  A process  *)
(* that has opened its transport keeps its address, which has an id and is  *)
(* in order, and its configuration.  Each datagram of a process holds the   *)
(* text of something it has sent; what was heard is what the reader makes   *)
(* of such a text; and what was refused was encoded with another key.       *)
(***************************************************************************)
Opened(p) == fate[p] \notin {"new", "configured"}

SetUpInv ==
    /\ \A p \in Process : file[p] \in Files[p] \union {Missing}
    /\ address \in [Process -> Seq(SafeElement)]
    /\ \A p \in Process : InOrder(address[p])

SentInv ==
    \A s \in sent : \/ s.by = FOREIGNER /\ s.what \in Foreign
                    \/ s.by \in Process /\ s.what \in Draft

\* A datagram that is on its way from a process, or from another program.
CarriedOfProcess(d) ==
    /\ d.from \in Process
    /\ Opened(d.from)
    /\ \E w \in Draft :
           /\ [by |-> d.from, what |-> w] \in sent
           /\ d.holds = Composed(d.from, w)
           /\ d.data = Encode(config[d.from], MessageAsString(d.holds))

CarriedOfOther(d) ==
    /\ d.from = FOREIGNER
    /\ \E f \in Foreign :
           /\ [by |-> FOREIGNER, what |-> f] \in sent
           /\ d.holds = f.message
           /\ d.data = [digest |-> Digest(f.key, f.text), text |-> f.text]

Carried(d) == d.to \in Process /\ (CarriedOfProcess(d) \/ CarriedOfOther(d))

\* A message that was heard of a process, or of another program.
HeardOfProcess(h) ==
    /\ h.from \in Process
    /\ Opened(h.from)
    /\ \E w \in Draft : h.holds = Composed(h.from, w)
    /\ ReadMessage(MessageAsString(h.holds)) = [how |-> "ok", message |-> h.message]

HeardOfOther(h) ==
    /\ h.from = FOREIGNER
    /\ \E f \in Foreign :
           /\ h.holds = f.message
           /\ ReadMessage(f.text) = [how |-> "ok", message |-> h.message]

HeardWell(h) == HeardOfProcess(h) \/ HeardOfOther(h)

RefusedWell(r) ==
    r.from \in Process =>
        /\ r.by \in Process
        /\ Opened(r.by) /\ Opened(r.from)
        /\ r.length \in Nat
        /\ r.length <= MaxText => config[r.from].hash_key # config[r.by].hash_key

MessageInv ==
    /\ SetUpInv
    /\ SentInv
    /\ \A d \in net : Carried(d)
    /\ \A h \in heard : HeardWell(h)
    /\ \A r \in refused : RefusedWell(r)

(***************************************************************************)
(* What processes put into messages.                                       *)
(***************************************************************************)
LEMMA SafeElementsAreElements == Seq(SafeElement) \subseteq Address
  BY SeqMonotonic DEF SafeElement, Address

LEMMA CommandsTyped ==
    ASSUME NEW w \in Draft
    PROVE  Commands(w) \in Seq(Command)
  <1> DEFINE n == Len(w.spoken)
             spoken == [i \in DOMAIN w.spoken |-> CommandNew(w.spoken[i]).command]
  <1>1. w.message.payload \in Seq(Command) /\ w.spoken \in Seq(Text)
    BY LinkAssumption
  <1>2. n \in Nat /\ DOMAIN w.spoken = 1..n /\ \A i \in 1..n : w.spoken[i] \in Text
    BY <1>1
  <1>3. ASSUME NEW i \in 1..n PROVE CommandNew(w.spoken[i]).command \in Command
    <2> DEFINE t == w.spoken[i]
    <2>1. t \in Text /\ 1 \in 1..Len(t) + 1
      BY <1>2, TextLength
    <2> HIDE DEF t
    <2>2. ReadCommand(t, 1) \in CommandReading(t, 1)
      BY <2>1, ReadCommandTyped
    <2>3. ReadCommand(t, 1).command \in Command
      BY <2>2 DEF CommandReading
    <2>. QED  BY <2>3 DEF CommandNew, t
  <1>4. spoken \in [1..n -> Command]
    BY <1>2, <1>3
  <1> HIDE DEF n, spoken
  <1>5. spoken \in Seq(Command)
    BY <1>2, <1>4, SeqDef
  <1>6. w.message.payload \o spoken \in Seq(Command)
    BY <1>1, <1>5, ConcatProperties
  <1>. QED  BY <1>6 DEF Commands, spoken

\* What a process sends is a message, with safe addresses and its own as the
\* source.
LEMMA ComposedTyped ==
    ASSUME NEW p \in Process, NEW w \in Draft, address[p] \in Seq(SafeElement)
    PROVE  /\ Composed(p, w) \in Message
           /\ Composed(p, w).header.source = address[p]
           /\ Composed(p, w).header.destination \in Seq(SafeElement)
           /\ Composed(p, w).header.timestamp = Clock
           /\ Composed(p, w).payload = Commands(w)
  <1> DEFINE to == ReadAddress(w.message.destination, 1).elements
             h == [type |-> w.message.type, sequence_no |-> w.message.sequence_no,
                   timestamp |-> Clock, source |-> address[p], destination |-> to,
                   acks |-> w.message.acks]
  <1>1. /\ w.message.type \in {"U", "R"} /\ w.message.sequence_no \in Digits
        /\ w.message.acks \in Seq(Digits) /\ w.message.destination \in Text
    BY LinkAssumption
  <1>2. to \in Seq(SafeElement)
    <2> DEFINE t == w.message.destination
    <2>1. t \in Text /\ 1 \in 1..Len(t) + 1
      BY <1>1, TextLength
    <2> HIDE DEF t
    <2>2. ReadAddress(t, 1) \in AddressReading(t)
      BY <2>1, ReadAddressTyped
    <2>3. ReadAddress(t, 1).elements \in Seq(SafeElement)
      BY <2>2 DEF AddressReading
    <2>. QED  BY <2>3 DEF t
  <1> HIDE DEF to
  <1>3. h \in Header
    <2>1. to \in Address /\ address[p] \in Address /\ Clock \in Digits
      BY <1>2, SafeElementsAreElements, MessageAssumption
    <2>. QED  BY <1>1, <2>1 DEF Header
  <1>4. h.source = address[p] /\ h.destination = to /\ h.timestamp = Clock
    OBVIOUS
  <1>5. Composed(p, w) = [header |-> h, payload |-> Commands(w)]
    BY DEF Composed, to
  <1> HIDE DEF h
  <1>6. [header |-> h, payload |-> Commands(w)] \in Message
    BY <1>3, CommandsTyped DEF Message
  <1>. QED  BY <1>2, <1>4, <1>5, <1>6

\* Data that do not fit are not safe.
LEMMA OverrunsIsUnsafe ==
    ASSUME NEW payload, NEW i \in DOMAIN payload, Overruns(payload[i].arguments)
    PROVE  ~PayloadIsSafe(payload)
  <1> DEFINE list == payload[i].arguments
  <1>1. PICK j \in DOMAIN list : list[j].type = "MDATA" /\ ~InBounds(Len(list[j].content))
    BY DEF Overruns
  <1>2. ~ObjectIsSafe(list[j])
    BY <1>1, SafeLengthsFit DEF ObjectIsSafe, IsPlain
  <1>. QED  BY <1>1, <1>2 DEF PayloadIsSafe, ListIsSafe

(***************************************************************************)
(* The buffer of a receiver.                                               *)
(***************************************************************************)
\* A datagram whose digest matches was not cut, and one that was not cut and has
\* the receiver's key matches.
LEMMA WholeDatagrams ==
    ASSUME NEW t \in Text, NEW k, NEW c, NEW data, data = [digest |-> Digest(k, t), text |-> t]
    PROVE  /\ DigestMatches(c, Received(data)) => Received(data).text = t /\ k = c.hash_key
           /\ Len(t) <= MaxText /\ k = c.hash_key =>
                  DigestMatches(c, Received(data)) /\ Received(data).text = t
  <1> DEFINE u == SubSeq(t, 1, IF Len(t) < MaxText THEN Len(t) ELSE MaxText)
  <1>1. Received(data) = [digest |-> Digest(k, t), text |-> u]
    <2>1. data.text = t
      OBVIOUS
    <2>2. Received(data) = [data EXCEPT !.text = u]
      BY <2>1 DEF Received
    <2> HIDE DEF u
    <2>3. [data EXCEPT !.text = u] = [digest |-> Digest(k, t), text |-> u]
      OBVIOUS
    <2>. QED  BY <2>2, <2>3
  <1>2. ASSUME Len(t) <= MaxText PROVE u = t
    <2>1. Len(t) \in Nat /\ MaxText \in Nat
      BY TextLength, LinkAssumption
    <2>2. u = SubSeq(t, 1, Len(t))
      BY <1>2, <2>1
    <2>. QED  BY <2>2, SubSeqFull DEF Text
  <1> HIDE DEF u
  <1>3. Received(data).digest = Digest(k, t) /\ Received(data).text = u
    BY <1>1
  <1>4. DigestMatches(c, Received(data)) <=> k = c.hash_key /\ t = u
    BY <1>3 DEF DigestMatches, Digest
  <1>. QED  BY <1>2, <1>3, <1>4

(***************************************************************************)
(* What stays as it is.                                                    *)
(***************************************************************************)
LEMMA MessageInvInit == Init => MessageInv
  <1> SUFFICES ASSUME Init PROVE MessageInv
    OBVIOUS
  <1>1. SetUpInv
    <2>1. \A p \in Process : file[p] = Missing /\ address[p] = <<>>
      BY DEF Init
    <2>2. address \in [Process -> Seq(SafeElement)]
      BY DEF Init
    <2>3. InOrder(<<>>)
      BY DEF InOrder
    <2>. QED  BY <2>1, <2>2, <2>3 DEF SetUpInv
  <1>2. sent = {} /\ net = {} /\ heard = {} /\ refused = {}
    BY DEF Init
  <1>. QED  BY <1>1, <1>2 DEF MessageInv, SentInv

\* A process that has opened its transport keeps what messages depend on.
Grows ==
    /\ sent \subseteq sent'
    /\ \A p \in Process : Opened(p) =>
           /\ Opened(p)'
           /\ file'[p] = file[p] /\ config'[p] = config[p] /\ address'[p] = address[p]

LEMMA ComposedKept ==
    ASSUME Grows, NEW p \in Process, Opened(p), NEW w \in Draft
    PROVE  Composed(p, w)' = Composed(p, w)
  <1>1. address'[p] = address[p]
    BY DEF Grows
  <1>. QED  BY <1>1 DEF Composed

LEMMA CarriedKept ==
    ASSUME Grows, NEW d, Carried(d)
    PROVE  Carried(d)'
  <1>1. d.to \in Process
    BY DEF Carried
  <1>2. CASE CarriedOfProcess(d)
    <2>1. d.from \in Process /\ Opened(d.from) /\ Opened(d.from)'
          /\ config'[d.from] = config[d.from]
      BY <1>2 DEF CarriedOfProcess, Grows
    <2>2. PICK w \in Draft : /\ [by |-> d.from, what |-> w] \in sent
                             /\ d.holds = Composed(d.from, w)
                             /\ d.data = Encode(config[d.from], MessageAsString(d.holds))
      BY <1>2 DEF CarriedOfProcess
    <2>3. /\ [by |-> d.from, what |-> w] \in sent'
          /\ d.holds = Composed(d.from, w)'
          /\ d.data = Encode(config'[d.from], MessageAsString(d.holds))
      <3>1. Composed(d.from, w)' = Composed(d.from, w)
        BY <2>1, ComposedKept
      <3>. QED  BY <2>1, <2>2, <3>1 DEF Grows
    <2>4. CarriedOfProcess(d)'
      BY <2>1, <2>3 DEF CarriedOfProcess
    <2>. QED  BY <1>1, <2>4 DEF Carried
  <1>3. CASE CarriedOfOther(d)
    <2>1. CarriedOfOther(d)'
      BY <1>3 DEF CarriedOfOther, Grows
    <2>. QED  BY <1>1, <2>1 DEF Carried
  <1>. QED  BY <1>2, <1>3 DEF Carried

LEMMA HeardWellKept ==
    ASSUME Grows, NEW h, HeardWell(h)
    PROVE  HeardWell(h)'
  <1>1. CASE HeardOfProcess(h)
    <2>1. /\ h.from \in Process /\ Opened(h.from)
          /\ ReadMessage(MessageAsString(h.holds)) = [how |-> "ok", message |-> h.message]
      BY <1>1 DEF HeardOfProcess
    <2>2. PICK w \in Draft : h.holds = Composed(h.from, w)
      BY <1>1 DEF HeardOfProcess
    <2>3. h.holds = Composed(h.from, w)'
      BY <2>1, <2>2, ComposedKept
    <2>4. Opened(h.from)'
      BY <2>1 DEF Grows
    <2>5. HeardOfProcess(h)'
      BY <2>1, <2>3, <2>4 DEF HeardOfProcess
    <2>. QED  BY <2>5 DEF HeardWell
  <1>2. CASE HeardOfOther(h)
    BY <1>2 DEF HeardOfOther, HeardWell
  <1>. QED  BY <1>1, <1>2 DEF HeardWell

LEMMA RefusedWellKept ==
    ASSUME Grows, NEW r, RefusedWell(r)
    PROVE  RefusedWell(r)'
  <1>1. ASSUME r.from \in Process
        PROVE  /\ r.by \in Process
               /\ Opened(r.by)' /\ Opened(r.from)'
               /\ r.length \in Nat
               /\ r.length <= MaxText => config'[r.from].hash_key # config'[r.by].hash_key
    <2>1. r.by \in Process /\ Opened(r.by) /\ Opened(r.from) /\ r.length \in Nat
      BY <1>1 DEF RefusedWell
    <2>2. r.length <= MaxText => config[r.from].hash_key # config[r.by].hash_key
      BY <1>1 DEF RefusedWell
    <2>. QED  BY <1>1, <2>1, <2>2 DEF Grows
  <1>. QED  BY <1>1 DEF RefusedWell

\* A step that adds nothing to the network and to the histories.
LEMMA UnheardStep ==
    ASSUME MessageInv, Grows, SetUpInv', UNCHANGED <<sent, heard, refused>>, net' \subseteq net
    PROVE  MessageInv'
  <1>1. SentInv'
    BY DEF MessageInv, SentInv
  <1>2. \A d \in net' : Carried(d)'
    <2>1. SUFFICES ASSUME NEW d \in net' PROVE Carried(d)'
      OBVIOUS
    <2>. QED  BY CarriedKept DEF MessageInv
  <1>3. \A h \in heard' : HeardWell(h)'
    <2>1. SUFFICES ASSUME NEW h \in heard PROVE HeardWell(h)'
      OBVIOUS
    <2>. QED  BY HeardWellKept DEF MessageInv
  <1>4. \A r \in refused' : RefusedWell(r)'
    <2>1. SUFFICES ASSUME NEW r \in refused PROVE RefusedWell(r)'
      OBVIOUS
    <2>. QED  BY RefusedWellKept DEF MessageInv
  <1>. QED  BY <1>1, <1>2, <1>3, <1>4 DEF MessageInv

(***************************************************************************)
(* The second invariant: setting up.                                       *)
(***************************************************************************)
LEMMA ReadConfigSays ==
    ASSUME LinkInv, MessageInv, NEW p \in Process, NEW f \in Files[p], ReadConfig(p, f)
    PROVE  MessageInv' /\ Grows
  <1>1. /\ fate[p] = "new"
        /\ file' = [file EXCEPT ![p] = f]
        /\ UNCHANGED <<address, net, heard, refused, sent>>
        /\ \E x : fate' = [fate EXCEPT ![p] = x]
        /\ config' = config \/ \E c : config' = [config EXCEPT ![p] = c]
    BY DEF ReadConfig, Becomes
  <1>2. /\ ~Opened(p)
        /\ \A q \in Process : q # p =>
               fate'[q] = fate[q] /\ config'[q] = config[q] /\ file'[q] = file[q]
    BY <1>1 DEF LinkInv, ConfigInv, Opened
  <1>3. Grows
    BY <1>1, <1>2 DEF Grows, Opened
  <1>4. SetUpInv'
    <2>1. \A q \in Process : file'[q] \in Files[q] \union {Missing}
      BY <1>1 DEF MessageInv, SetUpInv, LinkInv, ConfigInv
    <2>. QED  BY <1>1, <2>1 DEF MessageInv, SetUpInv
  <1>. QED  BY <1>1, <1>3, <1>4, UnheardStep

LEMMA SetAlgorithmSays ==
    ASSUME LinkInv, MessageInv, NEW p \in Process, NEW a \in Algorithm, SetAlgorithm(p, a)
    PROVE  MessageInv' /\ Grows
  <1>1. /\ fate[p] = "configured"
        /\ UNCHANGED <<file, fate, address, net, heard, refused, sent>>
        /\ \E c : config' = [config EXCEPT ![p] = c]
    BY DEF SetAlgorithm
  <1>2. ~Opened(p) /\ \A q \in Process : q # p => config'[q] = config[q]
    BY <1>1 DEF LinkInv, ConfigInv, Opened
  <1>3. Grows
    BY <1>1, <1>2 DEF Grows, Opened
  <1>4. SetUpInv'
    BY <1>1 DEF MessageInv, SetUpInv
  <1>. QED  BY <1>1, <1>3, <1>4, UnheardStep

LEMMA OpenSays ==
    ASSUME LinkInv, MessageInv, NEW p \in Process, Open(p)
    PROVE  MessageInv' /\ Grows
  <1> DEFINE e == ReadAddress(AddressText[p], 1).elements
             a == Disambiguate(e, Id[p])
  <1>1. /\ fate[p] = "configured"
        /\ \E x \in {"undefined", "running"} : fate' = [fate EXCEPT ![p] = x]
        /\ address' = [address EXCEPT ![p] = a]
        /\ UNCHANGED <<file, config, net, heard, refused, sent>>
    <2>1. /\ fate[p] = "configured"
          /\ \/ fate' = [fate EXCEPT ![p] = "undefined"]
             \/ fate' = [fate EXCEPT ![p] = "running"]
          /\ address' = [address EXCEPT ![p] = a]
          /\ UNCHANGED <<file, config, net, heard, refused, sent>>
      BY Zenon DEF Open, Becomes
    <2>. QED  BY <2>1
  <1>2. a \in Seq(SafeElement) /\ InOrder(a)
    <2> DEFINE t == AddressText[p]
    <2>1. t \in Text /\ Id[p] \in Word
      BY LinkAssumption
    <2>2. 1 \in 1..Len(t) + 1
      BY <2>1, TextLength
    <2> HIDE DEF t
    <2>3. ReadAddress(t, 1) \in AddressReading(t)
      BY <2>1, <2>2, ReadAddressTyped
    <2>4. e \in Seq(SafeElement)
      BY <2>3 DEF AddressReading, t
    <2> HIDE DEF e
    <2>. QED  BY <2>1, <2>4, DisambiguateIsSafe
  <1> HIDE DEF a
  <1>3. ~Opened(p) /\ \A q \in Process : q # p => fate'[q] = fate[q] /\ address'[q] = address[q]
    BY <1>1 DEF LinkInv, ConfigInv, MessageInv, SetUpInv, Opened
  <1>4. Grows
    BY <1>1, <1>3 DEF Grows, Opened
  <1>5. SetUpInv'
    <2>1. address' \in [Process -> Seq(SafeElement)] /\ address'[p] = a
      BY <1>1, <1>2 DEF MessageInv, SetUpInv
    <2>2. \A q \in Process : InOrder(address'[q])
      BY <1>2, <1>3, <2>1 DEF MessageInv, SetUpInv
    <2>. QED  BY <1>1, <2>1, <2>2 DEF MessageInv, SetUpInv
  <1>. QED  BY <1>1, <1>4, <1>5, UnheardStep

\* The steps of a process that is running, and stopping.
LEMMA RunningGrows ==
    ASSUME LinkInv, MessageInv, NEW p \in Process, fate[p] = "running",
           fate' = fate \/ \E x \in {"freed", "aborted", "undefined"} :
                               fate' = [fate EXCEPT ![p] = x],
           UNCHANGED <<file, config, address>>, sent \subseteq sent'
    PROVE  SetUpInv' /\ Grows
  <1>1. \A q \in Process : Opened(q) => Opened(q)'
    <2>1. fate \in [Process -> Fate]
      BY DEF LinkInv, ConfigInv
    <2>. QED  BY <2>1 DEF Opened
  <1>2. Grows
    BY <1>1 DEF Grows
  <1>3. SetUpInv'
    BY DEF MessageInv, SetUpInv
  <1>. QED  BY <1>2, <1>3

(***************************************************************************)
(* The second invariant: sending.                                          *)
(***************************************************************************)
LEMMA SendSays ==
    ASSUME LinkInv, MessageInv, NEW p \in Process, NEW w \in Draft,
           NEW to \in Process \union {GROUP}, Send(p, w, to)
    PROVE  MessageInv' /\ Grows
  <1> DEFINE m == Composed(p, w)
             s == [by |-> p, what |-> w]
  <1>1. /\ fate[p] = "running"
        /\ sent' = sent \union {s}
        /\ UNCHANGED <<file, config, address, heard, refused>>
        /\ \/ fate' = fate
           \/ \E x \in {"freed", "aborted", "undefined"} : fate' = [fate EXCEPT ![p] = x]
        /\ net' = net \/ net' = net \union Datagrams(p, m, to)
    BY DEF Send, SendFails, SendSucceeds, Becomes
  <1>2. SetUpInv' /\ Grows
    BY <1>1, RunningGrows
  <1>3. SentInv'
    <2>1. s.by \in Process /\ s.what \in Draft
      OBVIOUS
    <2> HIDE DEF s
    <2>. QED  BY <1>1, <2>1 DEF MessageInv, SentInv
  <1>4. ASSUME NEW d \in net' PROVE Carried(d)'
    <2>1. CASE d \in net
      BY <1>2, <2>1, CarriedKept DEF MessageInv
    <2>2. CASE d \in Datagrams(p, m, to)
      <3>1. PICK q \in Receivers(p, to) :
              d = [from |-> p, to |-> q, data |-> Encode(config[p], MessageAsString(m)),
                   holds |-> m]
        BY <2>2 DEF Datagrams
      <3>2. d.from = p /\ d.to = q /\ d.holds = m
            /\ d.data = Encode(config[p], MessageAsString(m))
        BY <3>1
      <3>3. q \in Process
        BY DEF Receivers
      <3>4. Opened(p) /\ Opened(p)' /\ config'[p] = config[p]
        BY <1>1, <1>2 DEF Opened, Grows
      <3>5. m = Composed(p, w)'
        BY <1>2, <3>4, ComposedKept
      <3>6. [by |-> d.from, what |-> w] \in sent'
        BY <1>1, <3>2
      <3> HIDE DEF m
      <3>7. CarriedOfProcess(d)'
        BY <3>2, <3>4, <3>5, <3>6 DEF CarriedOfProcess
      <3>. QED  BY <3>2, <3>3, <3>7 DEF Carried
    <2>. QED  BY <1>1, <1>4, <2>1, <2>2
  <1>5. \A h \in heard' : HeardWell(h)'
    <2>1. SUFFICES ASSUME NEW h \in heard PROVE HeardWell(h)'
      BY <1>1
    <2>. QED  BY <1>2, HeardWellKept DEF MessageInv
  <1>6. \A r \in refused' : RefusedWell(r)'
    <2>1. SUFFICES ASSUME NEW r \in refused PROVE RefusedWell(r)'
      BY <1>1
    <2>. QED  BY <1>2, RefusedWellKept DEF MessageInv
  <1>. QED  BY <1>2, <1>3, <1>4, <1>5, <1>6 DEF MessageInv

LEMMA SendForeignSays ==
    ASSUME LinkInv, MessageInv, NEW p \in Process, NEW f \in Foreign, SendForeign(p, f)
    PROVE  MessageInv' /\ Grows
  <1> DEFINE data == [digest |-> Digest(f.key, f.text), text |-> f.text]
             new == [from |-> FOREIGNER, to |-> p, data |-> data, holds |-> f.message]
             s == [by |-> FOREIGNER, what |-> f]
  <1>1. /\ fate[p] = "running"
        /\ sent' = sent \union {s}
        /\ net' = net \union {new}
        /\ UNCHANGED <<file, config, address, fate, heard, refused>>
    BY DEF SendForeign
  <1>2. SetUpInv' /\ Grows
    BY <1>1, RunningGrows
  <1>3. SentInv'
    <2>1. s.by = FOREIGNER /\ s.what \in Foreign
      OBVIOUS
    <2> HIDE DEF s
    <2>. QED  BY <1>1, <2>1 DEF MessageInv, SentInv
  <1>4. Carried(new)'
    <2>1. new.to = p /\ new.from = FOREIGNER /\ new.holds = f.message /\ new.data = data
      OBVIOUS
    <2>2. s \in sent'
      BY <1>1
    <2> HIDE DEF new
    <2>3. CarriedOfOther(new)'
      BY <2>1, <2>2 DEF CarriedOfOther
    <2>. QED  BY <2>1, <2>3 DEF Carried
  <1>5. ASSUME NEW d \in net' PROVE Carried(d)'
    <2>1. CASE d \in net
      BY <1>2, <2>1, CarriedKept DEF MessageInv
    <2>. QED  BY <1>1, <1>4, <2>1
  <1>6. \A h \in heard' : HeardWell(h)'
    <2>1. SUFFICES ASSUME NEW h \in heard PROVE HeardWell(h)'
      BY <1>1
    <2>. QED  BY <1>2, HeardWellKept DEF MessageInv
  <1>7. \A r \in refused' : RefusedWell(r)'
    <2>1. SUFFICES ASSUME NEW r \in refused PROVE RefusedWell(r)'
      BY <1>1
    <2>. QED  BY <1>2, RefusedWellKept DEF MessageInv
  <1>. QED  BY <1>2, <1>3, <1>5, <1>6, <1>7 DEF MessageInv

(***************************************************************************)
(* The second invariant: receiving.                                        *)
(***************************************************************************)
\* What the reader makes of a datagram of a process: it does not refuse it, and
\* is broken by it only when the arguments are not safe.
LEMMA DatagramOfProcess ==
    ASSUME LinkInv, MessageInv, NEW d \in net, d.from \in Process
    PROVE  /\ d.to \in Process /\ CarriedOfProcess(d) /\ Opened(d.from)
           /\ d.holds \in Message /\ MessageAsString(d.holds) \in Text
           /\ d.data = [digest |-> Digest(config[d.from].hash_key, MessageAsString(d.holds)),
                        text |-> MessageAsString(d.holds)]
           /\ ReadMessage(MessageAsString(d.holds)).how \in {"ok", "broken"}
           /\ ReadMessage(MessageAsString(d.holds)).how = "broken" =>
                  \E s \in sent : s.by = d.from /\ ~PayloadIsSafe(Commands(s.what))
  <1>1. d.to \in Process /\ CarriedOfProcess(d)
    BY LinkAssumption DEF MessageInv, Carried, CarriedOfOther
  <1>2. PICK w \in Draft : /\ [by |-> d.from, what |-> w] \in sent
                           /\ d.holds = Composed(d.from, w)
                           /\ d.data = Encode(config[d.from], MessageAsString(d.holds))
    BY <1>1 DEF CarriedOfProcess
  <1> DEFINE m == d.holds
             r == ReadMessage(MessageAsString(m))
             s == [by |-> d.from, what |-> w]
  <1>3. address[d.from] \in Seq(SafeElement)
    BY DEF MessageInv, SetUpInv
  <1>4. /\ m \in Message /\ m.header.source \in Seq(SafeElement)
        /\ m.header.destination \in Seq(SafeElement) /\ m.payload = Commands(w)
    BY <1>2, <1>3, ComposedTyped
  <1> HIDE DEF m
  <1>5. /\ \/ r.how = "broken"
           \/ r.how = "ok" /\ r.message.header = HeaderAsRead(m.header)
        /\ PayloadIsSafe(m.payload) =>
               r = [how |-> "ok",
                    message |-> [header |-> HeaderAsRead(m.header), payload |-> m.payload]]
    BY <1>4, MessageRead
  <1>6. ASSUME r.how = "broken" PROVE ~PayloadIsSafe(Commands(w))
    <2>1. CASE PayloadIsSafe(m.payload)
      <3>1. r.how = "ok"
        BY <1>5, <2>1
      <3>. QED  BY <1>6, <3>1
    <2>. QED  BY <1>4, <2>1
  <1>7. s \in sent /\ s.by = d.from /\ s.what = w
    BY <1>2
  <1>8. MessageAsString(m) \in Text
    BY <1>4, MessageText
  <1>9. r.how \in {"ok", "broken"}
    BY <1>5
  <1>10. Opened(d.from)
    BY <1>1 DEF CarriedOfProcess
  <1>11. d.data = [digest |-> Digest(config[d.from].hash_key, MessageAsString(m)),
                   text |-> MessageAsString(m)]
    BY <1>2 DEF Encode, m
  <1>. QED  BY <1>1, <1>4, <1>6, <1>7, <1>8, <1>9, <1>10, <1>11 DEF m

LEMMA DatagramOfOther ==
    ASSUME MessageInv, NEW d \in net, d.from \notin Process
    PROVE  /\ d.to \in Process /\ d.from = FOREIGNER
           /\ \E f \in Foreign :
                  /\ [by |-> FOREIGNER, what |-> f] \in sent
                  /\ d.holds = f.message /\ f.text \in Text
                  /\ d.data = [digest |-> Digest(f.key, f.text), text |-> f.text]
  <1>1. d.to \in Process /\ CarriedOfOther(d)
    BY DEF MessageInv, Carried, CarriedOfProcess
  <1>2. \A f \in Foreign : f.text \in Text
    BY LinkAssumption
  <1>. QED  BY <1>1, <1>2 DEF CarriedOfOther

\* What __mbus_link_udp_event adds to the histories is as the invariant says.
LEMMA HeardByReading ==
    ASSUME LinkInv, MessageInv, NEW p \in Process, NEW d \in net,
           DigestMatches(config[p], Received(d.data)),
           ReadMessage(Received(d.data).text).how = "ok",
           NEW h, h.from = d.from, h.holds = d.holds,
           h.message = ReadMessage(Received(d.data).text).message
    PROVE  HeardWell(h)
  <1>1. CASE d.from \in Process
    <2> DEFINE t == MessageAsString(d.holds)
               k == config[d.from].hash_key
    <2>1. t \in Text /\ CarriedOfProcess(d) /\ d.data = [digest |-> Digest(k, t), text |-> t]
      BY <1>1, DatagramOfProcess
    <2> HIDE DEF t, k
    <2>2. Received(d.data).text = t
      BY <2>1, WholeDatagrams
    <2>3. ReadMessage(t) = [how |-> "ok", message |-> h.message]
      BY <2>1, <2>2, ReadMessageTyped
    <2>4. Opened(h.from) /\ \E w \in Draft : h.holds = Composed(h.from, w)
      BY <2>1 DEF CarriedOfProcess
    <2>5. HeardOfProcess(h)
      BY <1>1, <2>3, <2>4 DEF HeardOfProcess, t
    <2>. QED  BY <2>5 DEF HeardWell
  <1>2. CASE d.from \notin Process
    <2>1. d.from = FOREIGNER
      BY <1>2, DatagramOfOther
    <2>2. PICK f \in Foreign :
              /\ d.holds = f.message /\ f.text \in Text
              /\ d.data = [digest |-> Digest(f.key, f.text), text |-> f.text]
      BY <1>2, DatagramOfOther
    <2>3. Received(d.data).text = f.text
      BY <2>2, WholeDatagrams
    <2>4. ReadMessage(f.text) = [how |-> "ok", message |-> h.message]
      BY <2>2, <2>3, ReadMessageTyped
    <2>5. HeardOfOther(h)
      BY <2>1, <2>2, <2>4 DEF HeardOfOther
    <2>. QED  BY <2>5 DEF HeardWell
  <1>. QED  BY <1>1, <1>2

LEMMA RefusedByKey ==
    ASSUME LinkInv, MessageInv, NEW p \in Process, fate[p] = "running",
           NEW d \in net,
           \/ ~DigestMatches(config[p], Received(d.data))
           \/ ReadMessage(Received(d.data).text).how = "refused"
    PROVE  RefusedWell(Refused(p, d))
  <1> DEFINE r == Refused(p, d)
             t == MessageAsString(d.holds)
             k == config[d.from].hash_key
  <1>1. r.by = p /\ r.from = d.from /\ r.length = Len(d.data.text)
    BY DEF Refused
  <1> HIDE DEF r
  <1>2. ASSUME d.from \in Process
        PROVE  /\ Opened(p) /\ Opened(d.from) /\ r.length \in Nat
               /\ r.length <= MaxText => k # config[p].hash_key
    <2>1. /\ t \in Text /\ Opened(d.from)
          /\ d.data = [digest |-> Digest(k, t), text |-> t]
          /\ ReadMessage(t).how # "refused"
      BY <1>2, DatagramOfProcess
    <2>2. r.length = Len(t) /\ r.length \in Nat
      <3>1. d.data.text = t
        BY <2>1
      <3>. QED  BY <1>1, <2>1, <3>1, TextLength
    <2> HIDE DEF t, k
    <2>3. ASSUME r.length <= MaxText, k = config[p].hash_key PROVE FALSE
      <3>1. DigestMatches(config[p], Received(d.data)) /\ Received(d.data).text = t
        BY <2>1, <2>2, <2>3, WholeDatagrams
      <3>. QED  BY <2>1, <3>1
    <2>4. Opened(p)
      BY DEF Opened
    <2>. QED  BY <2>1, <2>2, <2>3, <2>4
  <1>. QED  BY <1>1, <1>2 DEF RefusedWell, r, k

LEMMA UdpEventSays ==
    ASSUME LinkInv, MessageInv, NEW p \in Process, NEW d \in net, UdpEvent(p, d)
    PROVE  MessageInv' /\ Grows
  <1> DEFINE data == Received(d.data)
             r == ReadMessage(data.text)
             new == [by |-> p, from |-> d.from, key |-> d.data.digest.key,
                     holds |-> d.holds, message |-> r.message]
  <1>1. /\ fate[p] = "running"
        /\ d.to = p
        /\ net' \subseteq net
        /\ UNCHANGED <<file, config, address, sent>>
    BY DEF UdpEvent
  <1>2. /\ \/ fate' = fate
           \/ \E x \in {"freed", "aborted", "undefined"} : fate' = [fate EXCEPT ![p] = x]
        /\ \/ heard' = heard
           \/ DigestMatches(config[p], data) /\ r.how = "ok" /\ heard' = heard \union {new}
        /\ \/ refused' = refused
           \/ /\ ~DigestMatches(config[p], data) \/ r.how = "refused"
              /\ refused' = refused \union {Refused(p, d)}
    BY DEF UdpEvent, Becomes
  <1>3. SetUpInv' /\ Grows
    BY <1>1, <1>2, RunningGrows
  <1>4. SentInv'
    BY <1>1 DEF MessageInv, SentInv
  <1>5. \A c \in net' : Carried(c)'
    <2>1. SUFFICES ASSUME NEW c \in net' PROVE Carried(c)'
      OBVIOUS
    <2>. QED  BY <1>1, <1>3, CarriedKept DEF MessageInv
  <1>6. \A h \in heard' : HeardWell(h)'
    <2>1. SUFFICES ASSUME NEW h \in heard' PROVE HeardWell(h)
      BY <1>3, HeardWellKept
    <2>2. CASE h \in heard
      BY <2>2 DEF MessageInv
    <2>3. CASE DigestMatches(config[p], data) /\ r.how = "ok" /\ h = new
      <3>1. h.from = d.from /\ h.holds = d.holds /\ h.message = r.message
        BY <2>3
      <3>. QED  BY <2>3, <3>1, HeardByReading
    <2>. QED  BY <1>2, <2>1, <2>2, <2>3
  <1>7. \A x \in refused' : RefusedWell(x)'
    <2>1. SUFFICES ASSUME NEW x \in refused' PROVE RefusedWell(x)
      BY <1>3, RefusedWellKept
    <2>2. CASE x \in refused
      BY <2>2 DEF MessageInv
    <2>3. CASE /\ ~DigestMatches(config[p], data) \/ r.how = "refused"
               /\ x = Refused(p, d)
      BY <1>1, <2>3, RefusedByKey
    <2>. QED  BY <1>2, <2>1, <2>2, <2>3
  <1>. QED  BY <1>3, <1>4, <1>5, <1>6, <1>7 DEF MessageInv

(***************************************************************************)
(* The second invariant: all steps.                                        *)
(***************************************************************************)
LEMMA MessageInvStep ==
    ASSUME LinkInv, MessageInv, [Next]_vars
    PROVE  MessageInv' /\ Grows
  <1>1. ASSUME NEW p \in Process, Free(p) PROVE MessageInv' /\ Grows
    <2>1. /\ fate[p] = "running"
          /\ fate' = [fate EXCEPT ![p] = "freed"]
          /\ net' \subseteq net
          /\ UNCHANGED <<file, config, address, heard, refused, sent>>
      BY <1>1 DEF Free, Becomes
    <2>. QED  BY <2>1, RunningGrows, UnheardStep
  <1>2. ASSUME NEW p \in Process, ReadFails(p) PROVE MessageInv' /\ Grows
    <2>1. /\ fate[p] = "running"
          /\ UNCHANGED <<file, config, fate, address, net, heard, refused, sent>>
      BY <1>2 DEF ReadFails
    <2>. QED  BY <2>1, RunningGrows, UnheardStep
  <1>3. CASE UNCHANGED vars
    <2>1. UNCHANGED <<file, config, fate, address, net, heard, refused, sent>>
      BY <1>3 DEF vars
    <2>2. Grows
      BY <2>1 DEF Grows, Opened
    <2>3. SetUpInv'
      BY <2>1 DEF MessageInv, SetUpInv
    <2>. QED  BY <2>1, <2>2, <2>3, UnheardStep
  <1>4. CASE Next
    <2>1. PICK p \in Process :
            \/ \E f \in Files[p] : ReadConfig(p, f)
            \/ \E a \in Algorithm : SetAlgorithm(p, a)
            \/ Open(p)
            \/ Free(p)
            \/ \E d \in Draft, to \in Process \union {GROUP} : Send(p, d, to)
            \/ \E f \in Foreign : SendForeign(p, f)
            \/ \E d \in net : UdpEvent(p, d)
            \/ ReadFails(p)
      BY <1>4 DEF Next
    <2>2. ASSUME NEW f \in Files[p], ReadConfig(p, f) PROVE MessageInv' /\ Grows
      BY <2>2, ReadConfigSays
    <2>3. ASSUME NEW a \in Algorithm, SetAlgorithm(p, a) PROVE MessageInv' /\ Grows
      BY <2>3, SetAlgorithmSays
    <2>4. ASSUME Open(p) PROVE MessageInv' /\ Grows
      BY <2>4, OpenSays
    <2>5. ASSUME NEW d \in Draft, NEW to \in Process \union {GROUP}, Send(p, d, to)
          PROVE  MessageInv' /\ Grows
      BY <2>5, SendSays
    <2>6. ASSUME NEW f \in Foreign, SendForeign(p, f) PROVE MessageInv' /\ Grows
      BY <2>6, SendForeignSays
    <2>7. ASSUME NEW d \in net, UdpEvent(p, d) PROVE MessageInv' /\ Grows
      BY <2>7, UdpEventSays
    <2>. QED  BY <1>1, <1>2, <2>1, <2>2, <2>3, <2>4, <2>5, <2>6, <2>7
  <1>. QED  BY <1>3, <1>4

\* Each datagram of a process is the text of something that mbus_link_send was
\* given, what its listeners hear is what mbus_message_read makes of such a text,
\* and what __mbus_link_udp_event refuses has another key or does not fit.
THEOREM MessageInvHolds == Spec => [](LinkInv /\ MessageInv)
  <1>1. Init => LinkInv /\ MessageInv
    BY LinkInvInit, MessageInvInit
  <1>2. (LinkInv /\ MessageInv) /\ [Next]_vars => (LinkInv /\ MessageInv)'
    <2>1. SUFFICES ASSUME LinkInv, MessageInv, [Next]_vars PROVE LinkInv' /\ MessageInv'
      OBVIOUS
    <2>. QED  BY <2>1, LinkInvStep, MessageInvStep
  <1>. QED  BY <1>1, <1>2, PTL DEF Spec

(***************************************************************************)
(* What is undefined has its reason.                                       *)
(***************************************************************************)
\* Programs that write their messages as this library does are such programs.
LEMMA OwnTextsAreUnderstood ==
    ASSUME \A f \in Foreign : /\ f.text = MessageAsString(f.message)
                              /\ f.message.header.timestamp = Clock
                              /\ f.message.header.source \in Seq(SafeElement)
                              /\ f.message.header.destination \in Seq(SafeElement)
    PROVE  OthersAreUnderstood
  <1> SUFFICES ASSUME NEW f \in Foreign
               PROVE  /\ PayloadIsSafe(f.message.payload) => ReadMessage(f.text).how # "broken"
                      /\ MessageIsSafe(f.message) => ReadMessage(f.text).message = f.message
    BY DEF OthersAreUnderstood
  <1> DEFINE m == f.message
             r == ReadMessage(f.text)
  <1>1. /\ m \in Message /\ f.text = MessageAsString(m) /\ m.header.timestamp = Clock
        /\ m.header.source \in Seq(SafeElement) /\ m.header.destination \in Seq(SafeElement)
    BY LinkAssumption
  <1> HIDE DEF m
  <1>2. ASSUME PayloadIsSafe(m.payload) PROVE r.how # "broken"
    <2>1. r = [how |-> "ok",
               message |-> [header |-> HeaderAsRead(m.header), payload |-> m.payload]]
      BY <1>1, <1>2, MessageRead
    <2>2. r.how = "ok"
      BY <2>1
    <2>. QED  BY <2>2
  <1>3. ASSUME MessageIsSafe(m) PROVE r.message = m
    <2>1. r = [how |-> "ok", message |-> m]
      BY <1>1, <1>3, MessageRoundTrip
    <2>. QED  BY <2>1
  <1>. QED  BY <1>2, <1>3 DEF m

\* The reasons that OnlyUnsafeIsUndefined names.
Explained(p) ==
    \/ ReadsNull(file[p])
    \/ ~CoderIsOk(config[p])
    \/ \E s \in sent : s.by = p /\ Misspoken(s.what)
    \/ \E s \in sent : ~PayloadIsSafe(IF s.by = FOREIGNER THEN s.what.message.payload
                                      ELSE Commands(s.what))
    \/ ReadAddress(AddressText[p], 1).past

LEMMA ExplainedKept ==
    ASSUME Grows, NEW p \in Process, Opened(p), Explained(p)
    PROVE  Explained(p)'
  <1>1. file'[p] = file[p] /\ config'[p] = config[p] /\ sent \subseteq sent'
    BY DEF Grows
  <1>. QED  BY <1>1 DEF Explained

LEMMA SendExplains ==
    ASSUME LinkInv, MessageInv, NEW p \in Process, NEW w \in Draft,
           NEW to \in Process \union {GROUP}, Send(p, w, to),
           NEW q \in Process, fate[q] # "undefined", fate'[q] = "undefined"
    PROVE  Explained(q)'
  <1> DEFINE s == [by |-> p, what |-> w]
             m == Composed(p, w)
  <1>1. /\ s \in sent' /\ s.by = p /\ s.what = w /\ config' = config
        /\ fate' = fate \/ \E x : fate' = [fate EXCEPT ![p] = x]
        /\ \/ Misspoken(w)
           \/ IsUndefined(p, m)
           \/ fate' = fate \/ fate' = [fate EXCEPT ![p] = "aborted"]
    BY DEF Send, SendFails, SendSucceeds, Becomes
  <1>2. q = p /\ (Misspoken(w) \/ IsUndefined(p, m))
    BY <1>1 DEF LinkInv, ConfigInv
  <1>3. m.payload = Commands(w) /\ p # FOREIGNER
    <2>1. address[p] \in Seq(SafeElement)
      BY DEF MessageInv, SetUpInv
    <2>. QED  BY <2>1, ComposedTyped, LinkAssumption
  <1> HIDE DEF s, m
  <1>4. CASE Misspoken(w)
    <2>1. \E x \in sent' : x.by = q /\ Misspoken(x.what)
      BY <1>1, <1>2, <1>4
    <2>. QED  BY <2>1 DEF Explained
  <1>5. CASE ~CoderIsOk(config[p])
    BY <1>1, <1>2, <1>5 DEF Explained
  <1>6. CASE \E i \in DOMAIN m.payload : Overruns(m.payload[i].arguments)
    <2>1. ~PayloadIsSafe(Commands(w))
      BY <1>3, <1>6, OverrunsIsUnsafe
    <2>2. \E x \in sent' : ~PayloadIsSafe(IF x.by = FOREIGNER THEN x.what.message.payload
                                          ELSE Commands(x.what))
      BY <1>1, <1>3, <2>1
    <2>. QED  BY <2>2 DEF Explained
  <1>. QED  BY <1>2, <1>4, <1>5, <1>6 DEF IsUndefined

LEMMA UdpEventExplains ==
    ASSUME LinkInv, MessageInv, OthersAreUnderstood,
           NEW p \in Process, NEW d \in net, UdpEvent(p, d),
           NEW q \in Process, fate[q] # "undefined", fate'[q] = "undefined"
    PROVE  Explained(q)'
  <1> DEFINE data == Received(d.data)
             Unsafe(s) == ~PayloadIsSafe(IF s.by = FOREIGNER THEN s.what.message.payload
                                         ELSE Commands(s.what))
  <1>1. /\ sent' = sent
        /\ \/ fate' = fate
           \/ DigestMatches(config[p], data) /\ ReadMessage(data.text).how = "broken"
    BY DEF UdpEvent, Becomes
  <1>2. DigestMatches(config[p], data) /\ ReadMessage(data.text).how = "broken"
    BY <1>1
  <1>3. CASE d.from \in Process
    <2> DEFINE t == MessageAsString(d.holds)
               k == config[d.from].hash_key
    <2>1. /\ t \in Text /\ d.data = [digest |-> Digest(k, t), text |-> t]
          /\ ReadMessage(t).how = "broken" =>
                 \E s \in sent : s.by = d.from /\ ~PayloadIsSafe(Commands(s.what))
      BY <1>3, DatagramOfProcess
    <2> HIDE DEF t, k
    <2>2. data.text = t
      BY <1>2, <2>1, WholeDatagrams
    <2>3. PICK s \in sent : s.by = d.from /\ ~PayloadIsSafe(Commands(s.what))
      BY <1>2, <2>1, <2>2
    <2>4. s.by # FOREIGNER
      BY <1>3, <2>3, LinkAssumption
    <2>5. \E x \in sent' : Unsafe(x)
      BY <1>1, <2>3, <2>4
    <2>. QED  BY <2>5 DEF Explained
  <1>4. CASE d.from \notin Process
    <2>1. PICK f \in Foreign :
              /\ [by |-> FOREIGNER, what |-> f] \in sent /\ f.text \in Text
              /\ d.data = [digest |-> Digest(f.key, f.text), text |-> f.text]
      BY <1>4, DatagramOfOther
    <2>2. data.text = f.text
      BY <1>2, <2>1, WholeDatagrams
    <2>3. ~PayloadIsSafe(f.message.payload)
      BY <1>2, <2>2 DEF OthersAreUnderstood
    <2>4. \E x \in sent' : Unsafe(x)
      <3> DEFINE s == [by |-> FOREIGNER, what |-> f]
      <3>1. s \in sent' /\ s.by = FOREIGNER /\ s.what = f
        BY <1>1, <2>1
      <3> HIDE DEF s
      <3>. QED  BY <2>3, <3>1
    <2>. QED  BY <2>4 DEF Explained
  <1>. QED  BY <1>3, <1>4

\* The steps before anything is sent.
LEMMA SettingUpExplains ==
    ASSUME LinkInv, MessageInv, NEW p \in Process,
           \/ \E f \in Files[p] : ReadConfig(p, f)
           \/ Open(p),
           NEW q \in Process, fate[q] # "undefined", fate'[q] = "undefined"
    PROVE  Explained(q)'
  <1>1. fate \in [Process -> Fate] /\ file \in [Process -> File \union {Missing}]
    BY DEF LinkInv, ConfigInv
  <1>2. ASSUME NEW f \in Files[p], ReadConfig(p, f) PROVE Explained(q)'
    <2>1. /\ file' = [file EXCEPT ![p] = f]
          /\ \/ ReadsNull(f) /\ fate' = [fate EXCEPT ![p] = "undefined"]
             \/ \E x \in {"aborted", "configured"} : fate' = [fate EXCEPT ![p] = x]
      BY <1>2 DEF ReadConfig, Becomes
    <2>2. q = p /\ ReadsNull(f) /\ file'[p] = f
      BY <1>1, <2>1
    <2>. QED  BY <2>2 DEF Explained
  <1>3. ASSUME Open(p) PROVE Explained(q)'
    <2> DEFINE a == ReadAddress(AddressText[p], 1)
    <2>1. \/ a.past /\ fate' = [fate EXCEPT ![p] = "undefined"]
          \/ fate' = [fate EXCEPT ![p] = "running"]
      BY <1>3, Zenon DEF Open, Becomes
    <2> HIDE DEF a
    <2>2. q = p /\ a.past
      BY <1>1, <2>1
    <2>. QED  BY <2>2 DEF Explained, a
  <1>. QED  BY <1>2, <1>3

LEMMA UndefinedStep ==
    ASSUME OthersAreUnderstood, LinkInv, MessageInv, OnlyUnsafeIsUndefined, [Next]_vars
    PROVE  OnlyUnsafeIsUndefined'
  <1> SUFFICES ASSUME NEW q \in Process, fate'[q] = "undefined" PROVE Explained(q)'
    BY DEF OnlyUnsafeIsUndefined, Explained
  <1>1. CASE fate[q] = "undefined"
    <2>1. Explained(q) /\ Opened(q)
      BY <1>1 DEF OnlyUnsafeIsUndefined, Explained, Opened
    <2>. QED  BY <2>1, MessageInvStep, ExplainedKept
  <1>2. CASE fate[q] # "undefined"
    <2>1. Next
      BY <1>2 DEF vars
    <2>2. PICK p \in Process :
            \/ \E f \in Files[p] : ReadConfig(p, f)
            \/ \E a \in Algorithm : SetAlgorithm(p, a)
            \/ Open(p)
            \/ Free(p)
            \/ \E d \in Draft, to \in Process \union {GROUP} : Send(p, d, to)
            \/ \E f \in Foreign : SendForeign(p, f)
            \/ \E d \in net : UdpEvent(p, d)
            \/ ReadFails(p)
      BY <2>1 DEF Next
    <2>3. CASE (\E f \in Files[p] : ReadConfig(p, f)) \/ Open(p)
      BY <1>2, <2>3, SettingUpExplains
    <2>4. ASSUME NEW d \in Draft, NEW to \in Process \union {GROUP}, Send(p, d, to)
          PROVE  Explained(q)'
      BY <1>2, <2>4, SendExplains
    <2>5. ASSUME NEW d \in net, UdpEvent(p, d) PROVE Explained(q)'
      BY <1>2, <2>5, UdpEventExplains
    <2>6. CASE Free(p)
      <3>1. fate' = [fate EXCEPT ![p] = "freed"] /\ fate \in [Process -> Fate]
        BY <2>6 DEF Free, Becomes, LinkInv, ConfigInv
      <3>. QED  BY <1>2, <3>1
    <2>7. CASE \/ \E a \in Algorithm : SetAlgorithm(p, a)
               \/ \E f \in Foreign : SendForeign(p, f)
               \/ ReadFails(p)
      BY <1>2, <2>7 DEF SetAlgorithm, SendForeign, ReadFails
    <2>. QED  BY <2>2, <2>3, <2>4, <2>5, <2>6, <2>7
  <1>. QED  BY <1>1, <1>2

(***************************************************************************)
(* What the two invariants say of what is heard.                           *)
(***************************************************************************)
LEMMA HeardText ==
    ASSUME MessageInv, NEW h \in heard, h.from \in Process
    PROVE  /\ h.holds \in Message
           /\ h.holds.header.source = address[h.from]
           /\ h.holds.header.source \in Seq(SafeElement)
           /\ h.holds.header.destination \in Seq(SafeElement)
           /\ h.holds.header.timestamp = Clock
           /\ MessageAsString(h.holds) \in Text
           /\ ReadMessage(MessageAsString(h.holds)) = [how |-> "ok", message |-> h.message]
  <1>1. HeardOfProcess(h)
    BY LinkAssumption DEF MessageInv, HeardWell, HeardOfOther
  <1>2. PICK w \in Draft : h.holds = Composed(h.from, w)
    BY <1>1 DEF HeardOfProcess
  <1>3. address[h.from] \in Seq(SafeElement)
    BY DEF MessageInv, SetUpInv
  <1>4. /\ h.holds \in Message
        /\ h.holds.header.source = address[h.from]
        /\ h.holds.header.destination \in Seq(SafeElement)
        /\ h.holds.header.timestamp = Clock
    BY <1>2, <1>3, ComposedTyped
  <1>5. MessageAsString(h.holds) \in Text
    BY <1>4, MessageText
  <1>6. ReadMessage(MessageAsString(h.holds)) = [how |-> "ok", message |-> h.message]
    BY <1>1 DEF HeardOfProcess
  <1>. QED  BY <1>3, <1>4, <1>5, <1>6

LEMMA TypesFollow == LinkInv /\ MessageInv => TypeOK
  <1> SUFFICES ASSUME LinkInv, MessageInv PROVE TypeOK
    OBVIOUS
  <1>1. /\ \A p \in Process : file[p] \in Files[p] \union {Missing}
        /\ config \in [Process -> Config]
        /\ fate \in [Process -> Fate]
        /\ error \in [Process -> MErrorType]
    BY DEF LinkInv, ConfigInv, MessageInv, SetUpInv
  <1>2. \A p \in Process : address[p] \in Address
    BY SafeElementsAreElements DEF MessageInv, SetUpInv
  <1>3. \A d \in net : d.to \in Process /\ d.from \in Process \union {FOREIGNER}
    BY DEF MessageInv, Carried, CarriedOfProcess, CarriedOfOther
  <1>4. ASSUME NEW h \in heard PROVE h.message \in Message
    <2>1. ASSUME NEW t \in Text, ReadMessage(t) = [how |-> "ok", message |-> h.message]
          PROVE  h.message \in Message
      <3>1. ReadMessage(t).how = "ok" /\ ReadMessage(t).message = h.message
        BY <2>1
      <3>. QED  BY <3>1, ReadMessageTyped
    <2>2. CASE HeardOfProcess(h)
      <3>1. h.from \in Process
        BY <2>2 DEF HeardOfProcess
      <3>. QED  BY <2>1, <3>1, HeardText
    <2>3. CASE HeardOfOther(h)
      <3>1. PICK f \in Foreign : ReadMessage(f.text) = [how |-> "ok", message |-> h.message]
        BY <2>3 DEF HeardOfOther
      <3>2. f.text \in Text
        BY LinkAssumption
      <3>. QED  BY <2>1, <3>1, <3>2
    <2>. QED  BY <2>2, <2>3 DEF MessageInv, HeardWell
  <1>5. ASSUME NEW s \in sent
        PROVE  IF s.by = FOREIGNER THEN s.what \in Foreign
                                   ELSE s.by \in Process /\ s.what \in Draft
    BY LinkAssumption DEF MessageInv, SentInv
  <1>. QED  BY <1>1, <1>2, <1>3, <1>4, <1>5 DEF TypeOK

LEMMA EqualSessionsFollow == MessageInv => EqualSessionsUnderstand
  <1> SUFFICES ASSUME MessageInv, NEW r \in refused, r.from \in Process,
                      ConfigIsEqual(config[r.from], config[r.by])
               PROVE  r.length > MaxText
    BY DEF EqualSessionsUnderstand
  <1>1. config[r.from].hash_key = config[r.by].hash_key
    BY DEF ConfigIsEqual
  <1>2. r.length \in Nat /\ ~(r.length <= MaxText)
    BY <1>1 DEF MessageInv, RefusedWell
  <1>. QED  BY <1>2, LinkAssumption

LEMMA AddressesFollow == MessageInv => KnownByOneAddress
  <1> SUFFICES ASSUME MessageInv, NEW h \in heard, h.from \in Process
               PROVE  LET source == h.message.header.source
                      IN  /\ IsEqual(source, address[h.from])
                          /\ IsEqual(address[h.from], source)
                          /\ HashedBy(source) = HashedBy(address[h.from])
    BY DEF KnownByOneAddress
  <1> DEFINE a == address[h.from]
             m == h.holds
             r == ReadMessage(MessageAsString(m))
  <1>1. /\ m \in Message /\ m.header.source = a /\ a \in Seq(SafeElement)
        /\ m.header.destination \in Seq(SafeElement)
        /\ r = [how |-> "ok", message |-> h.message]
    BY HeardText
  <1>2. a \in Address /\ InOrder(a)
    BY <1>1, SafeElementsAreElements DEF MessageInv, SetUpInv
  <1> HIDE DEF a, m
  <1>3. r.how = "ok" /\ r.message = h.message
    BY <1>1
  <1>4. r.message.header = HeaderAsRead(m.header)
    BY <1>1, <1>3, MessageRead
  <1>5. h.message.header.source = Sorted(a)
    BY <1>1, <1>3, <1>4 DEF HeaderAsRead
  <1>6. h.message.header.source = a
    BY <1>2, <1>5, SortedKeepsOrder
  <1>. QED  BY <1>2, <1>6, EqualityOfAddresses DEF a

LEMMA SafeFollow == OthersAreUnderstood /\ MessageInv => HeardAsSent
  <1> SUFFICES ASSUME OthersAreUnderstood, MessageInv, NEW h \in heard,
                      MessageIsSafe(h.holds)
               PROVE  h.message = h.holds
    BY DEF HeardAsSent
  <1>1. CASE HeardOfProcess(h)
    <2>1. h.from \in Process
      BY <1>1 DEF HeardOfProcess
    <2>2. /\ h.holds \in Message /\ h.holds.header.timestamp = Clock
          /\ ReadMessage(MessageAsString(h.holds)) = [how |-> "ok", message |-> h.message]
      BY <2>1, HeardText
    <2>3. ReadMessage(MessageAsString(h.holds)) = [how |-> "ok", message |-> h.holds]
      BY <2>2, MessageRoundTrip
    <2>. QED  BY <2>2, <2>3
  <1>2. CASE HeardOfOther(h)
    <2>1. PICK f \in Foreign : /\ h.holds = f.message
                               /\ ReadMessage(f.text) = [how |-> "ok", message |-> h.message]
      BY <1>2 DEF HeardOfOther
    <2>2. ReadMessage(f.text).how = "ok" /\ ReadMessage(f.text).message = h.message
      BY <2>1
    <2>. QED  BY <2>1, <2>2 DEF OthersAreUnderstood
  <1>. QED  BY <1>1, <1>2 DEF MessageInv, HeardWell

(***************************************************************************)
(* Theorems about messages.                                                *)
(***************************************************************************)
\* What the link, the transport's address and the readers of src/gmbus put into
\* their variables is of the type these have.
THEOREM TypeCorrect == Spec => []TypeOK
  BY TypesFollow, MessageInvHolds, PTL

\* __mbus_link_udp_event of a process with an equal configuration
\* (mbus_config_is_equal) refuses no datagram of mbus_link_send that fits into
\* its buffer.
THEOREM EqualSessionsDo == Spec => []EqualSessionsUnderstand
  BY EqualSessionsFollow, MessageInvHolds, PTL

\* mbus_address_disambiguate at the sender and the sorting of mbus_address_read
\* at the receivers agree: the source of each message that is heard is the
\* address that its sender has, element by element, and hashes alike.
THEOREM OneAddressForEach == Spec => []KnownByOneAddress
  BY AddressesFollow, MessageInvHolds, PTL

\* What mbus_message_as_string makes of a safe message is what the listeners
\* get from mbus_message_read, if other programs write theirs as it is
\* understood here.
THEOREM SafeMessagesArrive ==
    ASSUME OthersAreUnderstood
    PROVE  Spec => []HeardAsSent
  <1>1. LinkInv /\ MessageInv => HeardAsSent
    BY SafeFollow
  <1>. QED  BY <1>1, MessageInvHolds, PTL

\* A process reaches what is undefined by a file without a key, an algorithm
\* that is not implemented, an application's text that can not be read or a
\* message that is not safe, and by nothing else.
THEOREM UndefinedByUnsafe ==
    ASSUME OthersAreUnderstood
    PROVE  Spec => []OnlyUnsafeIsUndefined
  <1>1. Init => OnlyUnsafeIsUndefined
    BY DEF Init, OnlyUnsafeIsUndefined
  <1>2. LinkInv /\ MessageInv /\ OnlyUnsafeIsUndefined /\ [Next]_vars => OnlyUnsafeIsUndefined'
    BY UndefinedStep
  <1>. QED  BY <1>1, <1>2, MessageInvHolds, PTL DEF Spec

=============================================================================
