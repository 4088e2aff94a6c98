------------------------------- MODULE MConfig -------------------------------
(***************************************************************************)
(* The configuration of a session (src/gmbus/mconfig.c), as it is read from *)
(* the file .mbus, and the endpoints in it (src/gmbus/udp.c).               *)
(***************************************************************************)
EXTENDS Integers

CONSTANTS
    HashKey,    \* the keys a file may give
    Host,       \* IP addresses, of both families
    Port,       \* the ports that a file may give
    Missing     \* an entry that is not in the file

\* What the configuration of a host gives besides: names of addresses.
ANY       == "any"
LOOPBACK  == "loopback"
DEFAULT   == "224.255.222.239"
UNSET     == "unset"
Family    == {"AF_INET", "AF_INET6"}
Algorithm == {"M_HMAC_MD5_96", "M_HMAC_SHA1_96"}

\* MEndpoint: the two kinds of addresses lie in different bytes of it.
Endpoint ==
    [af_family : Family, port : Port \union {0},
     in : Host \union {ANY, LOOPBACK, DEFAULT, UNSET},
     in6 : Host \union {ANY, LOOPBACK, UNSET}]

\* An entry of the file that is an address, as it is written: with dots or
\* without, and whether inet_pton takes it.
Written == [dots : BOOLEAN, valid : BOOLEAN, host : Host]

\* The entries of a file.  A HASHKEY that is not a list of two is no key.
File ==
    [HASHKEY : HashKey \union {Missing}, ADDRESS : Written \union {Missing},
     PORT : Port \union {Missing}, SCOPE : {"HOSTLOCAL", "LINKLOCAL", Missing},
     INTERFACE : Written \union {Missing}, SEND_UNICAST : BOOLEAN \union {Missing}]

Config ==
    [hash_algo : Algorithm, hash_key : HashKey \union {UNSET}, group_addr : Endpoint,
     unicast_addr : Endpoint, send_unicast : BOOLEAN,
     scope : {"HOSTLOCAL", "LINKLOCAL"}]

(***************************************************************************)
(* Endpoints.                                                              *)
(***************************************************************************)
NewEndpoint(family) == [af_family |-> family, port |-> 0, in |-> UNSET, in6 |-> UNSET]

SetAddress4(ep, host) == [ep EXCEPT !.af_family = "AF_INET", !.in = host]
SetAddress6(ep, host) == [ep EXCEPT !.af_family = "AF_INET6", !.in6 = host]

\* The family follows the dots, valid or not, and what is not valid leaves the
\* address as it was.
SetAddressFromString(ep, s) ==
    IF s.dots THEN SetAddress4(ep, IF s.valid THEN s.host ELSE ep.in)
              ELSE SetAddress6(ep, IF s.valid THEN s.host ELSE ep.in6)

(***************************************************************************)
(* mbus_config_new and mbus_config_read.                                   *)
(***************************************************************************)
ConfigNew ==
    [hash_algo |-> "M_HMAC_MD5_96", hash_key |-> UNSET,
     group_addr |-> NewEndpoint("AF_INET"),
     unicast_addr |-> SetAddress4(NewEndpoint("AF_INET"), ANY),
     send_unicast |-> FALSE, scope |-> "HOSTLOCAL"]

\* Mutant: an entry that is not there gets no default.
OrMutant(entry, default) == entry

Or(entry, default) == IF entry = Missing THEN default ELSE entry

GroupAddress(f) ==
    LET ep == IF f.ADDRESS = Missing
              THEN SetAddress4(ConfigNew.group_addr, DEFAULT)
              ELSE SetAddressFromString(ConfigNew.group_addr, f.ADDRESS)
    IN  [ep EXCEPT !.port = Or(f.PORT, 0)]

\* Mutant: the address of the scope is an IPv4 one for every group.
ScopeAddressMutant(f) ==
    SetAddress4(ConfigNew.unicast_addr,
                IF Or(f.SCOPE, "HOSTLOCAL") = "HOSTLOCAL" THEN LOOPBACK ELSE ANY)

ScopeAddress(f) ==
    LET host == IF Or(f.SCOPE, "HOSTLOCAL") = "HOSTLOCAL" THEN LOOPBACK ELSE ANY
    IN  IF GroupAddress(f).af_family = "AF_INET"
        THEN SetAddress4(ConfigNew.unicast_addr, host)
        ELSE SetAddress6(ConfigNew.unicast_addr, host)

UnicastAddress(f) ==
    IF f.INTERFACE = Missing THEN ScopeAddress(f)
                             ELSE SetAddressFromString(ScopeAddress(f), f.INTERFACE)

\* A file whose HASHKEY is not there is read through a null pointer; one whose
\* ADDRESS is not valid ends the process.
ReadsNull(f) == f.HASHKEY = Missing
Aborts(f)    == f.ADDRESS # Missing /\ ~f.ADDRESS.valid

\* The algorithm that is named with the key is looked at, but it is HMAC-MD5 in
\* any case.
ConfigRead(f) ==
    [hash_algo |-> "M_HMAC_MD5_96", hash_key |-> f.HASHKEY,
     group_addr |-> GroupAddress(f), unicast_addr |-> UnicastAddress(f),
     send_unicast |-> Or(f.SEND_UNICAST, TRUE), scope |-> Or(f.SCOPE, "HOSTLOCAL")]

\* mbus_config_is_equal: neither the scope nor the address of the own socket
\* makes a difference.  There is no encryption and no key for it.
ConfigIsEqual(c, d) ==
    /\ c.hash_algo = d.hash_algo
    /\ c.hash_key = d.hash_key
    /\ c.group_addr = d.group_addr

=============================================================================
