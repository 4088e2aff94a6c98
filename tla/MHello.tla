------------------------------- MODULE MHello -------------------------------
(***************************************************************************)
(* The hello protocol of src/gmbus/mtrans.c: every entity announces itself  *)
(* at intervals that grow with its table of known entities, and forgets     *)
(* those it has not heard of for five of the longest intervals of a table   *)
(* of its own size.                                                         *)
(*                                                                          *)
(* Time is discrete, one unit is 100 ms.  A datagram takes less than a unit *)
(* to arrive, if it does.  A timer of the main loop fires when it is due or *)
(* at most MaxLate units later.  Sessions may be large: the entries of a    *)
(* table that belong to none of Entity are only counted.                    *)
(***************************************************************************)
EXTENDS Integers, FiniteSets

CONSTANTS
    Entity,        \* the entities whose processes are modelled
    Announcer,     \* those of them whose hellos are modelled
    Watcher,       \* those of them whose tables are modelled
    OtherCount,    \* possible numbers of further entries in a table
    Lossy,         \* may the network drop a datagram?
    Traffic,       \* are there messages other than hellos?
    MaxLate,       \* how late a timer may fire
    MaxRuns,       \* bound: how often an announcer is started
    MaxCount       \* bound: all of OtherCount, hence the size of a table

ASSUME HelloAssumption ==
    /\ IsFiniteSet(Entity)
    /\ Announcer \subseteq Entity
    /\ Watcher \subseteq Entity
    /\ MaxCount \in Nat
    /\ OtherCount \subseteq 0 .. MaxCount
    /\ OtherCount # {}
    /\ Lossy \in BOOLEAN
    /\ Traffic \in BOOLEAN
    /\ MaxLate \in Nat
    /\ MaxRuns \in Nat

\* mtrans.c:31-35, in units of 100 ms.
c_hello_factor == 2
c_hello_min    == 10
c_hello_dead   == 5
LostPeriod     == 10

\* No entry in the table.
Unknown == -1

VARIABLES
    up,          \* the process runs
    run,         \* how often an announcer was started: the port of its socket
    hello_timer, \* time until the hello timer is due
    lost_timer,  \* time until the lost timer is due
    age,         \* watcher -> entity -> time since last_hello, or Unknown
    endpoint,    \* watcher -> entity -> run the entry was created for
    \* --- history variables, read by no guard
    missed,      \* hellos a watcher missed since it set last_hello
    down,        \* how long the process has not been running
    brief        \* the last time it was not running was not longer than
                 \* Forgetting

vars == <<up, run, hello_timer, lost_timer, age, endpoint, missed, down, brief>>

Known(w) == {e \in Announcer : age[w][e] # Unknown}

\* g_hash_table_size( self->entities ).  The entities outside the model come
\* and go: their number is any of OtherCount whenever it is asked for.
TableSizes(e) ==
    IF e \in Watcher THEN {n + Cardinality(Known(e)) : n \in OtherCount}
                     ELSE OtherCount

\* max( size * c_hello_factor, c_hello_min )
HelloInterval(size) ==
    IF size * c_hello_factor < c_hello_min THEN c_hello_min
                                           ELSE size * c_hello_factor

\* Mutant: the larger bound of the dither is 2.
DitheredMutant(size) ==
    {d \in 0 .. 2 * HelloInterval(size) : /\ 9 * HelloInterval(size) <= 10 * d
                                         /\ 10 * d <= 20 * HelloInterval(size)}

\* __calculate_hello_interval: between 0.9 and 1.1 times the interval.
Dithered(size) ==
    {d \in 0 .. 2 * HelloInterval(size) : /\ 9 * HelloInterval(size) <= 10 * d
                                         /\ 10 * d <= 11 * HelloInterval(size)}

\* Mutant: an interval for as many entities as the table has.
IsDeadMutant(size) == (c_hello_dead * HelloInterval(size) * 11) \div 10

\* __mbus_transport_check_lost_entities: 5 * interval * 1.1, with an interval
\* for one entity more than the table has.  (The interval is even.)
IsDead(size) == (c_hello_dead * HelloInterval(size + 1) * 11) \div 10

LargestSize     == MaxCount + Cardinality(Entity)
LongestInterval == (11 * HelloInterval(LargestSize)) \div 10
LongestDead     == IsDead(LargestSize)

\* An entity that is not heard of for that long is out of every table.
Forgetting == LongestDead + LostPeriod + MaxLate

TypeOK ==
    /\ up \in [Entity -> BOOLEAN]
    /\ run \in [Announcer -> Nat]
    /\ hello_timer \in [Announcer -> -MaxLate .. LongestInterval]
    /\ lost_timer \in [Watcher -> -MaxLate .. LostPeriod]
    /\ age \in [Watcher -> [Announcer -> Nat \union {Unknown}]]
    /\ endpoint \in [Watcher -> [Announcer -> Nat]]
    /\ missed \in [Watcher -> [Announcer -> Nat]]
    /\ down \in [Announcer -> 0 .. Forgetting + 1]
    /\ brief \in [Announcer -> BOOLEAN]

Init ==
    /\ up = [e \in Entity |-> FALSE]
    /\ run = [e \in Announcer |-> 0]
    /\ hello_timer = [e \in Announcer |-> 0]
    /\ lost_timer = [w \in Watcher |-> 0]
    /\ age = [w \in Watcher |-> [e \in Announcer |-> Unknown]]
    /\ endpoint = [w \in Watcher |-> [e \in Announcer |-> 0]]
    /\ missed = [w \in Watcher |-> [e \in Announcer |-> 0]]
    /\ down = [e \in Announcer |-> Forgetting + 1]
    /\ brief = [e \in Announcer |-> FALSE]

-----------------------------------------------------------------------------
\* __mbus_transport_init: the hello timer is due at once, the lost timer after
\* a second.
Start(e) ==
    /\ ~up[e]
    /\ up' = [up EXCEPT ![e] = TRUE]
    /\ IF e \in Announcer
         THEN /\ run[e] < MaxRuns
              /\ run' = [run EXCEPT ![e] = @ + 1]
              /\ brief' = [brief EXCEPT ![e] = down[e] <= Forgetting]
              /\ down' = [down EXCEPT ![e] = 0]
         ELSE UNCHANGED <<run, brief, down>>
    /\ lost_timer' = IF e \in Watcher THEN [lost_timer EXCEPT ![e] = LostPeriod]
                                      ELSE lost_timer
    /\ UNCHANGED <<hello_timer, age, endpoint, missed>>

\* The table of w without the entries of S.
Forget(w, S) ==
    /\ age' = [age EXCEPT ![w] = [e \in Announcer |-> IF e \in S THEN Unknown ELSE @[e]]]
    /\ endpoint' = [endpoint EXCEPT ![w] = [e \in Announcer |-> IF e \in S THEN 0 ELSE @[e]]]
    /\ missed' = [missed EXCEPT ![w] = [e \in Announcer |-> IF e \in S THEN 0 ELSE @[e]]]

\* The process ends, with or without a bye: nothing is done about a bye.  Its
\* table and its timers are gone.
Stop(e) ==
    /\ up[e]
    /\ up' = [up EXCEPT ![e] = FALSE]
    /\ hello_timer' = IF e \in Announcer THEN [hello_timer EXCEPT ![e] = 0]
                                         ELSE hello_timer
    /\ IF e \in Watcher
         THEN /\ lost_timer' = [lost_timer EXCEPT ![e] = 0]
              /\ Forget(e, Announcer)
         ELSE UNCHANGED <<lost_timer, age, endpoint, missed>>
    /\ UNCHANGED <<run, down, brief>>

\* The watchers that can receive a message of e: those that run; e itself
\* ignores its own.
Listeners(e) == {w \in Watcher : up[w] /\ w # e}

\* Mutant: only the entry's creation sets last_hello.
HeardMutant(w, e) == IF age[w][e] = Unknown THEN 0 ELSE age[w][e]

\* __mbus_transport_recv_hello: last_hello of the entry is the present time.
Heard(w, e) == 0

\* __mbus_transport_when_hello of e and, in the same unit of time, the receipt
\* by those of the listeners the network reaches:
\* __mbus_transport_check_for_new_entity and __mbus_transport_recv_hello.
WhenHello(e) ==
    \E got \in (IF Lossy THEN SUBSET Listeners(e) ELSE {Listeners(e)}) :
        /\ up[e]
        /\ hello_timer[e] <= 0
        /\ \E size \in TableSizes(e) : \E d \in Dithered(size) :
              hello_timer' = [hello_timer EXCEPT ![e] = d]
        /\ age' = [w \in Watcher |->
                     IF w \in got THEN [age[w] EXCEPT ![e] = Heard(w, e)]
                                  ELSE age[w]]
        /\ endpoint' = [w \in Watcher |->
                     IF w \in got /\ age[w][e] = Unknown
                       THEN [endpoint[w] EXCEPT ![e] = run[e]]
                       ELSE endpoint[w]]
        /\ missed' = [w \in Watcher |->
                     [missed[w] EXCEPT ![e] =
                        IF w \in got THEN 0
                        ELSE IF age[w][e] = Unknown THEN 0 ELSE @ + 1]]
        /\ UNCHANGED <<up, run, lost_timer, down, brief>>

\* Any other message of e reaches w, a bye included: it creates an entry, with
\* last_hello set, but does not refresh one.
OtherMessage(w, e) ==
    /\ Traffic
    /\ up[e]
    /\ w \in Listeners(e)
    /\ age[w][e] = Unknown
    /\ age' = [age EXCEPT ![w][e] = 0]
    /\ endpoint' = [endpoint EXCEPT ![w][e] = run[e]]
    /\ missed' = [missed EXCEPT ![w][e] = 0]
    /\ UNCHANGED <<up, run, hello_timer, lost_timer, down, brief>>

\* Mutant: the interval is counted twice.
DeadEntitiesMutant(w, size) == {e \in Known(w) : IsDead(size) + IsDead(size) < age[w][e]}

\* The entries __find_dead_entities removes from a table of that size.
DeadEntities(w, size) == {e \in Known(w) : IsDead(size) < age[w][e]}

\* __mbus_transport_check_lost_entities
CheckLostEntities(w, size) ==
    /\ up[w]
    /\ lost_timer[w] <= 0
    /\ lost_timer' = [lost_timer EXCEPT ![w] = LostPeriod]
    /\ Forget(w, DeadEntities(w, size))
    /\ UNCHANGED <<up, run, hello_timer, down, brief>>

\* One unit of time.  A timer that is late by MaxLate fires first.
Tick ==
    /\ \A e \in Announcer : up[e] => hello_timer[e] > -MaxLate
    /\ \A w \in Watcher : up[w] => lost_timer[w] > -MaxLate
    /\ hello_timer' = [e \in Announcer |->
                         IF up[e] THEN hello_timer[e] - 1 ELSE hello_timer[e]]
    /\ lost_timer' = [w \in Watcher |->
                        IF up[w] THEN lost_timer[w] - 1 ELSE lost_timer[w]]
    /\ age' = [w \in Watcher |-> [e \in Announcer |->
                 IF up[w] /\ age[w][e] # Unknown THEN age[w][e] + 1
                                                 ELSE age[w][e]]]
    /\ down' = [e \in Announcer |->
                  IF up[e] \/ down[e] > Forgetting THEN down[e] ELSE down[e] + 1]
    /\ UNCHANGED <<up, run, endpoint, missed, brief>>

Next ==
    \/ \E e \in Entity : Start(e) \/ Stop(e)
    \/ \E e \in Announcer : WhenHello(e)
    \/ \E w \in Watcher : \/ \E e \in Announcer : OtherMessage(w, e)
                          \/ \E size \in TableSizes(w) : CheckLostEntities(w, size)
    \/ Tick

Spec == Init /\ [][Next]_vars

-----------------------------------------------------------------------------
(***************************************************************************)
(* Properties                                                               *)
(***************************************************************************)

\* The longest time between two hellos of e, as its own table may be.
LargestTable(e) == IF e \in Watcher THEN LargestSize ELSE MaxCount
LongestOf(e)    == (11 * HelloInterval(LargestTable(e))) \div 10
Period(e)       == LongestOf(e) + MaxLate

\* mtrans.h:91: "This callback function is invoked when an entity is lost".
\* An entity that is running is only given up after so many of its hellos in
\* a row were lost that, however large its own table and however late its
\* timer, the time between them exceeds five of the longest intervals of an
\* entity that knows one more than the watcher does.  Where no table has more
\* than five entries that takes five hellos, if timers fire in time.
SilenceBeforeLoss ==
    [][\A w \in Watcher, e \in Announcer : \A size \in TableSizes(w) :
          (/\ CheckLostEntities(w, size) /\ e \in DeadEntities(w, size)
           /\ up[e] /\ endpoint[w][e] = run[e])
             => (c_hello_dead * HelloInterval(size + 1) * 11) \div 10
                   < (missed[w][e] + 1) * Period(e)]_vars

\* An entry never survives the silence of its entity for longer than the
\* largest dead time, one period of the lost timer and its lateness.
EntriesAreFresh ==
    \A w \in Watcher, e \in Announcer :
        up[w] /\ e \in Known(w) => age[w][e] <= Forgetting

\* An entry keeps the endpoint of an earlier run of the entity only if the
\* entity was restarted before it was missed.
StaleEndpointsAreRecent ==
    \A w \in Watcher, e \in Announcer :
        (up[w] /\ up[e] /\ e \in Known(w) /\ endpoint[w][e] # run[e])
            => brief[e]
=============================================================================
