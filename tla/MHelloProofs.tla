---------------------------- MODULE MHelloProofs ----------------------------
(***************************************************************************)
(* Theorems about MHello, for every set of entities, every size of table    *)
(* and every lateness of the timers.                                        *)
(***************************************************************************)
EXTENDS MHello, FiniteSetTheorems, TLAPS

(***************************************************************************)
(* The two intervals grow with the table.                                   *)
(***************************************************************************)
LEMMA IntervalGrows ==
    ASSUME NEW m \in Nat, NEW n \in Nat, m <= n
    PROVE  /\ HelloInterval(m) \in Nat
           /\ HelloInterval(m) >= 10
           /\ HelloInterval(m) <= HelloInterval(n)
  BY DEF HelloInterval, c_hello_factor, c_hello_min

LEMMA IsDeadGrows ==
    ASSUME NEW m \in Nat, NEW n \in Nat, m <= n
    PROVE  /\ IsDead(m) \in Nat
           /\ IsDead(m) <= IsDead(n)
           /\ (c_hello_dead * HelloInterval(m) * 11) \div 10 <= IsDead(m)
  <1> DEFINE g == HelloInterval(m)
             h == HelloInterval(m + 1)
             k == HelloInterval(n + 1)
  <1>1. g \in Nat /\ h \in Nat /\ k \in Nat /\ g <= h /\ h <= k
    BY IntervalGrows
  <1> HIDE DEF g, h, k
  <1>2. /\ (5 * g * 11) \div 10 <= (5 * h * 11) \div 10
        /\ (5 * h * 11) \div 10 <= (5 * k * 11) \div 10
        /\ (5 * h * 11) \div 10 \in Nat
    BY <1>1
  <1>. QED  BY <1>2 DEF IsDead, c_hello_dead, g, h, k

LEMMA DitheredBound ==
    ASSUME NEW m \in Nat, NEW n \in Nat, m <= n, NEW d \in Dithered(m)
    PROVE  d \in Nat /\ d <= (11 * HelloInterval(n)) \div 10
  <1> DEFINE g == HelloInterval(m)
             h == HelloInterval(n)
  <1>1. g \in Nat /\ h \in Nat /\ g <= h
    BY IntervalGrows
  <1>2. d \in Nat /\ 10 * d <= 11 * g
    BY <1>1 DEF Dithered
  <1> HIDE DEF g, h
  <1>3. d <= (11 * h) \div 10
    BY <1>1, <1>2
  <1>. QED  BY <1>2, <1>3 DEF h

\* The bounds of the module are numbers.
LEMMA Constants ==
    ASSUME HelloAssumption
    PROVE  /\ LargestSize \in Nat /\ MaxCount <= LargestSize
           /\ LongestInterval \in Nat /\ LongestInterval >= 11
           /\ LongestDead \in Nat
           /\ Forgetting \in Nat
           /\ LostPeriod \in Nat /\ MaxLate \in Nat
  <1>1. Cardinality(Entity) \in Nat
    BY FS_CardinalityType DEF HelloAssumption
  <1>2. LargestSize \in Nat /\ MaxCount <= LargestSize
    BY <1>1 DEF LargestSize, HelloAssumption
  <1>3. LongestInterval \in Nat /\ LongestInterval >= 11
    <2> DEFINE h == HelloInterval(LargestSize)
    <2>1. h \in Nat /\ h >= 10
      BY <1>2, IntervalGrows
    <2> HIDE DEF h
    <2>2. (11 * h) \div 10 \in Nat /\ (11 * h) \div 10 >= 11
      BY <2>1
    <2>. QED  BY <2>2 DEF LongestInterval, h
  <1>4. LongestDead \in Nat
    BY <1>2, IsDeadGrows DEF LongestDead
  <1>. QED
    BY <1>2, <1>3, <1>4 DEF Forgetting, LostPeriod, HelloAssumption

\* A table has no more entries than the largest of its owner, and of all.
LEMMA TableSizeBound ==
    ASSUME HelloAssumption, NEW e \in Announcer \union Watcher, NEW size \in TableSizes(e)
    PROVE  /\ size \in Nat /\ size <= LargestSize
           /\ size <= LargestTable(e)
  <1>1. /\ Cardinality(Known(e)) \in Nat
        /\ Cardinality(Known(e)) <= Cardinality(Entity)
        /\ Cardinality(Entity) \in Nat
    <2>1. Known(e) \subseteq Entity
      BY DEF Known, HelloAssumption
    <2>. QED  BY <2>1, FS_Subset, FS_CardinalityType DEF HelloAssumption
  <1>2. OtherCount \subseteq 0 .. MaxCount /\ MaxCount \in Nat
    BY DEF HelloAssumption
  <1>3. PICK n \in OtherCount :
           size = n \/ (e \in Watcher /\ size = n + Cardinality(Known(e)))
    BY DEF TableSizes
  <1>4. n \in 0 .. MaxCount
    BY <1>2, <1>3, Zenon
  <1>. QED  BY <1>1, <1>2, <1>3, <1>4 DEF LargestSize, LargestTable

\* The longest interval of one entity is one of all.
LEMMA LongestOfType ==
    ASSUME HelloAssumption, NEW e \in Announcer
    PROVE  /\ LongestOf(e) \in Nat /\ LongestOf(e) <= LongestInterval
           /\ Period(e) \in Nat
           /\ Period(e) = LongestOf(e) + MaxLate
  <1>1. /\ LargestTable(e) \in Nat /\ LargestTable(e) <= LargestSize
        /\ LargestSize \in Nat /\ MaxLate \in Nat
    BY Constants DEF LargestTable, HelloAssumption
  <1> DEFINE g == HelloInterval(LargestTable(e))
             h == HelloInterval(LargestSize)
  <1>2. g \in Nat /\ h \in Nat /\ g <= h
    BY <1>1, IntervalGrows
  <1> HIDE DEF g, h
  <1>3. (11 * g) \div 10 \in Nat /\ (11 * g) \div 10 <= (11 * h) \div 10
    BY <1>2
  <1>4. LongestOf(e) \in Nat /\ LongestOf(e) <= LongestInterval
    BY <1>3 DEF LongestOf, LongestInterval, g, h
  <1>. QED  BY <1>1, <1>4 DEF Period

\* What the hello timer is set to.
LEMMA NextHello ==
    ASSUME HelloAssumption, NEW e \in Announcer,
           NEW size \in TableSizes(e), NEW d \in Dithered(size)
    PROVE  d \in Nat /\ d <= LongestOf(e) /\ d <= LongestInterval
  <1>1. /\ size \in Nat /\ size <= LargestSize /\ size <= LargestTable(e)
        /\ LargestSize \in Nat /\ LargestTable(e) \in Nat
    BY TableSizeBound, Constants DEF LargestTable, HelloAssumption
  <1>2. d \in Nat /\ d <= (11 * HelloInterval(LargestTable(e))) \div 10
    BY <1>1, DitheredBound
  <1>3. d <= (11 * HelloInterval(LargestSize)) \div 10
    BY <1>1, DitheredBound
  <1>. QED  BY <1>2, <1>3 DEF LongestOf, LongestInterval

\* What a hello that reaches got does to the tables.
Effects(e, got) ==
    /\ up[e]
    /\ hello_timer[e] <= 0
    /\ age' = [w \in Watcher |->
                 IF w \in got THEN [age[w] EXCEPT ![e] = 0] ELSE age[w]]
    /\ endpoint' = [w \in Watcher |->
                 IF w \in got /\ age[w][e] = Unknown
                   THEN [endpoint[w] EXCEPT ![e] = run[e]]
                   ELSE endpoint[w]]
    /\ missed' = [w \in Watcher |->
                 [missed[w] EXCEPT ![e] =
                    IF w \in got THEN 0
                    ELSE IF age[w][e] = Unknown THEN 0 ELSE @ + 1]]
    /\ UNCHANGED <<up, run, lost_timer, down, brief>>

\* The next one is due in d.
Heralds(e, got, d) ==
    /\ Effects(e, got)
    /\ hello_timer' = [hello_timer EXCEPT ![e] = d]

LEMMA HelloEffect ==
    ASSUME HelloAssumption, TypeOK, NEW e \in Announcer, WhenHello(e)
    PROVE  \E got \in SUBSET Watcher, d \in 0 .. LongestInterval :
              Heralds(e, got, d) /\ d <= LongestOf(e) /\ \A w \in got : up[w]
  <1>1. PICK got \in SUBSET Listeners(e) :
           /\ \E size \in TableSizes(e) : \E d \in Dithered(size) :
                 hello_timer' = [hello_timer EXCEPT ![e] = d]
           /\ Effects(e, got)
    <2> DEFINE Next_d == \E size \in TableSizes(e) : \E d \in Dithered(size) :
                            hello_timer' = [hello_timer EXCEPT ![e] = d]
    <2>1. \E got \in (IF Lossy THEN SUBSET Listeners(e) ELSE {Listeners(e)}) :
             Next_d /\ Effects(e, got)
      BY DEF WhenHello, Effects, Heard
    <2> HIDE DEF Next_d
    <2>2. PICK got \in (IF Lossy THEN SUBSET Listeners(e) ELSE {Listeners(e)}) :
             Next_d /\ Effects(e, got)
      BY <2>1
    <2>3. got \in SUBSET Listeners(e)
      OBVIOUS
    <2>4. \E g \in SUBSET Listeners(e) : Next_d /\ Effects(e, g)
      BY <2>2, <2>3
    <2>. QED  BY <2>4 DEF Next_d
  <1>2. PICK size \in TableSizes(e) :
           \E d \in Dithered(size) : hello_timer' = [hello_timer EXCEPT ![e] = d]
    BY <1>1
  <1>2a. PICK d \in Dithered(size) : hello_timer' = [hello_timer EXCEPT ![e] = d]
    BY <1>2
  <1>3. d \in 0 .. LongestInterval /\ d <= LongestOf(e)
    BY NextHello, Constants
  <1>4. got \in SUBSET Watcher /\ \A w \in got : up[w]
    BY DEF Listeners
  <1>. QED  BY <1>1, <1>2a, <1>3, <1>4 DEF Heralds

-----------------------------------------------------------------------------
\* The tables after some entries of w were removed.
LEMMA ForgetType ==
    ASSUME TypeOK, NEW w \in Watcher, NEW S, Forget(w, S)
    PROVE  /\ age' \in [Watcher -> [Announcer -> Nat \union {Unknown}]]
           /\ endpoint' \in [Watcher -> [Announcer -> Nat]]
           /\ missed' \in [Watcher -> [Announcer -> Nat]]
  <1>1. age' \in [Watcher -> [Announcer -> Nat \union {Unknown}]]
    BY DEF TypeOK, Forget
  <1>2. endpoint' \in [Watcher -> [Announcer -> Nat]]
    BY DEF TypeOK, Forget
  <1>3. missed' \in [Watcher -> [Announcer -> Nat]]
    BY DEF TypeOK, Forget
  <1>. QED  BY <1>1, <1>2, <1>3

\* ... and what they hold for e.
LEMMA ForgetEffect ==
    ASSUME TypeOK, NEW v \in Watcher, NEW S, Forget(v, S),
           NEW w \in Watcher, NEW e \in Announcer
    PROVE  /\ v = w /\ e \in S => age'[w][e] = Unknown
           /\ ~(v = w /\ e \in S) => /\ age'[w][e] = age[w][e]
                                     /\ endpoint'[w][e] = endpoint[w][e]
                                     /\ missed'[w][e] = missed[w][e]
  <1>1. CASE v = w
    BY <1>1 DEF TypeOK, Forget
  <1>2. CASE v # w
    BY <1>2 DEF TypeOK, Forget
  <1>. QED  BY <1>1, <1>2

LEMMA TypeStep ==
    ASSUME HelloAssumption, TypeOK, [Next]_vars
    PROVE  TypeOK'
  <1>0. /\ LongestInterval \in Nat /\ LostPeriod \in Nat /\ MaxLate \in Nat
        /\ Forgetting \in Nat
    BY Constants
  <1>1. ASSUME NEW e \in Entity, Start(e) PROVE TypeOK'
    <2>1. up' \in [Entity -> BOOLEAN]
      BY <1>1 DEF Start, TypeOK
    <2>2. /\ run' \in [Announcer -> Nat]
          /\ down' \in [Announcer -> 0 .. Forgetting + 1]
          /\ brief' \in [Announcer -> BOOLEAN]
      <3>1. CASE e \in Announcer
        <4>1. 0 \in 0 .. Forgetting + 1
          BY <1>0
        <4>2. /\ run' = [run EXCEPT ![e] = @ + 1]
              /\ brief' = [brief EXCEPT ![e] = down[e] <= Forgetting]
              /\ down' = [down EXCEPT ![e] = 0]
          BY <1>1, <3>1 DEF Start
        <4>3. run' \in [Announcer -> Nat]
          <5>1. run \in [Announcer -> Nat] /\ run[e] + 1 \in Nat
            BY <3>1 DEF TypeOK
          <5>2. run' = [run EXCEPT ![e] = run[e] + 1]
            BY <4>2
          <5>. QED  BY <5>1, <5>2
        <4>5. down' \in [Announcer -> 0 .. Forgetting + 1]
          BY <4>1, <4>2 DEF TypeOK
        <4>4. brief' \in [Announcer -> BOOLEAN]
          <5>1. (down[e] <= Forgetting) \in BOOLEAN
            OBVIOUS
          <5>2. brief \in [Announcer -> BOOLEAN]
            BY DEF TypeOK
          <5>. QED  BY <4>2, <5>1, <5>2, ZenonT(30)
        <4>. QED  BY <4>3, <4>4, <4>5
      <3>2. CASE e \notin Announcer
        BY <1>1, <3>2 DEF Start, TypeOK
      <3>. QED  BY <3>1, <3>2
    <2>3. lost_timer' \in [Watcher -> -MaxLate .. LostPeriod]
      BY <1>0, <1>1 DEF Start, TypeOK
    <2>. QED  BY <1>1, <2>1, <2>2, <2>3 DEF Start, TypeOK
  <1>2. ASSUME NEW e \in Entity, Stop(e) PROVE TypeOK'
    <2>1. hello_timer' \in [Announcer -> -MaxLate .. LongestInterval]
      BY <1>0, <1>2 DEF Stop, TypeOK
    <2>2. /\ lost_timer' \in [Watcher -> -MaxLate .. LostPeriod]
          /\ age' \in [Watcher -> [Announcer -> Nat \union {Unknown}]]
          /\ endpoint' \in [Watcher -> [Announcer -> Nat]]
          /\ missed' \in [Watcher -> [Announcer -> Nat]]
      <3>1. CASE e \in Watcher
        <4>1. Forget(e, Announcer) /\ lost_timer' = [lost_timer EXCEPT ![e] = 0]
          BY <1>2, <3>1 DEF Stop
        <4>2. lost_timer' \in [Watcher -> -MaxLate .. LostPeriod]
          <5>1. 0 \in -MaxLate .. LostPeriod
            BY <1>0
          <5>. QED  BY <4>1, <5>1 DEF TypeOK
        <4>. QED  BY <3>1, <4>1, <4>2, ForgetType
      <3>2. CASE e \notin Watcher
        BY <1>2, <3>2 DEF Stop, TypeOK
      <3>. QED  BY <3>1, <3>2
    <2>. QED  BY <1>2, <2>1, <2>2 DEF Stop, TypeOK
  <1>3. ASSUME NEW e \in Announcer, WhenHello(e) PROVE TypeOK'
    <2>1. PICK got \in SUBSET Watcher, d \in 0 .. LongestInterval :
             Heralds(e, got, d)
      BY <1>3, HelloEffect
    <2>2. d \in -MaxLate .. LongestInterval
      BY <1>0
    <2>3. hello_timer' \in [Announcer -> -MaxLate .. LongestInterval]
      BY <2>1, <2>2 DEF TypeOK, Heralds, Effects
    <2>4. age' \in [Watcher -> [Announcer -> Nat \union {Unknown}]]
      BY <2>1 DEF TypeOK, Heralds, Effects
    <2>5. run[e] \in Nat
      BY DEF TypeOK
    <2>6. endpoint' \in [Watcher -> [Announcer -> Nat]]
      BY <2>1, <2>5 DEF TypeOK, Heralds, Effects
    <2>7. missed' \in [Watcher -> [Announcer -> Nat]]
      BY <2>1 DEF TypeOK, Heralds, Effects
    <2>. QED  BY <2>1, <2>3, <2>4, <2>6, <2>7 DEF Heralds, Effects, TypeOK
  <1>4. ASSUME NEW w \in Watcher, NEW e \in Announcer, OtherMessage(w, e)
        PROVE  TypeOK'
    BY <1>4 DEF OtherMessage, TypeOK, HelloAssumption
  <1>5. ASSUME NEW w \in Watcher, NEW size, CheckLostEntities(w, size) PROVE TypeOK'
    <2>1. lost_timer' \in [Watcher -> -MaxLate .. LostPeriod]
      BY <1>0, <1>5 DEF CheckLostEntities, TypeOK
    <2>. QED  BY <1>5, <2>1, ForgetType DEF CheckLostEntities, TypeOK
  <1>7. ASSUME Tick PROVE TypeOK'
    <2>1. /\ hello_timer' \in [Announcer -> -MaxLate .. LongestInterval]
          /\ lost_timer' \in [Watcher -> -MaxLate .. LostPeriod]
      BY <1>0, <1>7 DEF Tick, TypeOK
    <2>2. age' \in [Watcher -> [Announcer -> Nat \union {Unknown}]]
      BY <1>7 DEF Tick, TypeOK, Unknown
    <2>3. down' \in [Announcer -> 0 .. Forgetting + 1]
      BY <1>0, <1>7 DEF Tick, TypeOK
    <2>. QED  BY <1>7, <2>1, <2>2, <2>3 DEF Tick, TypeOK
  <1>8. CASE UNCHANGED vars
    BY <1>8 DEF vars, TypeOK
  <1>. QED
    BY <1>1, <1>2, <1>3, <1>4, <1>5, <1>7, <1>8 DEF Next

LEMMA TypeInit == HelloAssumption /\ Init => TypeOK
  <1> SUFFICES ASSUME HelloAssumption, Init PROVE TypeOK
    OBVIOUS
  <1>1. /\ 0 \in -MaxLate .. LongestInterval /\ 0 \in -MaxLate .. LostPeriod
        /\ Forgetting + 1 \in 0 .. Forgetting + 1
    BY Constants
  <1>. QED  BY <1>1 DEF Init, TypeOK

\* The tables and timers of every entity keep their types: a timer is never
\* set beyond the longest interval and never later than the main loop serves it.
THEOREM TypeCorrect == Spec => []TypeOK
  BY TypeInit, TypeStep, HelloAssumption, PTL DEF Spec

-----------------------------------------------------------------------------
(***************************************************************************)
(* The age of an entry: what it may still grow until the next time the      *)
(* lost timer is served is within the bound.                                *)
(***************************************************************************)
Fresh ==
    \A w \in Watcher, e \in Announcer :
        age[w][e] # Unknown =>
            up[w] /\ age[w][e] + lost_timer[w] <= LongestDead + LostPeriod

LEMMA FreshStep ==
    ASSUME HelloAssumption, TypeOK, Fresh, [Next]_vars
    PROVE  Fresh'
  <1>0. /\ LongestInterval \in Nat /\ LostPeriod \in Nat /\ MaxLate \in Nat
        /\ LongestDead \in Nat
    BY Constants
  <1>. SUFFICES ASSUME NEW w \in Watcher, NEW e \in Announcer, age'[w][e] # Unknown
                PROVE  up'[w] /\ age'[w][e] + lost_timer'[w] <= LongestDead + LostPeriod
    BY DEF Fresh
  <1> DEFINE Goal == up'[w] /\ age'[w][e] + lost_timer'[w] <= LongestDead + LostPeriod
  <1>a. /\ lost_timer[w] \in Int /\ lost_timer[w] <= LostPeriod
        /\ age[w][e] \in Nat \union {Unknown}
        /\ w \in Entity
    BY DEF TypeOK, HelloAssumption
  <1>b. age[w][e] # Unknown =>
           up[w] /\ age[w][e] + lost_timer[w] <= LongestDead + LostPeriod
    BY DEF Fresh
  <1>1. ASSUME NEW f \in Entity, Start(f) PROVE Goal
    <2>1. age' = age /\ (f # w => lost_timer'[w] = lost_timer[w])
      BY <1>1 DEF Start, TypeOK
    <2>2. up[w] /\ f # w
      BY <1>1, <1>b, <2>1 DEF Start
    <2>. QED  BY <1>1, <1>b, <2>1, <2>2 DEF Start, TypeOK
  <1>2. ASSUME NEW f \in Entity, Stop(f) PROVE Goal
    <2>1. f # w
      BY <1>2, ForgetEffect DEF Stop
    <2>2. lost_timer'[w] = lost_timer[w] /\ up'[w] = up[w]
      BY <1>2, <1>a, <2>1 DEF Stop, TypeOK
    <2>3. age'[w][e] = age[w][e]
      BY <1>2, <2>1, ForgetEffect DEF Stop
    <2>. QED  BY <1>b, <2>2, <2>3
  <1>3. ASSUME NEW f \in Announcer, WhenHello(f) PROVE Goal
    <2>1. PICK got \in SUBSET Watcher, d \in 0 .. LongestInterval :
             Heralds(f, got, d) /\ \A v \in got : up[v]
      BY <1>3, HelloEffect
    <2>2. up' = up /\ lost_timer' = lost_timer
      BY <2>1 DEF Heralds, Effects
    <2>3. CASE w \in got /\ e = f
      <3>1. age'[w][e] = 0
        BY <2>1, <2>3 DEF Heralds, Effects, TypeOK
      <3>. QED  BY <1>0, <1>a, <2>1, <2>2, <2>3, <3>1
    <2>4. CASE ~(w \in got /\ e = f)
      <3>1. age'[w][e] = age[w][e]
        BY <2>1, <2>4 DEF Heralds, Effects, TypeOK
      <3>. QED  BY <1>b, <2>2, <3>1
    <2>. QED  BY <2>3, <2>4
  <1>4. ASSUME NEW v \in Watcher, NEW f \in Announcer, OtherMessage(v, f) PROVE Goal
    <2>1. up' = up /\ lost_timer' = lost_timer /\ up[v]
      BY <1>4 DEF OtherMessage, Listeners
    <2>2. CASE v = w /\ e = f
      <3>1. age'[w][e] = 0
        BY <1>4, <2>2 DEF OtherMessage, TypeOK
      <3>. QED  BY <1>0, <1>a, <2>1, <2>2, <3>1
    <2>3. CASE ~(v = w /\ e = f)
      <3>1. age'[w][e] = age[w][e]
        BY <1>4, <2>3 DEF OtherMessage, TypeOK
      <3>. QED  BY <1>b, <2>1, <3>1
    <2>. QED  BY <2>2, <2>3
  <1>5. ASSUME NEW v \in Watcher, NEW size \in TableSizes(v), CheckLostEntities(v, size)
        PROVE  Goal
    <2>1. up' = up /\ Forget(v, DeadEntities(v, size))
      BY <1>5 DEF CheckLostEntities
    <2>2. ~(v = w /\ e \in DeadEntities(v, size)) /\ age'[w][e] = age[w][e]
      BY <2>1, ForgetEffect
    <2>3. CASE v # w
      <3>1. lost_timer'[w] = lost_timer[w]
        BY <1>5, <2>3 DEF CheckLostEntities, TypeOK
      <3>. QED  BY <1>b, <2>1, <2>2, <3>1
    <2>4. CASE v = w
      <3>1. lost_timer'[w] = LostPeriod
        BY <1>5, <2>4 DEF CheckLostEntities, TypeOK
      <3>2. e \in Known(w)
        BY <2>2 DEF Known
      <3>3. size \in Nat /\ size <= LargestSize /\ LargestSize \in Nat
        BY TableSizeBound, Constants
      <3>4. IsDead(size) \in Nat /\ IsDead(size) <= LongestDead
        BY <3>3, IsDeadGrows DEF LongestDead
      <3>5. ~(IsDead(size) < age[w][e])
        BY <2>2, <2>4, <3>2 DEF DeadEntities
      <3>6. age[w][e] \in Nat
        BY <1>a, <2>2
      <3>7. age[w][e] <= LongestDead
        BY <1>0, <3>4, <3>5, <3>6
      <3>. QED  BY <1>0, <1>b, <2>1, <2>2, <3>1, <3>6, <3>7
    <2>. QED  BY <2>3, <2>4
  <1>7. ASSUME Tick PROVE Goal
    <2>1. age[w][e] # Unknown /\ up'[w] = up[w]
      BY <1>7 DEF Tick
    <2>2. up[w]
      BY <1>b, <2>1
    <2>3. age'[w][e] = age[w][e] + 1 /\ lost_timer'[w] = lost_timer[w] - 1
      BY <1>7, <2>1, <2>2 DEF Tick
    <2>. QED  BY <1>0, <1>a, <1>b, <2>1, <2>2, <2>3
  <1>8. CASE UNCHANGED vars
    BY <1>8, <1>b DEF vars
  <1>. QED
    BY <1>1, <1>2, <1>3, <1>4, <1>5, <1>7, <1>8 DEF Next

LEMMA FreshInit == Init => Fresh
  BY DEF Init, Fresh

LEMMA FreshEntries ==
    ASSUME HelloAssumption, TypeOK, Fresh
    PROVE  EntriesAreFresh
  <1>. SUFFICES ASSUME NEW w \in Watcher, NEW e \in Announcer, up[w], e \in Known(w)
                PROVE  age[w][e] <= Forgetting
    BY DEF EntriesAreFresh
  <1>1. /\ age[w][e] \in Nat
        /\ age[w][e] + lost_timer[w] <= LongestDead + LostPeriod
    BY DEF Known, TypeOK, Fresh
  <1>2. lost_timer[w] \in Int /\ -MaxLate <= lost_timer[w]
    BY Constants DEF TypeOK
  <1>. QED  BY <1>1, <1>2, Constants DEF Forgetting

\* An entity that falls silent is out of every table within the largest dead
\* time, one period of the lost timer and its lateness.
THEOREM SilentEntitiesAreForgotten == Spec => []EntriesAreFresh
  <1>1. TypeOK /\ Fresh /\ [Next]_vars => Fresh'
    BY FreshStep, HelloAssumption
  <1>2. TypeOK /\ Fresh => EntriesAreFresh
    BY FreshEntries, HelloAssumption
  <1>. QED  BY <1>1, <1>2, FreshInit, TypeCorrect, PTL DEF Spec

-----------------------------------------------------------------------------
(***************************************************************************)
(* The age of the entry of a running entity: every hello missed accounts    *)
(* for at most one longest interval, served late.                           *)
(***************************************************************************)
Punctual == \A e \in Announcer : hello_timer[e] <= LongestOf(e)

LEMMA PunctualStep ==
    ASSUME HelloAssumption, TypeOK, Punctual, [Next]_vars
    PROVE  Punctual'
  <1>. SUFFICES ASSUME NEW e \in Announcer
                PROVE  hello_timer'[e] <= LongestOf(e)
    BY DEF Punctual, LongestOf, LargestTable, LargestSize
  <1>0. /\ LongestOf(e) \in Nat /\ hello_timer[e] \in Int
        /\ hello_timer[e] <= LongestOf(e)
    BY LongestOfType, Constants DEF Punctual, TypeOK
  <1>1. ASSUME NEW f \in Entity, Start(f) PROVE hello_timer' = hello_timer
    BY <1>1 DEF Start
  <1>2. ASSUME NEW f \in Entity, Stop(f)
        PROVE  hello_timer'[e] \in {0, hello_timer[e]}
    BY <1>2 DEF Stop, TypeOK
  <1>3. ASSUME NEW f \in Announcer, WhenHello(f)
        PROVE  hello_timer'[e] <= LongestOf(e)
    <2>1. PICK got \in SUBSET Watcher, d \in 0 .. LongestInterval :
             Heralds(f, got, d) /\ d <= LongestOf(f)
      BY <1>3, HelloEffect
    <2>2. CASE f = e
      BY <2>1, <2>2 DEF Heralds, TypeOK
    <2>3. CASE f # e
      BY <1>0, <2>1, <2>3 DEF Heralds, TypeOK
    <2>. QED  BY <2>2, <2>3
  <1>4. ASSUME NEW v \in Watcher, NEW f \in Announcer, OtherMessage(v, f)
        PROVE  hello_timer' = hello_timer
    BY <1>4 DEF OtherMessage
  <1>5. ASSUME NEW v \in Watcher, NEW size, CheckLostEntities(v, size)
        PROVE  hello_timer' = hello_timer
    BY <1>5 DEF CheckLostEntities
  <1>7. ASSUME Tick PROVE hello_timer'[e] \in {hello_timer[e], hello_timer[e] - 1}
    BY <1>7 DEF Tick
  <1>8. CASE UNCHANGED vars
    BY <1>0, <1>8 DEF vars
  <1>. QED
    BY <1>0, <1>1, <1>2, <1>3, <1>4, <1>5, <1>7, <1>8 DEF Next

LEMMA PunctualInit == HelloAssumption /\ Init => Punctual
  <1> SUFFICES ASSUME HelloAssumption, Init, NEW e \in Announcer
               PROVE  hello_timer[e] <= LongestOf(e)
    BY DEF Punctual
  <1>. QED  BY LongestOfType DEF Init

\* The table of w has an entry for the present run of e.
Current(w, e) == age[w][e] # Unknown /\ up[e] /\ endpoint[w][e] = run[e]

Silence ==
    \A w \in Watcher, e \in Announcer :
        /\ age[w][e] # Unknown => endpoint[w][e] <= run[e]
        /\ Current(w, e) =>
              age[w][e] + hello_timer[e] + MaxLate <= (missed[w][e] + 1) * Period(e)

LEMMA OneMore ==
    ASSUME NEW m \in Nat, NEW p \in Nat
    PROVE  /\ (m + 1) * p \in Nat
           /\ (m + 1 + 1) * p = (m + 1) * p + p
           /\ (0 + 1) * p = p
  OBVIOUS

LEMMA SilenceStep ==
    ASSUME HelloAssumption, TypeOK, Punctual, Silence, [Next]_vars
    PROVE  Silence'
  <1>. SUFFICES ASSUME NEW w \in Watcher, NEW e \in Announcer
                PROVE  /\ age'[w][e] # Unknown => endpoint'[w][e] <= run'[e]
                       /\ Current(w, e)' =>
                            age'[w][e] + hello_timer'[e] + MaxLate
                               <= (missed'[w][e] + 1) * Period(e)
    BY DEF Silence, Period, LongestOf, LargestTable, LargestSize
  <1>0. /\ LongestInterval \in Nat /\ LongestOf(e) \in Nat /\ MaxLate \in Nat
        /\ Period(e) \in Nat /\ Period(e) = LongestOf(e) + MaxLate
    BY Constants, LongestOfType
  <1> DEFINE Goal == /\ age'[w][e] # Unknown => endpoint'[w][e] <= run'[e]
                     /\ Current(w, e)' =>
                          age'[w][e] + hello_timer'[e] + MaxLate
                             <= (missed'[w][e] + 1) * Period(e)
  <1>a. /\ hello_timer[e] \in Int /\ hello_timer[e] <= LongestOf(e)
        /\ -MaxLate <= hello_timer[e]
        /\ age[w][e] \in Nat \union {Unknown}
        /\ run[e] \in Nat /\ endpoint[w][e] \in Nat /\ missed[w][e] \in Nat
        /\ w \in Entity /\ e \in Entity
    BY <1>0 DEF TypeOK, Punctual, HelloAssumption
  <1>b. /\ age[w][e] # Unknown => endpoint[w][e] <= run[e]
        /\ Current(w, e) =>
              age[w][e] + hello_timer[e] + MaxLate <= (missed[w][e] + 1) * Period(e)
    BY DEF Silence
  <1>c. ASSUME age'[w][e] = age[w][e], endpoint'[w][e] = endpoint[w][e],
               run'[e] = run[e], up'[e] => up[e],
               hello_timer'[e] = hello_timer[e], missed'[w][e] = missed[w][e]
        PROVE  Goal
    BY <1>b, <1>c DEF Current
  <1>1. ASSUME NEW f \in Entity, Start(f) PROVE Goal
    <2>1. UNCHANGED <<age, endpoint, missed, hello_timer>>
      BY <1>1 DEF Start
    <2>2. CASE f = e
      <3>1. run'[e] = run[e] + 1
        BY <1>1, <2>2 DEF Start, TypeOK
      <3>. QED  BY <1>a, <1>b, <2>1, <3>1 DEF Current
    <2>3. CASE f # e
      <3>1. run'[e] = run[e] /\ up'[e] = up[e]
        BY <1>1, <1>a, <2>3 DEF Start, TypeOK
      <3>. QED  BY <1>c, <2>1, <3>1
    <2>. QED  BY <2>2, <2>3
  <1>2. ASSUME NEW f \in Entity, Stop(f) PROVE Goal
    <2>1. run' = run /\ (up'[e] => up[e] /\ f # e)
      BY <1>2, <1>a DEF Stop, TypeOK
    <2>2. \/ age'[w][e] = Unknown
          \/ /\ age'[w][e] = age[w][e]
             /\ endpoint'[w][e] = endpoint[w][e]
             /\ missed'[w][e] = missed[w][e]
      BY <1>2, ForgetEffect DEF Stop
    <2>3. f # e => hello_timer'[e] = hello_timer[e]
      BY <1>2 DEF Stop, TypeOK
    <2>. QED  BY <1>b, <2>1, <2>2, <2>3 DEF Current
  <1>3. ASSUME NEW f \in Announcer, WhenHello(f) PROVE Goal
    <2>1. PICK got \in SUBSET Watcher, d \in 0 .. LongestInterval :
             Heralds(f, got, d) /\ d <= LongestOf(f)
      BY <1>3, HelloEffect
    <2>2. up' = up /\ run' = run /\ hello_timer' = [hello_timer EXCEPT ![f] = d]
      BY <2>1 DEF Heralds, Effects
    <2>3. CASE f # e
      <3>1. /\ age'[w][e] = age[w][e] /\ endpoint'[w][e] = endpoint[w][e]
            /\ missed'[w][e] = missed[w][e]
        BY <2>1, <2>3 DEF Heralds, Effects, TypeOK
      <3>2. hello_timer'[e] = hello_timer[e]
        BY <2>2, <2>3 DEF TypeOK
      <3>. QED  BY <1>c, <2>2, <3>1, <3>2
    <2>4. CASE f = e /\ w \in got
      <3>1. age'[w][e] = 0 /\ missed'[w][e] = 0
        BY <2>1, <2>4 DEF Heralds, Effects, TypeOK
      <3>2. hello_timer'[e] = d
        BY <2>2, <2>4 DEF TypeOK
      <3>3. endpoint'[w][e] = IF age[w][e] = Unknown THEN run[e] ELSE endpoint[w][e]
        BY <2>1, <2>4 DEF Heralds, Effects, TypeOK
      <3>4. endpoint'[w][e] <= run'[e]
        BY <1>a, <1>b, <2>2, <3>3
      <3>5. d \in Nat /\ 0 + d + MaxLate <= Period(e) /\ (0 + 1) * Period(e) = Period(e)
        BY <1>0, <2>1, <2>4
      <3>. QED  BY <3>1, <3>2, <3>4, <3>5
    <2>5. CASE f = e /\ w \notin got
      <3>1. /\ age'[w][e] = age[w][e] /\ endpoint'[w][e] = endpoint[w][e]
        BY <2>1, <2>5 DEF Heralds, Effects, TypeOK
      <3>2. hello_timer'[e] = d
        BY <2>2, <2>5 DEF TypeOK
      <3>3. CASE age[w][e] = Unknown
        BY <3>1, <3>3 DEF Current
      <3>4. CASE age[w][e] # Unknown
        <4>1. missed'[w][e] = missed[w][e] + 1
          BY <2>1, <2>5, <3>4 DEF Heralds, Effects, TypeOK
        <4>2. (missed[w][e] + 1 + 1) * Period(e) = (missed[w][e] + 1) * Period(e) + Period(e)
          <5>1. PICK m \in Nat : m = missed[w][e]
            BY <1>a
          <5>. QED  BY <1>0, <5>1, OneMore
        <4>3. (missed[w][e] + 1) * Period(e) \in Nat
          BY <1>0, <1>a
        <4> DEFINE p == (missed[w][e] + 1) * Period(e)
        <4>4. Current(w, e)' => age[w][e] + hello_timer[e] + MaxLate <= p
          BY <1>b, <2>2, <3>1 DEF Current
        <4> HIDE DEF p
        <4>5. Current(w, e)' => age[w][e] + d + MaxLate <= p + Period(e)
            <5>1. d \in Nat /\ d + MaxLate <= Period(e)
            BY <1>0, <2>1, <2>5
          <5>. QED  BY <1>0, <1>a, <3>4, <4>3, <4>4, <5>1 DEF p
        <4>6. endpoint'[w][e] <= run'[e]
          BY <1>b, <2>2, <3>1, <3>4
        <4>7. p + Period(e) = (missed'[w][e] + 1) * Period(e)
          BY <4>1, <4>2 DEF p
        <4>. QED  BY <3>1, <3>2, <4>5, <4>6, <4>7
      <3>. QED  BY <3>3, <3>4
    <2>. QED  BY <2>3, <2>4, <2>5
  <1>4. ASSUME NEW v \in Watcher, NEW f \in Announcer, OtherMessage(v, f) PROVE Goal
    <2>1. UNCHANGED <<up, run, hello_timer>>
      BY <1>4 DEF OtherMessage
    <2>2. CASE v = w /\ f = e
      <3>1. age'[w][e] = 0 /\ missed'[w][e] = 0 /\ endpoint'[w][e] = run[e]
        BY <1>4, <2>2 DEF OtherMessage, TypeOK
      <3>2. 0 + hello_timer[e] + MaxLate <= (0 + 1) * Period(e)
        BY <1>0, <1>a
      <3>. QED  BY <1>a, <2>1, <3>1, <3>2
    <2>3. CASE ~(v = w /\ f = e)
      <3>1. /\ age'[w][e] = age[w][e] /\ endpoint'[w][e] = endpoint[w][e]
            /\ missed'[w][e] = missed[w][e]
        BY <1>4, <2>3 DEF OtherMessage, TypeOK
      <3>. QED  BY <1>c, <2>1, <3>1
    <2>. QED  BY <2>2, <2>3
  <1>5. ASSUME NEW v \in Watcher, NEW size, CheckLostEntities(v, size) PROVE Goal
    <2>1. UNCHANGED <<up, run, hello_timer>>
      BY <1>5 DEF CheckLostEntities
    <2>2. \/ age'[w][e] = Unknown
          \/ /\ age'[w][e] = age[w][e]
             /\ endpoint'[w][e] = endpoint[w][e]
             /\ missed'[w][e] = missed[w][e]
      BY <1>5, ForgetEffect DEF CheckLostEntities
    <2>. QED  BY <1>c, <2>1, <2>2 DEF Current
  <1>7. ASSUME Tick PROVE Goal
    <2>1. UNCHANGED <<up, run, endpoint, missed>>
      BY <1>7 DEF Tick
    <2>2. /\ age'[w][e] \in {age[w][e], age[w][e] + 1}
          /\ age[w][e] = Unknown => age'[w][e] = Unknown
      BY <1>7 DEF Tick
    <2>3. up[e] => hello_timer'[e] = hello_timer[e] - 1
      BY <1>7 DEF Tick
    <2>4. (missed[w][e] + 1) * Period(e) \in Nat
      BY <1>0, <1>a
    <2> DEFINE p == (missed[w][e] + 1) * Period(e)
    <2>5. Current(w, e)' => /\ Current(w, e)
                            /\ age[w][e] + hello_timer[e] + MaxLate <= p
                            /\ hello_timer'[e] = hello_timer[e] - 1
      BY <1>b, <2>1, <2>2, <2>3 DEF Current
    <2>6. p \in Nat /\ (missed'[w][e] + 1) * Period(e) = p
      BY <2>1, <2>4
    <2> HIDE DEF p
    <2>7. Current(w, e)' => age'[w][e] + hello_timer'[e] + MaxLate <= p
      <3>. SUFFICES ASSUME Current(w, e)'
                    PROVE  age'[w][e] + hello_timer'[e] + MaxLate <= p
        OBVIOUS
      <3>1. age[w][e] \in Nat
        BY <1>a, <2>5 DEF Current
      <3>. QED  BY <1>0, <1>a, <2>2, <2>5, <2>6, <3>1
    <2>8. age'[w][e] # Unknown => endpoint'[w][e] <= run'[e]
      BY <1>b, <2>1, <2>2
    <2>. QED  BY <2>6, <2>7, <2>8
  <1>8. CASE UNCHANGED vars
    BY <1>8, <1>c DEF vars
  <1>. QED
    BY <1>1, <1>2, <1>3, <1>4, <1>5, <1>7, <1>8 DEF Next

LEMMA SilenceInit == Init => Silence
  BY DEF Init, Silence, Current

LEMMA LossAfterSilence ==
    ASSUME HelloAssumption, TypeOK, Silence,
           NEW w \in Watcher, NEW e \in Announcer, NEW size \in TableSizes(w),
           e \in DeadEntities(w, size), up[e], endpoint[w][e] = run[e]
    PROVE  (c_hello_dead * HelloInterval(size + 1) * 11) \div 10
              < (missed[w][e] + 1) * Period(e)
  <1>0. MaxLate \in Nat /\ Period(e) \in Nat
    BY Constants, LongestOfType
  <1>1. Current(w, e) /\ age[w][e] \in Nat /\ IsDead(size) < age[w][e]
    BY DEF DeadEntities, Known, Current, TypeOK
  <1>2. /\ hello_timer[e] \in Int /\ -MaxLate <= hello_timer[e]
        /\ missed[w][e] \in Nat
    BY <1>0, Constants DEF TypeOK
  <1> DEFINE p == (missed[w][e] + 1) * Period(e)
             q == IsDead(size)
  <1>3. age[w][e] + hello_timer[e] + MaxLate <= p /\ p \in Nat
    BY <1>0, <1>1, <1>2 DEF Silence
  <1>4. q \in Nat
    BY TableSizeBound, IsDeadGrows
  <1> HIDE DEF p
  <1>5. q < p
    BY <1>0, <1>1, <1>2, <1>3, <1>4
  <1>. QED  BY <1>5 DEF p, IsDead

\* A running entity is only given up after so many of its hellos in a row were
\* missed that, at the longest interval of its table and each served late, they
\* fill five of the longest intervals of one that knows one entity more than
\* the watcher.
THEOREM NoHastyLoss == Spec => SilenceBeforeLoss
  <1>1. TypeOK /\ Punctual /\ [Next]_vars => Punctual'
    BY PunctualStep, HelloAssumption
  <1>2. TypeOK /\ Punctual /\ Silence /\ [Next]_vars => Silence'
    BY SilenceStep, HelloAssumption
  <1> DEFINE Step == \A w \in Watcher, e \in Announcer : \A size \in TableSizes(w) :
          (/\ CheckLostEntities(w, size) /\ e \in DeadEntities(w, size)
           /\ up[e] /\ endpoint[w][e] = run[e])
             => (c_hello_dead * HelloInterval(size + 1) * 11) \div 10
                   < (missed[w][e] + 1) * Period(e)
  <1>3. TypeOK /\ Silence /\ [Next]_vars => [Step]_vars
    BY LossAfterSilence, HelloAssumption
  <1>4. Init => Punctual
    BY PunctualInit, HelloAssumption
  <1>. QED
    BY <1>1, <1>2, <1>3, <1>4, SilenceInit, TypeCorrect, PTL DEF Spec, SilenceBeforeLoss

-----------------------------------------------------------------------------
(***************************************************************************)
(* Entries of earlier runs: an entity is not silent for longer than its     *)
(* entry is old, so when it comes back while the entry is there it was not  *)
(* missed.                                                                  *)
(***************************************************************************)
Recalled ==
    /\ \A e \in Announcer : up[e] => down[e] = 0
    /\ \A w \in Watcher, e \in Announcer : age[w][e] # Unknown =>
           /\ down[e] <= age[w][e]
           /\ up[e] /\ endpoint[w][e] # run[e] => brief[e]

LEMMA RecalledStep ==
    ASSUME HelloAssumption, TypeOK, Fresh, Recalled, [Next]_vars
    PROVE  Recalled'
  <1>0. Forgetting \in Nat
    BY Constants
  <1>. SUFFICES ASSUME NEW e \in Announcer
                PROVE  /\ up'[e] => down'[e] = 0
                       /\ \A w \in Watcher : age'[w][e] # Unknown =>
                              /\ down'[e] <= age'[w][e]
                              /\ up'[e] /\ endpoint'[w][e] # run'[e] => brief'[e]
    BY DEF Recalled
  <1> DEFINE Entry(w) == age[w][e] # Unknown =>
                             /\ down[e] <= age[w][e]
                             /\ up[e] /\ endpoint[w][e] # run[e] => brief[e]
             Goal == /\ up'[e] => down'[e] = 0
                     /\ \A w \in Watcher : age'[w][e] # Unknown =>
                            /\ down'[e] <= age'[w][e]
                            /\ up'[e] /\ endpoint'[w][e] # run'[e] => brief'[e]
  <1>a. /\ down[e] \in Nat /\ run[e] \in Nat /\ e \in Entity
        /\ \A w \in Watcher : age[w][e] \in Nat \union {Unknown}
    BY <1>0 DEF TypeOK, HelloAssumption
  <1>b. (up[e] => down[e] = 0) /\ \A w \in Watcher : Entry(w)
    BY DEF Recalled
  <1>c. ASSUME down'[e] = down[e], run'[e] = run[e], brief'[e] = brief[e],
               up'[e] => up[e],
               \A w \in Watcher : \/ age'[w][e] = Unknown
                                  \/ /\ age'[w][e] = age[w][e]
                                     /\ endpoint'[w][e] = endpoint[w][e]
        PROVE  Goal
    BY <1>b, <1>c
  <1>1. ASSUME NEW f \in Entity, Start(f) PROVE Goal
    <2>1. UNCHANGED <<age, endpoint>> /\ ~up[f]
      BY <1>1 DEF Start
    <2>2. CASE f # e
      <3>1. /\ up'[e] = up[e] /\ run'[e] = run[e]
            /\ down'[e] = down[e] /\ brief'[e] = brief[e]
        BY <1>1, <1>a, <2>2 DEF Start, TypeOK
      <3>. QED  BY <1>b, <2>1, <3>1
    <2>3. CASE f = e
      <3>1. down'[e] = 0 /\ brief'[e] = (down[e] <= Forgetting)
        BY <1>1, <2>3 DEF Start, TypeOK
      <3>2. ASSUME NEW w \in Watcher, age[w][e] # Unknown
            PROVE  down[e] <= Forgetting
        <4>1. age[w][e] <= Forgetting
          BY <3>2, FreshEntries DEF Fresh, EntriesAreFresh, Known
        <4>2. age[w][e] \in Nat /\ down[e] <= age[w][e]
          BY <1>a, <1>b, <3>2
        <4>. QED  BY <1>0, <1>a, <4>1, <4>2
      <3>3. ASSUME NEW w \in Watcher, age'[w][e] # Unknown
            PROVE  0 <= age'[w][e] /\ brief'[e]
        <4>1. age[w][e] # Unknown /\ age'[w][e] = age[w][e]
          BY <2>1, <3>3
        <4>2. age[w][e] \in Nat
          BY <1>a, <4>1
        <4>3. down[e] <= Forgetting
          BY <3>2, <4>1
        <4>4. brief'[e]
          BY <3>1, <4>3, Zenon
        <4>5. 0 <= age'[w][e]
          BY <4>1, <4>2
        <4>. QED  BY <4>4, <4>5
      <3>. QED  BY <3>1, <3>3
    <2>. QED  BY <2>2, <2>3
  <1>2. ASSUME NEW f \in Entity, Stop(f) PROVE Goal
    <2>1. /\ down' = down /\ run' = run /\ brief' = brief
          /\ up'[e] => up[e]
      BY <1>2, <1>a DEF Stop, TypeOK
    <2>2. \A w \in Watcher : \/ age'[w][e] = Unknown
                             \/ /\ age'[w][e] = age[w][e]
                                /\ endpoint'[w][e] = endpoint[w][e]
      BY <1>2, ForgetEffect DEF Stop
    <2>. QED  BY <1>c, <2>1, <2>2
  <1>3. ASSUME NEW f \in Announcer, WhenHello(f) PROVE Goal
    <2>1. PICK got \in SUBSET Watcher, d \in 0 .. LongestInterval : Heralds(f, got, d)
      BY <1>3, HelloEffect
    <2>2. up[f] /\ UNCHANGED <<up, run, down, brief>>
      BY <2>1 DEF Heralds, Effects
    <2>3. ASSUME NEW w \in Watcher, age'[w][e] # Unknown
          PROVE  /\ down'[e] <= age'[w][e]
                 /\ up'[e] /\ endpoint'[w][e] # run'[e] => brief'[e]
      <3>1. CASE w \in got /\ f = e
        <4>1. age'[w][e] = 0
          BY <2>1, <3>1 DEF Heralds, Effects, TypeOK
        <4>2. endpoint'[w][e] = IF age[w][e] = Unknown THEN run[e] ELSE endpoint[w][e]
          BY <2>1, <3>1 DEF Heralds, Effects, TypeOK
        <4>3. down'[e] = 0 /\ up[e]
          BY <1>b, <2>2, <3>1
        <4>4. up'[e] /\ endpoint'[w][e] # run'[e] => brief'[e]
          BY <1>b, <2>2, <3>1, <4>2
        <4>. QED  BY <4>1, <4>3, <4>4
      <3>2. CASE ~(w \in got /\ f = e)
        <4>1. age'[w][e] = age[w][e] /\ endpoint'[w][e] = endpoint[w][e]
          BY <2>1, <3>2 DEF Heralds, Effects, TypeOK
        <4>. QED  BY <1>b, <2>2, <2>3, <4>1
      <3>. QED  BY <3>1, <3>2
    <2>. QED  BY <1>b, <2>2, <2>3
  <1>4. ASSUME NEW v \in Watcher, NEW f \in Announcer, OtherMessage(v, f) PROVE Goal
    <2>1. up[f] /\ UNCHANGED <<up, run, down, brief>>
      BY <1>4 DEF OtherMessage
    <2>2. ASSUME NEW w \in Watcher, age'[w][e] # Unknown
          PROVE  /\ down'[e] <= age'[w][e]
                 /\ up'[e] /\ endpoint'[w][e] # run'[e] => brief'[e]
      <3>1. CASE v = w /\ f = e
        <4>1. age'[w][e] = 0 /\ endpoint'[w][e] = run[e]
          BY <1>4, <3>1 DEF OtherMessage, TypeOK
        <4>. QED  BY <1>b, <2>1, <3>1, <4>1
      <3>2. CASE ~(v = w /\ f = e)
        <4>1. age'[w][e] = age[w][e] /\ endpoint'[w][e] = endpoint[w][e]
          BY <1>4, <3>2 DEF OtherMessage, TypeOK
        <4>. QED  BY <1>b, <2>1, <2>2, <4>1
      <3>. QED  BY <3>1, <3>2
    <2>. QED  BY <1>b, <2>1, <2>2
  <1>5. ASSUME NEW v \in Watcher, NEW size, CheckLostEntities(v, size) PROVE Goal
    <2>1. UNCHANGED <<up, run, down, brief>>
      BY <1>5 DEF CheckLostEntities
    <2>2. \A w \in Watcher : \/ age'[w][e] = Unknown
                             \/ /\ age'[w][e] = age[w][e]
                                /\ endpoint'[w][e] = endpoint[w][e]
      BY <1>5, ForgetEffect DEF CheckLostEntities
    <2>. QED  BY <1>c, <2>1, <2>2
  <1>7. ASSUME Tick PROVE Goal
    <2>1. UNCHANGED <<up, run, endpoint, brief>>
      BY <1>7 DEF Tick
    <2>2. /\ up[e] => down'[e] = down[e]
          /\ down'[e] \in {down[e], down[e] + 1}
      BY <1>7 DEF Tick
    <2>3. ASSUME NEW w \in Watcher, age'[w][e] # Unknown
          PROVE  /\ age[w][e] # Unknown /\ age[w][e] \in Nat
                 /\ age'[w][e] = age[w][e] + 1
      <3>1. age[w][e] # Unknown
        BY <1>7, <2>3 DEF Tick
      <3>2. up[w]
        BY <3>1 DEF Fresh
      <3>. QED  BY <1>7, <1>a, <3>1, <3>2 DEF Tick
    <2>4. ASSUME NEW w \in Watcher, age'[w][e] # Unknown
          PROVE  /\ down'[e] <= age'[w][e]
                 /\ up'[e] /\ endpoint'[w][e] # run'[e] => brief'[e]
      <3>1. /\ age[w][e] # Unknown /\ age[w][e] \in Nat
            /\ age'[w][e] = age[w][e] + 1
        BY <2>3, <2>4
      <3>2. down[e] <= age[w][e]
        BY <1>b, <3>1
      <3>3. down'[e] <= age'[w][e]
        BY <1>a, <2>2, <3>1, <3>2
      <3>. QED  BY <1>b, <2>1, <3>1, <3>3
    <2>. QED  BY <1>b, <2>1, <2>2, <2>4
  <1>8. CASE UNCHANGED vars
    BY <1>8, <1>b DEF vars
  <1>. QED
    BY <1>1, <1>2, <1>3, <1>4, <1>5, <1>7, <1>8 DEF Next

LEMMA RecalledInit == HelloAssumption /\ Init => Recalled
  BY DEF Init, Recalled, HelloAssumption

\* The endpoint of an earlier run stays in a table only when the entity came
\* back before it was missed (__mbus_transport_check_for_new_entity).
THEOREM OldEndpointsAreRecent == Spec => []StaleEndpointsAreRecent
  <1>1. TypeOK /\ Fresh /\ [Next]_vars => Fresh'
    BY FreshStep, HelloAssumption
  <1>2. TypeOK /\ Fresh /\ Recalled /\ [Next]_vars => Recalled'
    BY RecalledStep, HelloAssumption
  <1>3. Recalled => StaleEndpointsAreRecent
    BY DEF Recalled, StaleEndpointsAreRecent, Known
  <1>4. Init => Recalled
    BY RecalledInit, HelloAssumption
  <1>. QED  BY <1>1, <1>2, <1>3, <1>4, FreshInit, TypeCorrect, PTL DEF Spec

=============================================================================
