--------------------------- MODULE RPCEntityProofs ---------------------------
(***************************************************************************)
(* Theorems about RPCEntity, for every set of entities, commands and        *)
(* results and every value of the bounds.                                   *)
(***************************************************************************)
EXTENDS RPCEntity, SequenceTheorems, TLAPS

LEMMA SelfType ==
    ASSUME TypeOK, NEW e \in Entity
    PROVE  Self(e) \in Run /\ Self(e)[1] = e /\ Self(e)[2] = epoch[e]
  BY DEF TypeOK, Self, Run

\* A call message: who sent it.
LEMMA CallMessageType ==
    ASSUME TypeOK, NEW m \in calls
    PROVE  /\ m.call \in Call /\ m.call[1] \in Run /\ m.call[2] \in Nat
           /\ m.call[1][1] \in Entity /\ m.call[1][2] \in Nat
           /\ m.dst \in Entity \union {ALL} /\ m.cmd \in Command
  BY DEF TypeOK, CallMessage, Call, Run

LEMMA ReturnMessageType ==
    ASSUME TypeOK, NEW m \in answers
    PROVE  /\ m \in ReturnMessage
           /\ m.call \in Call /\ m.call[1] \in Run /\ m.call[2] \in Nat
           /\ m.call[1][1] \in Entity /\ m.by \in Run /\ m.by[1] \in Entity
  BY DEF TypeOK, ReturnMessage, Call, Run

\* The return a server sends is a return message.
LEMMA ReturnType ==
    ASSUME RPCAssumption, TypeOK, NEW e \in Entity, NEW m \in calls,
           NEW given \in Result
    PROVE  Return(e, m, given) \in ReturnMessage
  <1>1. given \in RPCStatus
    BY DEF RPCAssumption
  <1>2. m.call \in Call /\ Self(e) \in Run
    BY CallMessageType, SelfType
  <1>. QED
    BY <1>1, <1>2 DEF Return, AnsweredId, AppResult, ReturnMessage, RPCStatus

LEMMA TypeStep ==
    ASSUME RPCAssumption, TypeOK, [Next]_vars
    PROVE  TypeOK'
  <1>1. ASSUME NEW e \in Entity, NEW cmd \in Command, Register(e, cmd)
        PROVE  TypeOK'
    BY <1>1 DEF Register, TypeOK
  <1>2. ASSUME NEW e \in Entity, NEW cmd \in Command, NEW type \in CallType,
               NEW dst \in Entity \union {ALL}, SendCommand(e, cmd, type, dst)
        PROVE  TypeOK'
    <2>1. <<Self(e), rpc_id[e]>> \in Call
      BY SelfType DEF Call, TypeOK
    <2>2. [call |-> <<Self(e), rpc_id[e]>>, cmd |-> cmd, dst |-> dst] \in CallMessage
      BY <2>1 DEF CallMessage
    <2>3. calls' \subseteq CallMessage /\ calls \subseteq calls' /\ refused' \subseteq Call
      BY <1>2, <2>1, <2>2 DEF SendCommand, TypeOK
    <2>4. rpc_id' \in [Entity -> Nat] /\ returns' \in [Entity -> SUBSET Nat]
      BY <1>2 DEF SendCommand, NextId, TypeOK
    <2>5. UNCHANGED <<commands, epoch, answers, handled, completed, wild>>
      BY <1>2 DEF SendCommand
    <2>6. handled' \subseteq Run \X (calls' \union answers')
      BY <2>3, <2>5 DEF TypeOK
    <2>. QED  BY <2>3, <2>4, <2>5, <2>6 DEF TypeOK
  <1>3. ASSUME NEW e \in Entity, NEW m \in calls, IncomingCommand(e, m)
        PROVE  TypeOK'
    <2>1. answers' \subseteq ReturnMessage /\ answers \subseteq answers'
      BY <1>3, ReturnType DEF IncomingCommand, TypeOK
    <2>2. handled' \subseteq Run \X (calls' \union answers')
      BY <1>3, <2>1, SelfType DEF IncomingCommand, Arrives, TypeOK
    <2>3. wild' \subseteq Run \X answers'
      BY <1>3, <2>1 DEF IncomingCommand, TypeOK
    <2>. QED  BY <1>3, <2>1, <2>2, <2>3 DEF IncomingCommand, TypeOK
  <1>4. ASSUME NEW e \in Entity, NEW m \in answers, IncomingReturn(e, m)
        PROVE  TypeOK'
    <2>1. /\ m \in ReturnMessage /\ m.call[2] \in Nat
          /\ <<Self(e), m.call[2]>> \in Call
      BY ReturnMessageType, SelfType DEF Call
    <2>2. [call |-> <<Self(e), m.call[2]>>, ret |-> m, status |-> StatusRead(m)]
             \in Completion
      BY <2>1 DEF Completion, StatusRead, RPCStatus
    <2>3. completed' \in Seq(Completion)
      <3>1. CASE completed' = completed
        BY <3>1 DEF TypeOK
      <3>2. CASE completed' =
                   Append(completed, [call |-> <<Self(e), m.call[2]>>, ret |-> m,
                                      status |-> StatusRead(m)])
        BY <2>2, <3>2, AppendProperties DEF TypeOK
      <3>. QED  BY <1>4, <3>1, <3>2 DEF IncomingReturn
    <2>4. returns' \in [Entity -> SUBSET Nat]
      BY <1>4 DEF IncomingReturn, Forgotten, TypeOK
    <2>5. wild' \subseteq Run \X answers'
      BY <1>4, SelfType DEF IncomingReturn, TypeOK
    <2>6. handled' \subseteq Run \X (calls' \union answers')
      BY <1>4, SelfType DEF IncomingReturn, Arrives, TypeOK
    <2>. QED  BY <1>4, <2>3, <2>4, <2>5, <2>6 DEF IncomingReturn, TypeOK
  <1>5. ASSUME NEW e \in Entity, Restart(e)
        PROVE  TypeOK'
    BY <1>5 DEF Restart, TypeOK
  <1>6. CASE UNCHANGED vars
    BY <1>6 DEF vars, TypeOK
  <1>. QED  BY <1>1, <1>2, <1>3, <1>4, <1>5, <1>6 DEF Next

\* The tables of every entity and the messages have the types of the code's
\* structures, whatever is called, answered and restarted.
THEOREM TypeCorrect == Spec => []TypeOK
  <1>1. Init => TypeOK
    BY DEF Init, TypeOK
  <1>. QED  BY <1>1, TypeStep, RPCAssumption, PTL DEF Spec

-----------------------------------------------------------------------------
(***************************************************************************)
(* A record is in the table from the call to its return.                    *)
(***************************************************************************)
Answered(e, id) == \E i \in DOMAIN completed :
                       completed[i].call = <<Self(e), id>>

\* The records and the invocations of the present run of e.
Records ==
    \A e \in Entity, id \in Nat :
        /\ id < rpc_id[e] => (id \in returns[e] <=> ~Answered(e, id))
        /\ ~(id < rpc_id[e]) => id \notin returns[e] /\ ~Answered(e, id)

\* No call was made by a run that has not begun.
PastRuns == \A i \in DOMAIN completed :
               LET run == completed[i].call[1]
               IN  run[1] \in Entity /\ run[2] <= epoch[run[1]]

LEMMA AppendIsFunction ==
    ASSUME NEW S, NEW past \in Seq(S), NEW new \in S
    PROVE  Append(past, new) =
             [i \in 1 .. Len(past) + 1 |->
                IF i = Len(past) + 1 THEN new ELSE past[i]]
  <1> DEFINE longer == Append(past, new)
  <1>1. /\ longer \in Seq(S) /\ Len(longer) = Len(past) + 1
        /\ \A i \in 1 .. Len(past) : longer[i] = past[i]
        /\ longer[Len(past) + 1] = new
    BY AppendProperties
  <1>2. Len(past) \in Nat
    BY LenProperties
  <1> HIDE DEF longer
  <1>3. longer = [i \in 1 .. Len(past) + 1 |-> longer[i]]
    BY <1>1, LenProperties
  <1>4. ASSUME NEW i \in 1 .. Len(past) + 1
        PROVE  longer[i] = IF i = Len(past) + 1 THEN new ELSE past[i]
    BY <1>1, <1>2
  <1>. QED  BY <1>3, <1>4 DEF longer

\* One more invocation: the earlier ones keep their places.
LEMMA OneMore ==
    ASSUME NEW past, past \in Seq(Completion), NEW new \in Completion
    PROVE  /\ DOMAIN Append(past, new) = DOMAIN past \union {Len(past) + 1}
           /\ Len(past) + 1 \notin DOMAIN past
           /\ \A i \in DOMAIN past : Append(past, new)[i] = past[i]
           /\ Append(past, new)[Len(past) + 1] = new
  <1>1. /\ Len(past) \in Nat /\ DOMAIN past = 1 .. Len(past)
        /\ Append(past, new) \in Seq(Completion)
        /\ Len(Append(past, new)) = Len(past) + 1
    BY AppendProperties, LenProperties
  <1>2. DOMAIN Append(past, new) = 1 .. Len(past) + 1
    BY <1>1, LenProperties
  <1>3. /\ \A i \in 1 .. Len(past) : Append(past, new)[i] = past[i]
        /\ Append(past, new)[Len(past) + 1] = new
    BY AppendProperties
  <1>. QED  BY <1>1, <1>2, <1>3

RecordInv == TypeOK /\ Records /\ PastRuns /\ AnsweredOnce

LEMMA RecordSend ==
    ASSUME RecordInv, NEW e \in Entity, NEW cmd \in Command, NEW type \in CallType,
           NEW dst \in Entity \union {ALL}, SendCommand(e, cmd, type, dst)
    PROVE  Records' /\ PastRuns' /\ AnsweredOnce'
  <1>1. /\ rpc_id' = [rpc_id EXCEPT ![e] = @ + 1]
        /\ returns' = [returns EXCEPT ![e] = @ \union {rpc_id[e]}]
        /\ completed' = completed /\ epoch' = epoch
    BY DEF SendCommand, NextId
  <1>2. PastRuns' /\ AnsweredOnce'
    BY <1>1 DEF RecordInv, PastRuns, AnsweredOnce
  <1>3. SUFFICES ASSUME NEW f \in Entity, NEW id \in Nat
                 PROVE  /\ id < rpc_id'[f] => (id \in returns'[f] <=> ~Answered(f, id)')
                        /\ ~(id < rpc_id'[f]) => id \notin returns'[f] /\ ~Answered(f, id)'
    BY <1>2 DEF Records
  <1>4. Answered(f, id)' <=> Answered(f, id)
    BY <1>1 DEF Answered, Self
  <1>5. /\ id < rpc_id[f] => (id \in returns[f] <=> ~Answered(f, id))
        /\ ~(id < rpc_id[f]) => id \notin returns[f] /\ ~Answered(f, id)
    BY DEF RecordInv, Records
  <1>6. rpc_id \in [Entity -> Nat] /\ returns \in [Entity -> SUBSET Nat]
    BY DEF RecordInv, TypeOK
  <1>7. CASE f # e
    BY <1>1, <1>4, <1>5, <1>6, <1>7
  <1>8. CASE f = e
    <2>1. rpc_id'[f] = rpc_id[f] + 1 /\ returns'[f] = returns[f] \union {rpc_id[f]}
      BY <1>1, <1>6, <1>8
    <2>2. rpc_id[f] \in Nat
      BY <1>6
    <2>3. CASE id = rpc_id[f]
      BY <1>4, <1>5, <2>1, <2>2, <2>3
    <2>4. CASE id # rpc_id[f]
      BY <1>4, <1>5, <2>1, <2>2, <2>4
    <2>. QED  BY <2>3, <2>4
  <1>. QED  BY <1>7, <1>8

LEMMA RecordReturn ==
    ASSUME RecordInv, NEW e \in Entity, NEW m \in answers, IncomingReturn(e, m)
    PROVE  Records' /\ PastRuns' /\ AnsweredOnce'
  <1> DEFINE id == m.call[2]
             new == [call |-> <<Self(e), id>>, ret |-> m, status |-> StatusRead(m)]
  <1>1. rpc_id' = rpc_id /\ epoch' = epoch
    BY DEF IncomingReturn
  <1>2. CASE id \notin returns[e]
    <2>1. returns' = returns /\ completed' = completed
      BY <1>2 DEF IncomingReturn
    <2>. QED
      BY <1>1, <2>1 DEF RecordInv, Records, PastRuns, AnsweredOnce, Answered, Self
  <1>3. CASE id \in returns[e]
    <2>1. /\ returns' = [returns EXCEPT ![e] = @ \ {id}]
          /\ completed' = Append(completed, new)
      BY <1>3 DEF IncomingReturn, Forgotten
    <2> DEFINE last == Len(completed) + 1
    <2>0. /\ DOMAIN completed' = DOMAIN completed \union {last}
          /\ last \notin DOMAIN completed
          /\ \A i \in DOMAIN completed : completed'[i] = completed[i]
          /\ completed'[last] = new
      <3>1. m \in ReturnMessage /\ <<Self(e), id>> \in Call
        BY ReturnMessageType, SelfType DEF RecordInv, Call
      <3>2. new \in Completion /\ completed \in Seq(Completion)
        BY <3>1 DEF Completion, StatusRead, RPCStatus, RecordInv, TypeOK
      <3> HIDE DEF new
      <3>. QED  BY <2>1, <3>2, OneMore
    <2> HIDE DEF last
    <2>2. id \in Nat /\ Self(e) \in Run /\ Self(e)[1] = e /\ Self(e)[2] = epoch[e]
      BY ReturnMessageType, SelfType DEF RecordInv
    <2>3. id < rpc_id[e] /\ ~Answered(e, id)
      BY <1>3, <2>2 DEF RecordInv, Records
    <2>4. AnsweredOnce'
      <3>1. \A i \in DOMAIN completed : completed[i].call # new.call
        BY <2>3 DEF Answered
      <3> HIDE DEF new
      <3>2. SUFFICES ASSUME NEW i \in DOMAIN completed', NEW j \in DOMAIN completed',
                            completed'[i].call = completed'[j].call
                     PROVE  i = j
        BY DEF AnsweredOnce
      <3>3. CASE i = last \/ j = last
        BY <2>0, <3>1, <3>2, <3>3
      <3>4. CASE i # last /\ j # last
        BY <2>0, <3>2, <3>4 DEF RecordInv, AnsweredOnce
      <3>. QED  BY <3>3, <3>4
    <2>5. PastRuns'
      <3>1. new.call[1] = Self(e) /\ epoch[e] \in Nat
        BY DEF RecordInv, TypeOK
      <3>2. new.call[1][1] \in Entity /\ new.call[1][2] <= epoch[new.call[1][1]]
        BY <2>2, <3>1
      <3> HIDE DEF new
      <3>. QED  BY <1>1, <2>0, <3>2 DEF RecordInv, PastRuns
    <2>6. SUFFICES ASSUME NEW f \in Entity, NEW i \in Nat
                   PROVE  /\ i < rpc_id'[f] => (i \in returns'[f] <=> ~Answered(f, i)')
                          /\ ~(i < rpc_id'[f]) => i \notin returns'[f] /\ ~Answered(f, i)'
      BY <2>4, <2>5 DEF Records
    <2>7. /\ i < rpc_id[f] => (i \in returns[f] <=> ~Answered(f, i))
          /\ ~(i < rpc_id[f]) => i \notin returns[f] /\ ~Answered(f, i)
      BY DEF RecordInv, Records
    <2>8. Answered(f, i)' <=> Answered(f, i) \/ (f = e /\ i = id)
      <3>1. Self(f)' = Self(f)
        BY <1>1 DEF Self
      <3>2. new.call = <<Self(f), i>> <=> (f = e /\ i = id)
        BY DEF Self
      <3> HIDE DEF new
      <3>. QED  BY <2>0, <3>1, <3>2 DEF Answered
    <2>9. returns'[f] = IF f = e THEN returns[f] \ {id} ELSE returns[f]
      BY <2>1 DEF RecordInv, TypeOK
    <2>. QED  BY <1>1, <2>3, <2>7, <2>8, <2>9
  <1>. QED  BY <1>2, <1>3

LEMMA RecordRestart ==
    ASSUME RecordInv, NEW e \in Entity, Restart(e)
    PROVE  Records' /\ PastRuns' /\ AnsweredOnce'
  <1>1. /\ epoch' = [epoch EXCEPT ![e] = @ + 1]
        /\ rpc_id' = [rpc_id EXCEPT ![e] = 0]
        /\ returns' = [returns EXCEPT ![e] = {}]
        /\ completed' = completed
    BY DEF Restart
  <1>2. epoch \in [Entity -> Nat] /\ rpc_id \in [Entity -> Nat]
        /\ returns \in [Entity -> SUBSET Nat]
    BY DEF RecordInv, TypeOK
  <1>3. PastRuns'
    <2>. SUFFICES ASSUME NEW i \in DOMAIN completed
                  PROVE  LET run == completed[i].call[1]
                         IN  run[1] \in Entity /\ run[2] <= epoch'[run[1]]
      BY <1>1 DEF PastRuns
    <2> DEFINE run == completed[i].call[1]
    <2>1. run[1] \in Entity /\ run[2] <= epoch[run[1]]
      BY DEF RecordInv, PastRuns
    <2>2. run[2] \in Nat
      <3>1. completed[i] \in Completion
        BY LenProperties, ElementOfSeq DEF RecordInv, TypeOK
      <3>. QED  BY <3>1 DEF Completion, Call, Run
    <2>. QED  BY <1>1, <1>2, <2>1, <2>2
  <1>4. AnsweredOnce'
    BY <1>1 DEF RecordInv, AnsweredOnce
  <1>5. Records'
    <2>. SUFFICES ASSUME NEW f \in Entity, NEW id \in Nat
                  PROVE  /\ id < rpc_id'[f] => (id \in returns'[f] <=> ~Answered(f, id)')
                         /\ ~(id < rpc_id'[f]) => id \notin returns'[f] /\ ~Answered(f, id)'
      BY DEF Records
    <2>1. CASE f # e
      <3>1. Answered(f, id)' <=> Answered(f, id)
        BY <1>1, <1>2, <2>1 DEF Answered, Self
      <3>. QED  BY <1>1, <1>2, <2>1, <3>1 DEF RecordInv, Records
    <2>2. CASE f = e
      <3>1. rpc_id'[f] = 0 /\ returns'[f] = {}
        BY <1>1, <1>2, <2>2
      <3>2. ~Answered(f, id)'
        <4>. SUFFICES ASSUME NEW i \in DOMAIN completed,
                             completed[i].call = <<Self(f)', id>>
                      PROVE  FALSE
          BY <1>1 DEF Answered
        <4> DEFINE run == completed[i].call[1]
        <4>1. run[1] = e /\ run[2] = epoch[e] + 1
          BY <1>1, <1>2, <2>2 DEF Self
        <4>2. run[2] <= epoch[e]
          BY <4>1 DEF RecordInv, PastRuns
        <4>. QED  BY <1>2, <4>1, <4>2
      <3>. QED  BY <3>1, <3>2
    <2>. QED  BY <2>1, <2>2
  <1>. QED  BY <1>3, <1>4, <1>5

LEMMA RecordStep ==
    ASSUME RPCAssumption, RecordInv, [Next]_vars
    PROVE  RecordInv'
  <1>1. TypeOK'
    BY TypeStep DEF RecordInv
  <1>2. ASSUME NEW e \in Entity, NEW cmd \in Command, Register(e, cmd)
        PROVE  Records' /\ PastRuns' /\ AnsweredOnce'
    BY <1>2 DEF Register, RecordInv, Records, PastRuns, AnsweredOnce, Answered, Self
  <1>3. ASSUME NEW e \in Entity, NEW m \in calls, IncomingCommand(e, m)
        PROVE  Records' /\ PastRuns' /\ AnsweredOnce'
    BY <1>3 DEF IncomingCommand, RecordInv, Records, PastRuns, AnsweredOnce,
                Answered, Self
  <1>4. ASSUME UNCHANGED vars
        PROVE  Records' /\ PastRuns' /\ AnsweredOnce'
    <2>1. UNCHANGED <<rpc_id, returns, epoch, completed>>
      BY <1>4 DEF vars
    <2>. QED
      BY <2>1 DEF RecordInv, Records, PastRuns, AnsweredOnce, Answered, Self
  <1>. QED
    BY <1>1, <1>2, <1>3, <1>4, RecordSend, RecordReturn, RecordRestart
       DEF Next, RecordInv

LEMMA RecordsCorrect == Spec => []RecordInv
  <1>1. Init => RecordInv
    BY DEF Init, RecordInv, TypeOK, Records, PastRuns, AnsweredOnce, Answered
  <1>. QED  BY <1>1, RecordStep, RPCAssumption, PTL DEF Spec

\* The record of a call has its return callback invoked at most once, over
\* restarts, anycasts and a network that repeats messages: "completed" has
\* each invocation, also a second one with the same return.  (An invocation
\* through an indeterminate pointer is in "wild", not here.)
THEOREM CallsAreAnsweredOnce == Spec => []AnsweredOnce
  <1>1. RecordInv => AnsweredOnce
    BY DEF RecordInv
  <1>. QED  BY <1>1, RecordsCorrect, PTL

\* A call of the present run is in the table of returns exactly as long as its
\* callback was not invoked.
THEOREM CallsStayOutstanding == Spec => []OutstandingOrAnswered
  <1>1. RecordInv => OutstandingOrAnswered
    <2>. SUFFICES ASSUME RecordInv, NEW e \in Entity, NEW id \in 0 .. MaxCalls - 1
                  PROVE  IF id < rpc_id[e]
                           THEN (id \in returns[e]) = ~Answered(e, id)
                           ELSE id \notin returns[e] /\ ~Answered(e, id)
      BY DEF OutstandingOrAnswered, Answered
    <2>1. id \in Nat
      BY RPCAssumption DEF RPCAssumption
    <2>2. /\ id < rpc_id[e] => (id \in returns[e] <=> ~Answered(e, id))
          /\ ~(id < rpc_id[e]) => id \notin returns[e] /\ ~Answered(e, id)
      BY <2>1 DEF RecordInv, Records
    <2>. QED  BY <2>2
  <1>. QED  BY <1>1, RecordsCorrect, PTL

-----------------------------------------------------------------------------
(***************************************************************************)
(* The refinement of RPCService, for entities that are not restarted: what  *)
(* a return quotes is then a call of the only run of its caller.            *)
(***************************************************************************)

\* Every message belongs to a call that was issued under a number below the
\* counter; a return comes from an entity the call was addressed to; a
\* callback was invoked with a return that was sent, for its own call.
Issued ==
    \A m \in calls : /\ m.call[1] = <<m.call[1][1], 0>>
                     /\ m.call[2] < rpc_id[m.call[1][1]]

Executed ==
    \A r \in answers :
        /\ r.app_result = OutcomeOf(r)
        /\ \E m \in calls : m.call = r.call /\ m.dst \in {r.by[1], ALL}

Invoked == \A i \in DOMAIN completed :
              /\ completed[i].ret \in answers
              /\ completed[i].ret.call = completed[i].call

OneRun ==
    /\ RecordInv
    /\ epoch = [e \in Entity |-> 0]
    /\ \A e \in Entity : rpc_id[e] <= MaxCalls
    /\ Issued
    /\ Executed
    /\ Invoked

LEMMA OneRunInit == RPCAssumption /\ Init => OneRun
  <1>1. Init => RecordInv
    BY DEF Init, RecordInv, TypeOK, Records, PastRuns, AnsweredOnce, Answered
  <1>. QED
    BY <1>1 DEF Init, OneRun, Issued, Executed, Invoked, RPCAssumption

LEMMA SelfInOneRun ==
    ASSUME OneRun, NEW e \in Entity
    PROVE  Self(e) = <<e, 0>>
  BY DEF OneRun, Self

LEMMA OneRunSend ==
    ASSUME RPCAssumption, OneRun, NEW e \in Entity, NEW cmd \in Command,
           NEW type \in CallType, NEW dst \in Entity \union {ALL},
           SendCommand(e, cmd, type, dst)
    PROVE  /\ \A f \in Entity : rpc_id'[f] <= MaxCalls
           /\ Issued' /\ Executed' /\ Invoked' /\ epoch' = epoch
  <1> DEFINE new == [call |-> <<Self(e), rpc_id[e]>>, cmd |-> cmd, dst |-> dst]
  <1>1. /\ rpc_id' = [rpc_id EXCEPT ![e] = @ + 1]
        /\ rpc_id[e] < MaxCalls
        /\ calls' \in {calls, calls \union {new}}
        /\ UNCHANGED <<answers, completed, epoch>>
    BY DEF SendCommand, NextId
  <1>2. rpc_id \in [Entity -> Nat]
    BY DEF OneRun, RecordInv, TypeOK
  <1>3. \A f \in Entity : rpc_id'[f] <= MaxCalls
    BY <1>1, <1>2 DEF OneRun, RPCAssumption
  <1>4. /\ new.call = <<<<e, 0>>, rpc_id[e]>>
        /\ new.call[1] = <<new.call[1][1], 0>>
        /\ new.call[2] < rpc_id'[new.call[1][1]]
    BY <1>1, <1>2, SelfInOneRun
  <1>5. ASSUME NEW m \in calls
        PROVE  /\ m.call[1] = <<m.call[1][1], 0>>
               /\ m.call[2] < rpc_id'[m.call[1][1]]
    <2>1. m.call[1][1] \in Entity /\ m.call[2] \in Nat
      BY CallMessageType DEF OneRun, RecordInv
    <2>. QED  BY <1>1, <1>2, <2>1 DEF OneRun, Issued
  <1>6. Issued'
    BY <1>1, <1>4, <1>5 DEF Issued
  <1>7. Executed' /\ Invoked'
    BY <1>1 DEF OneRun, Executed, Invoked, OutcomeOf
  <1>. QED  BY <1>1, <1>3, <1>6, <1>7

LEMMA OneRunCommand ==
    ASSUME RPCAssumption, OneRun, NEW e \in Entity, NEW m \in calls,
           IncomingCommand(e, m)
    PROVE  Executed' /\ Invoked'
  <1>1. /\ UNCHANGED <<calls, completed>>
        /\ m.dst \in {e, ALL}
        /\ \/ answers' = answers
           \/ \E given \in Result : answers' = answers \union {Return(e, m, given)}
    BY DEF IncomingCommand, Arrives
  <1>2. ASSUME NEW given \in Result
        PROVE  LET r == Return(e, m, given)
               IN  r.app_result = OutcomeOf(r) /\ r.call = m.call /\ r.by[1] = e
    BY DEF Return, AnsweredId, AppResult, OutcomeOf, Self
  <1>3. Executed'
    <2>1. CASE answers' = answers
      BY <1>1, <2>1 DEF OneRun, Executed, OutcomeOf
    <2>2. ASSUME NEW given \in Result, answers' = answers \union {Return(e, m, given)}
          PROVE  Executed'
      <3> DEFINE r == Return(e, m, given)
      <3>1. r.app_result = OutcomeOf(r) /\ r.call = m.call /\ r.by[1] = e
        BY <1>2
      <3>2. SUFFICES ASSUME NEW q \in answers'
                     PROVE  /\ q.app_result = OutcomeOf(q)
                            /\ \E n \in calls : n.call = q.call
                                                /\ n.dst \in {q.by[1], ALL}
        BY <1>1 DEF Executed, OutcomeOf
      <3> HIDE DEF r
      <3>3. CASE q = r
        BY <1>1, <3>1, <3>3
      <3>4. CASE q \in answers
        BY <3>4 DEF OneRun, Executed
      <3>. QED  BY <2>2, <3>3, <3>4 DEF r
    <2>. QED  BY <1>1, <2>1, <2>2
  <1>4. Invoked'
    BY <1>1 DEF OneRun, Invoked
  <1>. QED  BY <1>3, <1>4

LEMMA OneRunReturn ==
    ASSUME RPCAssumption, OneRun, NEW e \in Entity, NEW m \in answers,
           IncomingReturn(e, m)
    PROVE  Invoked'
  <1>1. /\ m.call[1][1] = e
        /\ answers' = answers
        /\ \/ completed' = completed
           \/ completed' = Append(completed,
                [call |-> <<Self(e), m.call[2]>>, ret |-> m, status |-> StatusRead(m)])
    <2>1. m.call[1][1] \in Entity
      BY ReturnMessageType DEF OneRun, RecordInv
    <2>2. m.call[1][1] \in {e, ALL}
      BY DEF IncomingReturn, Arrives
    <2>. QED  BY <2>1, <2>2 DEF IncomingReturn, RPCAssumption
  <1>2. <<Self(e), m.call[2]>> = m.call
    <2>1. PICK n \in calls : n.call = m.call
      BY DEF OneRun, Executed
    <2>2. m.call[1] = <<e, 0>>
      BY <1>1, <2>1 DEF OneRun, Issued
    <2>3. m.call = <<m.call[1], m.call[2]>>
      BY DEF OneRun, RecordInv, TypeOK, ReturnMessage, Call
    <2>. QED  BY <2>2, <2>3, SelfInOneRun
  <1> DEFINE new == [call |-> <<Self(e), m.call[2]>>, ret |-> m,
                     status |-> StatusRead(m)]
  <1>3. new \in Completion /\ completed \in Seq(Completion)
    BY <1>2, ReturnMessageType
       DEF OneRun, RecordInv, TypeOK, Completion, StatusRead, RPCStatus
  <1>4. new.call = m.call /\ new.ret = m
    BY <1>2
  <1> HIDE DEF new
  <1>5. CASE completed' = completed
    BY <1>1, <1>5 DEF OneRun, Invoked
  <1>6. CASE completed' = Append(completed, new)
    <2>1. /\ DOMAIN completed' = DOMAIN completed \union {Len(completed) + 1}
          /\ \A i \in DOMAIN completed : completed'[i] = completed[i]
          /\ completed'[Len(completed) + 1] = new
      BY <1>3, <1>6, OneMore
    <2>. QED  BY <1>1, <1>4, <2>1 DEF OneRun, Invoked
  <1>. QED  BY <1>1, <1>5, <1>6 DEF new

LEMMA OneRunStep ==
    ASSUME RPCAssumption, MaxRestart = 0, OneRun, [Next]_vars
    PROVE  OneRun'
  <1>1. RecordInv'
    BY RecordStep DEF OneRun
  <1>2. ASSUME NEW e \in Entity, Restart(e) PROVE FALSE
    BY <1>2 DEF Restart, OneRun
  <1>3. ASSUME UNCHANGED <<epoch, rpc_id, calls, answers, completed>>
        PROVE  OneRun'
    BY <1>1, <1>3 DEF OneRun, Issued, Executed, Invoked, OutcomeOf
  <1>4. ASSUME NEW e \in Entity, NEW cmd \in Command, NEW type \in CallType,
               NEW dst \in Entity \union {ALL}, SendCommand(e, cmd, type, dst)
        PROVE  OneRun'
    BY <1>1, <1>4, OneRunSend DEF OneRun
  <1>5. ASSUME NEW e \in Entity, NEW m \in calls, IncomingCommand(e, m)
        PROVE  OneRun'
    <2>1. UNCHANGED <<epoch, rpc_id, calls>>
      BY <1>5 DEF IncomingCommand
    <2>. QED  BY <1>1, <1>5, <2>1, OneRunCommand DEF OneRun, Issued
  <1>6. ASSUME NEW e \in Entity, NEW m \in answers, IncomingReturn(e, m)
        PROVE  OneRun'
    <2>1. UNCHANGED <<epoch, rpc_id, calls, answers>>
      BY <1>6 DEF IncomingReturn
    <2>. QED
      BY <1>1, <1>6, <2>1, OneRunReturn DEF OneRun, Issued, Executed, OutcomeOf
  <1>7. ASSUME NEW e \in Entity, NEW cmd \in Command, Register(e, cmd)
        PROVE  OneRun'
    BY <1>3, <1>7 DEF Register
  <1>8. UNCHANGED vars => OneRun'
    BY <1>3 DEF vars
  <1>. QED  BY <1>2, <1>4, <1>5, <1>6, <1>7, <1>8 DEF Next

LEMMA OneRunCorrect ==
    ASSUME MaxRestart = 0
    PROVE  Spec => []OneRun
  <1>1. OneRun /\ [Next]_vars => OneRun'
    BY OneRunStep, RPCAssumption
  <1>. QED  BY <1>1, OneRunInit, RPCAssumption, PTL DEF Spec

\* The callback of a call is only invoked with a return an addressee of this
\* call sent for it, if processes are not restarted.
THEOREM AnswersAreForTheirCalls ==
    ASSUME MaxRestart = 0
    PROVE  Spec => []AnswersOwnCall
  <1>1. OneRun => AnswersOwnCall
    BY DEF OneRun, Executed, Invoked, AnswersOwnCall
  <1>. QED  BY <1>1, OneRunCorrect, PTL

CallNumber == (Entity \X (0 .. MaxRestart)) \X (0 .. MaxCalls - 1)

LEMMA CallNumberType ==
    ASSUME RPCAssumption, OneRun, NEW m \in calls
    PROVE  m.call \in CallNumber
  <1>1. /\ m.call \in Call /\ m.call[1][1] \in Entity /\ m.call[2] \in Nat
        /\ m.call[1] = <<m.call[1][1], 0>> /\ m.call[2] < rpc_id[m.call[1][1]]
    BY CallMessageType DEF OneRun, RecordInv, Issued
  <1>2. rpc_id[m.call[1][1]] \in Nat /\ rpc_id[m.call[1][1]] <= MaxCalls
    BY <1>1 DEF OneRun, RecordInv, TypeOK
  <1>3. m.call[2] \in 0 .. MaxCalls - 1
    BY <1>1, <1>2 DEF RPCAssumption
  <1>4. 0 \in 0 .. MaxRestart
    BY DEF RPCAssumption
  <1>5. m.call[1] \in Entity \X (0 .. MaxRestart)
    <2>1. PICK f \in Entity : m.call[1] = <<f, 0>>
      BY <1>1
    <2>. QED  BY <1>4, <2>1
  <1>6. m.call = <<m.call[1], m.call[2]>>
    BY <1>1 DEF Call
  <1>. QED  BY <1>3, <1>5, <1>6 DEF CallNumber

\* The steps of the service, by name.
LEMMA IssueIsNext ==
    ASSUME NEW c \in CallNumber, Service!Issue(c)
    PROVE  Service!Next
  BY DEF Service!Next, CallNumber

LEMMA ExecuteIsNext ==
    ASSUME NEW c \in CallNumber, NEW s \in Entity, NEW o \in {"OK", "FAILED"},
           Service!Execute(c, s, o)
    PROVE  Service!Next
  BY DEF Service!Next, CallNumber

LEMMA AnswerIsNext ==
    ASSUME NEW c \in CallNumber, NEW o \in {"OK", "FAILED"}, Service!Answer(c, o)
    PROVE  Service!Next
  BY DEF Service!Next, CallNumber

\* Every step of the RPC entities is one step of RPCService or none.
LEMMA ServiceStep ==
    ASSUME RPCAssumption, MaxRestart = 0, OneRun, [Next]_vars
    PROVE  [Service!Next]_(Service!vars)
  <1> DEFINE issued == {m.call : m \in calls}
             executed == {<<m.call, m.by[1], OutcomeOf(m)>> : m \in answers}
             answer == [i \in DOMAIN completed |->
                          <<completed[i].call, completed[i].ret.app_result>>]
  <1>1. ASSUME UNCHANGED <<calls, answers, completed>>
        PROVE  UNCHANGED Service!vars
    BY <1>1 DEF Service!vars, OutcomeOf
  <1>2. ASSUME NEW e \in Entity, NEW cmd \in Command, NEW type \in CallType,
               NEW dst \in Entity \union {ALL}, SendCommand(e, cmd, type, dst)
        PROVE  [Service!Next]_(Service!vars)
    <2> DEFINE new == [call |-> <<Self(e), rpc_id[e]>>, cmd |-> cmd, dst |-> dst]
    <2>1. CASE calls' = calls
      BY <1>1, <1>2, <2>1 DEF SendCommand
    <2>2. CASE calls' = calls \union {new}
      <3>1. new.call = <<<<e, 0>>, rpc_id[e]>>
        BY SelfInOneRun
      <3>2. new.call \in CallNumber
        <4>1. rpc_id[e] \in Nat /\ rpc_id[e] < MaxCalls
          BY <1>2 DEF SendCommand, OneRun, RecordInv, TypeOK
        <4>2. rpc_id[e] \in 0 .. MaxCalls - 1 /\ 0 \in 0 .. MaxRestart
          BY <4>1 DEF RPCAssumption
        <4>. QED  BY <3>1, <4>2 DEF CallNumber
      <3>3. new.call \notin issued
        <4>. SUFFICES ASSUME NEW m \in calls, m.call = new.call PROVE FALSE
          OBVIOUS
        <4>1. m.call[2] = rpc_id[e] /\ m.call[2] < rpc_id[e]
          BY <3>1 DEF OneRun, Issued
        <4>. QED  BY <4>1 DEF OneRun, RecordInv, TypeOK
      <3>4. issued' = issued \union {new.call}
        BY <2>2
      <3>5. executed' = executed /\ answer' = answer
        BY <1>2 DEF SendCommand, OutcomeOf
      <3>6. PICK k \in CallNumber : k = new.call
        BY <3>2
      <3>7. Service!Issue(k)
        BY <3>3, <3>4, <3>5, <3>6 DEF Service!Issue
      <3>. QED  BY <3>7, IssueIsNext
    <2>. QED  BY <1>2, <2>1, <2>2 DEF SendCommand
  <1>3. ASSUME NEW e \in Entity, NEW m \in calls, IncomingCommand(e, m)
        PROVE  [Service!Next]_(Service!vars)
    <2>1. CASE answers' = answers
      BY <1>1, <1>3, <2>1 DEF IncomingCommand
    <2>2. ASSUME NEW given \in Result, answers' = answers \union {Return(e, m, given)}
          PROVE  Service!Next
      <3> DEFINE r == Return(e, m, given)
      <3>1. r.call = m.call /\ r.by[1] = e
        BY DEF Return, AnsweredId, Self
      <3>2. OutcomeOf(r) \in {"OK", "FAILED"}
        BY DEF OutcomeOf
      <3>3. m.call \in issued /\ m.call \in CallNumber
        BY CallNumberType
      <3>4. executed' = executed \union {<<m.call, e, OutcomeOf(r)>>}
        <4> HIDE DEF r
        <4>1. answers' = answers \union {r}
          BY <2>2 DEF r
        <4>2. \A q : OutcomeOf(q)' = OutcomeOf(q)
          BY DEF OutcomeOf
        <4>. QED  BY <3>1, <4>1 DEF OutcomeOf
      <3>5. issued' = issued /\ answer' = answer
        BY <1>3 DEF IncomingCommand
      <3> HIDE DEF r
      <3>6. PICK o \in {"OK", "FAILED"} : o = OutcomeOf(r)
        BY <3>2
      <3>7. Service!Execute(m.call, e, o)
        BY <3>3, <3>4, <3>5, <3>6 DEF Service!Execute
      <3>. QED  BY <3>3, <3>7, ExecuteIsNext
    <2>. QED  BY <1>3, <2>1, <2>2 DEF IncomingCommand
  <1>4. ASSUME NEW e \in Entity, NEW m \in answers, IncomingReturn(e, m)
        PROVE  [Service!Next]_(Service!vars)
    <2> DEFINE new == [call |-> <<Self(e), m.call[2]>>, ret |-> m,
                       status |-> StatusRead(m)]
    <2>1. CASE completed' = completed
      BY <1>1, <1>4, <2>1 DEF IncomingReturn
    <2>2. CASE m.call[2] \in returns[e] /\ completed' = Append(completed, new)
      <3>1. OneRun'
        BY OneRunStep
      <3>0. /\ DOMAIN completed' = DOMAIN completed \union {Len(completed) + 1}
            /\ Len(completed) + 1 \notin DOMAIN completed
            /\ \A i \in DOMAIN completed : completed'[i] = completed[i]
            /\ completed'[Len(completed) + 1] = new
        <4>1. m \in ReturnMessage /\ <<Self(e), m.call[2]>> \in Call
          BY ReturnMessageType, SelfType DEF OneRun, RecordInv, Call
        <4>2. new \in Completion /\ completed \in Seq(Completion)
          BY <4>1 DEF Completion, StatusRead, RPCStatus, OneRun, RecordInv, TypeOK
        <4> HIDE DEF new
        <4>. QED  BY <2>2, <4>2, OneMore
      <3>2. new.call = m.call
        <4>1. completed'[Len(completed) + 1].ret.call
                = completed'[Len(completed) + 1].call
          BY <3>0, <3>1 DEF OneRun, Invoked
        <4>. QED  BY <3>0, <4>1
      <3>3. PICK n \in calls : n.call = m.call
        BY DEF OneRun, Executed
      <3>4. m.call \in CallNumber
        BY <3>3, CallNumberType
      <3>5. \A i \in DOMAIN answer : answer[i][1] # m.call
        <4>1. m.call[2] \in Nat
          BY ReturnMessageType DEF OneRun, RecordInv
        <4>2. ~Answered(e, m.call[2])
          BY <2>2, <4>1 DEF OneRun, RecordInv, Records
        <4>. QED  BY <3>2, <4>2 DEF Answered
      <3>6. answer' = Append(answer, <<m.call, m.app_result>>)
        <4>1. new.call = m.call /\ new.ret = m
          BY <3>2
        <4> HIDE DEF new
        <4>2. /\ completed \in Seq(Completion)
              /\ DOMAIN completed = 1 .. Len(completed) /\ Len(completed) \in Nat
          BY LenProperties DEF OneRun, RecordInv, TypeOK
        <4>3. Len(answer) = Len(completed)
          BY <4>2
        <4>4. DOMAIN answer' = 1 .. Len(completed) + 1
          BY <3>0, <4>2
        <4> DEFINE told == <<m.call, m.app_result>>
        <4>5. Append(answer, told)
                = [i \in 1 .. Len(completed) + 1 |->
                     IF i = Len(completed) + 1 THEN told ELSE answer[i]]
          <5>1. ASSUME NEW i \in 1 .. Len(completed)
                PROVE  answer[i] \in Call \X {"OK", "FAILED"}
            <6>1. completed[i] \in Completion
              BY <4>2, ElementOfSeq
            <6>2. /\ completed[i].call \in Call
                  /\ completed[i].ret.app_result \in {"OK", "FAILED"}
              BY <6>1 DEF Completion, ReturnMessage
            <6>. QED  BY <4>2, <6>2
          <5>2. answer \in [1 .. Len(completed) -> Call \X {"OK", "FAILED"}]
            <6>. HIDE DEF answer
            <6>1. answer = [i \in 1 .. Len(completed) |-> answer[i]]
              BY <4>2 DEF answer
            <6>. QED  BY <5>1, <6>1
          <5>3. told \in Call \X {"OK", "FAILED"}
            BY ReturnMessageType DEF OneRun, RecordInv, ReturnMessage
          <5> HIDE DEF answer, told
          <5>4. answer \in Seq(Call \X {"OK", "FAILED"})
            BY <4>2, <5>2
          <5>. QED  BY <4>3, <5>3, <5>4, AppendIsFunction
        <4>6. ASSUME NEW i \in 1 .. Len(completed) + 1
              PROVE  answer'[i] = IF i = Len(completed) + 1 THEN told
                                                            ELSE answer[i]
          <5>1. CASE i = Len(completed) + 1
            BY <3>0, <4>1, <5>1
          <5>2. CASE i # Len(completed) + 1
            <6>1. i \in DOMAIN completed
              BY <4>2, <5>2
            <6>. QED  BY <3>0, <5>2, <6>1
          <5>. QED  BY <5>1, <5>2
        <4>. QED  BY <4>4, <4>5, <4>6
      <3>7. /\ m.app_result = OutcomeOf(m)
            /\ <<m.call, m.by[1], m.app_result>> \in executed
            /\ m.by[1] \in Entity
        BY ReturnMessageType DEF OneRun, RecordInv, Executed
      <3>8. OutcomeOf(m) \in {"OK", "FAILED"}
        BY DEF OutcomeOf
      <3>9. issued' = issued /\ executed' = executed
        BY <1>4 DEF IncomingReturn, OutcomeOf
      <3> HIDE DEF issued, executed, answer
      <3>10. /\ \E s \in Entity : <<m.call, s, m.app_result>> \in executed
             /\ answer' = Append(answer, <<m.call, m.app_result>>)
        BY <3>6, <3>7
      <3> USE DEF issued, executed, answer
      <3>11. Service!Answer(m.call, m.app_result)
        BY <3>5, <3>9, <3>10 DEF Service!Answer
      <3>. QED  BY <3>4, <3>7, <3>8, <3>11, AnswerIsNext
    <2>. QED  BY <1>4, <2>1, <2>2 DEF IncomingReturn
  <1>5. ASSUME NEW e \in Entity, NEW cmd \in Command, Register(e, cmd)
        PROVE  [Service!Next]_(Service!vars)
    BY <1>1, <1>5 DEF Register
  <1>6. ASSUME NEW e \in Entity, Restart(e) PROVE FALSE
    BY <1>6 DEF Restart, OneRun
  <1>7. UNCHANGED vars => UNCHANGED Service!vars
    BY <1>1 DEF vars
  <1>. QED  BY <1>2, <1>3, <1>4, <1>5, <1>6, <1>7 DEF Next

\* rpc_entity_send_command: whatever the network does, the transport of calls
\* and returns implements RPCService if processes are not restarted.
THEOREM CallsImplementService ==
    ASSUME MaxRestart = 0
    PROVE  Spec => ImplementsRPCService
  <1>1. Init => Service!Init
    BY DEF Init, Service!Init
  <1>2. OneRun /\ [Next]_vars => [Service!Next]_(Service!vars)
    BY ServiceStep, RPCAssumption
  <1>. QED
    BY <1>1, <1>2, OneRunCorrect, PTL DEF Spec, ImplementsRPCService, Service!Spec
=============================================================================
