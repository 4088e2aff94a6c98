---------------------------- MODULE MClientProofs ----------------------------
(***************************************************************************)
(* Theorems about MClient, for all sets of entities, commands, payloads and *)
(* subscriptions and every depth of nested main loops.                      *)
(***************************************************************************)
EXTENDS MClient, SequenceTheorems, TLAPS

(***************************************************************************)
(* The stack as a set of frames.                                            *)
(***************************************************************************)
Frames(s) == {s[k] : k \in DOMAIN s}

LEMMA FramesAppend ==
    ASSUME NEW S, NEW s \in Seq(S), NEW f \in S
    PROVE  /\ Append(s, f) \in Seq(S)
           /\ Append(s, f) # <<>>
           /\ Frames(Append(s, f)) = Frames(s) \union {f}
           /\ Append(s, f)[Len(Append(s, f))] = f
           /\ SubSeq(Append(s, f), 1, Len(Append(s, f)) - 1) = s
  <1>1. /\ Append(s, f) \in Seq(S)
        /\ Append(s, f) # <<>>
        /\ Len(Append(s, f)) = Len(s) + 1
        /\ \A k \in 1 .. Len(s) : Append(s, f)[k] = s[k]
        /\ Append(s, f)[Len(s) + 1] = f
    BY AppendProperties
  <1>2. Len(s) \in Nat /\ DOMAIN s = 1 .. Len(s)
        /\ DOMAIN Append(s, f) = 1 .. (Len(s) + 1)
    BY <1>1
  <1>3. Frames(Append(s, f)) = Frames(s) \union {f}
    BY <1>1, <1>2 DEF Frames
  <1>4. SubSeq(Append(s, f), 1, Len(s)) = s
    <2>1. /\ SubSeq(Append(s, f), 1, Len(s)) \in Seq(S)
          /\ Len(SubSeq(Append(s, f), 1, Len(s))) = Len(s)
          /\ \A k \in 1 .. Len(s) :
                SubSeq(Append(s, f), 1, Len(s))[k] = Append(s, f)[k]
      BY <1>1, <1>2
    <2>. QED  BY <1>1, <2>1, SeqEqual
  <1>. QED  BY <1>1, <1>2, <1>3, <1>4

LEMMA FramesFront ==
    ASSUME NEW S, NEW s \in Seq(S), s # <<>>
    PROVE  LET front == SubSeq(s, 1, Len(s) - 1) IN
           /\ front \in Seq(S)
           /\ s[Len(s)] \in S
           /\ Frames(s) = Frames(front) \union {s[Len(s)]}
           /\ Frames(front) \subseteq S
  <1> DEFINE front == SubSeq(s, 1, Len(s) - 1)
  <1>1. Len(s) \in Nat \ {0} /\ DOMAIN s = 1 .. Len(s)
        /\ \A k \in 1 .. Len(s) : s[k] \in S
    BY EmptySeq, LenProperties
  <1>2. /\ front \in Seq(S)
        /\ Len(front) = Len(s) - 1
        /\ DOMAIN front = 1 .. (Len(s) - 1)
        /\ \A k \in 1 .. (Len(s) - 1) : front[k] = s[k]
    BY <1>1
  <1> HIDE DEF front
  <1>3. DOMAIN s = DOMAIN front \union {Len(s)}
    BY <1>1, <1>2
  <1>4. Frames(s) = Frames(front) \union {s[Len(s)]}
    BY <1>2, <1>3 DEF Frames
  <1>5. Frames(front) \subseteq S
    BY <1>1, <1>2 DEF Frames
  <1>. QED  BY <1>1, <1>2, <1>4, <1>5 DEF front

LEMMA FramesEmpty == Frames(<<>>) = {}
  BY DEF Frames

(***************************************************************************)
(* What the functions that walk through a message do to the stack.          *)
(***************************************************************************)

\* id is that of the first registration of the command.
FirstIs(cmd, id) ==
    \E k \in DOMAIN callbacks :
        /\ callbacks[k].cmd = cmd
        /\ callbacks[k].id = id
        /\ \A m \in DOMAIN callbacks : m < k => callbacks[m].cmd # cmd

\* The handler ends, or suspends in unknown_message or in a command's callback.
Dispatched(below) ==
    \/ /\ stack' = below
       /\ served' = served
    \/ \E g \in MessageFrame :
          /\ g.in = "unknown"
          /\ stack' = Append(below, g)
          /\ served' = served
    \/ \E g \in MessageFrame, cmd \in Command, id \in Nat :
          /\ g.in = "command"
          /\ stack' = Append(below, g)
          /\ served' = served \union {<<cmd, id>>}
          /\ dangling' = {} => FirstIs(cmd, id)

LEMMA DispatchFacts ==
    ASSUME TypeOK, NEW below, NEW f \in MessageFrame, NEW i \in Nat \ {0},
           Dispatch(below, f, i)
    PROVE  /\ Dispatched(below)
           /\ dangling' \subseteq {"registration"}
           /\ dangling' # {} => Unregistered
  <1> USE DEF MessageFrame
  <1>0. f.cmds \in Seq(Name) /\ Len(f.cmds) \in Nat
    OBVIOUS
  <1>1. \A c : ReadsFreed(c) => Unregistered
    BY DEF ReadsFreed, Unregistered
  <1>2. ASSUME NEW j, Walk(f, i, j)
        PROVE  dangling' \subseteq {"registration"} /\ (dangling' # {} => Unregistered)
    BY <1>1, <1>2 DEF Walk
  <1>3. ASSUME stack' = below, UNCHANGED served  PROVE Dispatched(below)
    BY <1>3, Zenon DEF Dispatched
  <1>4. ASSUME NEW j \in First(Targets(f, i)), Walk(f, i, j),
               stack' = Append(below, [f EXCEPT !.in = "unknown", !.i = j]),
               UNCHANGED served
        PROVE  Dispatched(below)
    <2>1. j \in Nat
      BY <1>0 DEF First, Targets
    <2>2. [f EXCEPT !.in = "unknown", !.i = j] \in MessageFrame
          /\ [f EXCEPT !.in = "unknown", !.i = j].in = "unknown"
      BY <2>1
    <2>. QED  BY <2>2, <1>4 DEF Dispatched
  <1>5. ASSUME NEW j \in First(Targets(f, i)), Walk(f, i, j),
               NEW k \in First(Matches(f.cmds[j])),
               stack' = Append(below, [f EXCEPT !.in = "command", !.i = j]),
               served' = served \union {<<f.cmds[j], callbacks[k].id>>}
        PROVE  Dispatched(below)
    <2>1. j \in Nat /\ i <= j
      BY <1>0 DEF First, Targets
    <2> DEFINE g  == [f EXCEPT !.in = "command", !.i = j]
               id == callbacks[k].id
    <2>2. g \in MessageFrame /\ g.in = "command"
      BY <2>1
    <2>3. /\ callbacks \in Seq([cmd : Command, id : Nat, live : BOOLEAN])
          /\ k \in DOMAIN callbacks
          /\ callbacks[k].cmd = f.cmds[j]
          /\ callbacks[k] \in [cmd : Command, id : Nat, live : BOOLEAN]
      <3> DEFINE R == [cmd : Command, id : Nat, live : BOOLEAN]
      <3>1. callbacks \in Seq(R)
        BY DEF TypeOK
      <3>2. k \in DOMAIN callbacks /\ callbacks[k].cmd = f.cmds[j]
        BY DEF First, Matches
      <3> HIDE DEF R
      <3>3. callbacks[k] \in R
        BY <3>1, <3>2
      <3>. QED  BY <3>1, <3>2, <3>3 DEF R
    <2>4. id \in Nat /\ f.cmds[j] \in Command
      BY <2>3
    <2>5. ASSUME dangling' = {}  PROVE FirstIs(f.cmds[j], id)
      <3>1. ~ReadsFreed(f.cmds[j])
        BY <1>5, <2>1, <2>5 DEF Walk
      <3>2. ASSUME NEW m \in DOMAIN callbacks, m < k
            PROVE  callbacks[m].cmd # f.cmds[j]
        <4>1. k \in Nat /\ m \in Nat
          BY <2>3
        <4>2. \A n \in Matches(f.cmds[j]) : n \in Nat /\ k <= n
          BY <2>3, SMTT(30) DEF First, Matches
        <4>3. callbacks[m].live
          BY <3>1, <3>2, <4>1, <4>2 DEF ReadsFreed
        <4>. QED  BY <4>1, <4>2, <4>3, <3>2 DEF Matches
      <3>. QED  BY <2>3, <3>2 DEF FirstIs
    <2>. HIDE DEF g, id
    <2>6. stack' = Append(below, g) /\ served' = served \union {<<f.cmds[j], id>>}
      BY <1>5 DEF g, id
    <2>. QED  BY <2>2, <2>4, <2>5, <2>6 DEF Dispatched
  <1>. QED  BY <1>2, <1>3, <1>4, <1>5 DEF Dispatch

LEMMA ProceedFacts ==
    ASSUME TypeOK, dangling = {}, NEW below, NEW f \in MessageFrame, NEW known,
           Proceed(below, f, known)
    PROVE  /\ Dispatched(below)
           /\ dangling' \subseteq Kind
           /\ f.from \in known /\ dangling' # {} => Unregistered
  <1>1. CASE Contains(f, HELLO) /\ dangling' = {x \in {"entity"} : f.from \notin known}
             /\ stack' = below /\ UNCHANGED served
    BY <1>1 DEF Dispatched, Kind
  <1>2. CASE Contains(f, BYE) /\ stack' = below /\ UNCHANGED <<dangling, served>>
    BY <1>2 DEF Dispatched, Kind
  <1>3. CASE Dispatch(below, f, 1)
    BY <1>3, DispatchFacts DEF Kind
  <1>. QED  BY <1>1, <1>2, <1>3 DEF Proceed

LEMMA DispatchedType ==
    ASSUME TypeOK, NEW below \in Seq(Frame), Dispatched(below)
    PROVE  stack' \in Seq(Frame) /\ served' \subseteq Command \X Nat
  <1>1. MessageFrame \subseteq Frame /\ served \subseteq Command \X Nat
    BY DEF Frame, TypeOK
  <1>2. \A g \in MessageFrame : Append(below, g) \in Seq(Frame)
    BY <1>1, FramesAppend
  <1>. QED  BY <1>1, <1>2 DEF Dispatched

-----------------------------------------------------------------------------
(***************************************************************************)
(* Types                                                                    *)
(***************************************************************************)
LEMMA TypeInit == ClientAssumption /\ Init => TypeOK
  <1>. QED  BY EmptySeq DEF Init, TypeOK, ClientAssumption

LEMMA TypeApplication ==
    ASSUME ClientAssumption, TypeOK, Application
    PROVE  TypeOK'
  <1> USE DEF TypeOK, tableVars, timerVars, historyVars
  <1>1. ASSUME NEW cmd \in Command, Register(cmd)  PROVE TypeOK'
    <2> DEFINE R == [cmd : Command, id : Nat, live : BOOLEAN]
               new == [cmd |-> cmd, id |-> Len(callbacks), live |-> TRUE]
    <2>1. callbacks \in Seq(R)
      BY Zenon
    <2>2. Len(callbacks) \in Nat
      BY <2>1, LenProperties
    <2>3. new \in R
      BY <2>2
    <2> HIDE DEF R, new
    <2>4. Append(callbacks, new) \in Seq(R)
      BY <2>1, <2>3, AppendProperties
    <2>. QED  BY <1>1, <2>4 DEF Register, AddCallback, R, new
  <1>2. ASSUME NEW cmd \in Command, Unregister(cmd)  PROVE TypeOK'
    <2> DEFINE R == [cmd : Command, id : Nat, live : BOOLEAN]
               next == [k \in DOMAIN callbacks |->
                    [callbacks[k] EXCEPT !.live = @ /\ k \notin First(Matches(cmd))]]
    <2>1. callbacks \in Seq(R)
      BY Zenon
    <2>2. \A r \in R, b \in BOOLEAN : [r EXCEPT !.live = @ /\ b] \in R
      OBVIOUS
    <2> HIDE DEF R
    <2>3. /\ DOMAIN callbacks = 1 .. Len(callbacks)
          /\ Len(callbacks) \in Nat
          /\ \A k \in DOMAIN callbacks : callbacks[k] \in R
      BY <2>1, LenProperties
    <2>4. \A k \in DOMAIN callbacks : next[k] \in R
      BY <2>2, <2>3
    <2>5. next \in [1 .. Len(callbacks) -> R]
      BY <2>3, <2>4
    <2> HIDE DEF next
    <2>6. next \in Seq(R)
      BY <2>3, <2>5, SeqDef
    <2>7. callbacks' = next /\ dangling' \subseteq {"registration"}
      BY <1>2 DEF Unregister, next
    <2>. QED  BY <1>2, <2>6, <2>7 DEF Unregister, R, Kind
  <1>3. ASSUME NEW event \in Event, Subscribe(event) \/ Unsubscribe(event)
        PROVE  TypeOK'
    BY <1>3 DEF Subscribe, Unsubscribe
  <1>4. ASSUME NEW e \in Entity, Send(e)  PROVE TypeOK'
    BY <1>4 DEF Send, TakeAcks
  <1>5. ASSUME NEW e \in Entity, SendReliable(e)  PROVE TypeOK'
    BY <1>5 DEF SendReliable, TakeAcks, N_r
  <1>6. CASE Free
    BY <1>6 DEF Free
  <1>. QED  BY <1>1, <1>2, <1>3, <1>4, <1>5, <1>6 DEF Application

LEMMA TypeMessage ==
    ASSUME ClientAssumption, TypeOK, dangling = {},
           NEW socket \in Socket, NEW e \in Entity, NEW reliable \in BOOLEAN,
           NEW cmds \in Payload, NEW numbers \in SUBSET Nat,
           WhenMessage(socket, e, reliable, numbers, cmds)
    PROVE  TypeOK'
  <1> DEFINE f == [in |-> "new", socket |-> socket, from |-> e, cmds |-> cmds,
                   i |-> 0]
  <1>1. f \in MessageFrame /\ f.from = e
    BY DEF MessageFrame, ClientAssumption
  <1> HIDE DEF f
  <1>2. stack \in Seq(Frame) /\ MessageFrame \subseteq Frame
    BY DEF TypeOK, Frame
  <1>3. acknowledgements' \subseteq Entity /\ t_c' \subseteq Entity
    BY DEF WhenMessage, QueueAck, TypeOK
  <1>4. /\ reliable_messages' \subseteq [seq : Nat, n : 1 .. N_r - 1]
        /\ t_r' \subseteq Nat
        /\ acked' \subseteq Nat
    BY DEF WhenMessage, Settle, TypeOK
  <1>5. /\ stack' \in Seq(Frame)
        /\ served' \subseteq Command \X Nat
        /\ dangling' \subseteq Kind
        /\ entities' \subseteq Entity
        /\ present' \subseteq Entity
    <2>1. ASSUME NEW known, Proceed(stack, f, known)
          PROVE  /\ stack' \in Seq(Frame)
                 /\ served' \subseteq Command \X Nat
                 /\ dangling' \subseteq Kind
      BY <1>1, <1>2, <2>1, ProceedFacts, DispatchedType
    <2>2. CASE Proceed(stack, f, entities) /\ UNCHANGED <<entities, present>>
      BY <2>1, <2>2 DEF TypeOK
    <2>3. CASE AddEntity(e, f)
      <3>1. Append(stack, f) \in Seq(Frame)
        BY <1>1, <1>2, FramesAppend
      <3>2. entities' \subseteq Entity
        BY <2>3 DEF AddEntity, TypeOK
      <3>3. CASE LostRunning
        BY <2>3, <3>2, <3>3 DEF AddEntity, TypeOK, Kind
      <3>4. CASE ~LostRunning /\ UNCHANGED present /\ Proceed(stack, f, entities')
        BY <2>1, <3>2, <3>4 DEF TypeOK
      <3>5. CASE /\ ~LostRunning /\ present' = present \union {e}
                 /\ stack' = Append(stack, f) /\ UNCHANGED <<dangling, served>>
        BY <3>1, <3>2, <3>5 DEF TypeOK
      <3>. QED  BY <2>3, <3>3, <3>4, <3>5 DEF AddEntity
    <2>. QED  BY <2>2, <2>3 DEF WhenMessage, f
  <1>6. UNCHANGED <<callbacks, subscribed, alive, sent, failed>>
    BY DEF WhenMessage
  <1>. QED  BY <1>3, <1>4, <1>5, <1>6 DEF TypeOK

LEMMA TellLostFacts ==
    ASSUME NEW below, NEW left \in SUBSET Entity, NEW known,
           TellLost(below, left, known)
    PROVE  \E f \in LostFrame : /\ f.in = "lost"
                               /\ f.from \notin Recent
                               /\ stack' = Append(below, f)
                               /\ present' = present \ {f.from}
  <1>1. PICK e \in (left \cap known) \ Recent :
          /\ stack' = Append(below, [in |-> "lost", from |-> e, left |-> left \ {e}])
          /\ present' = present \ {e}
    BY DEF TellLost
  <1>. QED  BY <1>1 DEF LostFrame

LEMMA TypeTimer ==
    ASSUME ClientAssumption, TypeOK, dangling = {}, Timer
    PROVE  TypeOK'
  <1>0. stack \in Seq(Frame) /\ LostFrame \subseteq Frame /\ ErrorFrame \subseteq Frame
    BY DEF TypeOK, Frame
  <1>1. CASE CheckLostEntities
    <2>1. stack' \in Seq(Frame) /\ present' \subseteq Entity /\ entities' \subseteq Entity
      <3>1. CASE TellLost(stack, entities, entities) /\ UNCHANGED entities
        <4>1. PICK f \in LostFrame : /\ stack' = Append(stack, f)
                                     /\ present' = present \ {f.from}
          BY <3>1, TellLostFacts DEF TypeOK
        <4>2. Append(stack, f) \in Seq(Frame)
          BY <1>0, FramesAppend
        <4>. QED  BY <3>1, <4>1, <4>2 DEF TypeOK
      <3>2. CASE UNCHANGED <<stack, present>> /\ entities' \subseteq entities
        BY <3>2 DEF TypeOK
      <3>. QED  BY <1>1, <3>1, <3>2 DEF CheckLostEntities
    <2>. QED  BY <1>1, <2>1 DEF CheckLostEntities, TypeOK, timerVars
  <1>2. ASSUME NEW s \in 0 .. MaxSend - 1, Retransmit(s)  PROVE TypeOK'
    <2> DEFINE entry == {r \in reliable_messages : r.seq = s}
               f == [in |-> "error", seq |-> s]
    <2>1. s \in Nat
      BY DEF ClientAssumption
    <2>2. f \in ErrorFrame
      BY <2>1 DEF ErrorFrame
    <2> HIDE DEF f
    <2>3. Append(stack, f) \in Seq(Frame)
      BY <1>0, <2>2, FramesAppend
    <2>4. dangling' \subseteq Kind
      BY <1>2 DEF Retransmit, Kind
    <2>5. UNCHANGED <<callbacks, subscribed, alive, entities, acknowledgements, sent,
                      t_c, present, served, acked>>
      BY <1>2 DEF Retransmit
    <2>6. CASE /\ \A r \in entry : ~LastPeriod(r)
               /\ reliable_messages' = (reliable_messages \ entry)
                      \union {[seq |-> s, n |-> r.n + 1] : r \in entry}
               /\ UNCHANGED <<t_r, stack, failed>>
      <3>1. \A r \in entry : r.n + 1 \in 1 .. N_r - 1
        BY <2>6, SMTT(30) DEF TypeOK, LastPeriod, N_r
      <3>2. reliable_messages' \subseteq [seq : Nat, n : 1 .. N_r - 1]
        BY <2>1, <2>6, <3>1 DEF TypeOK
      <3>. QED  BY <2>4, <2>5, <2>6, <3>2 DEF TypeOK
    <2>7. CASE /\ t_r' = t_r \ {s}
               /\ stack' = Append(stack, f)
               /\ failed' = failed \union {s}
               /\ UNCHANGED reliable_messages
      BY <2>1, <2>3, <2>4, <2>5, <2>7 DEF TypeOK
    <2>8. CASE /\ t_r' = t_r \ {s}
               /\ reliable_messages' = reliable_messages \ entry
               /\ UNCHANGED <<stack, failed>>
      BY <2>4, <2>5, <2>8 DEF TypeOK
    <2>. QED  BY <1>2, <2>6, <2>7, <2>8, Zenon DEF Retransmit, f
  <1>3. ASSUME NEW e \in Entity, SendAcks(e)  PROVE TypeOK'
    BY <1>3 DEF SendAcks, TypeOK, historyVars, Kind
  <1>. QED  BY <1>1, <1>2, <1>3 DEF Timer

LEMMA FramesByKind ==
    ASSUME NEW f \in Frame
    PROVE  /\ f.in \in {"new", "command", "unknown"} => f \in MessageFrame
           /\ f.in = "lost" => f \in LostFrame
           /\ f.in = "error" => f \in ErrorFrame
  BY DEF Frame, MessageFrame, LostFrame, ErrorFrame

LEMMA TypeReturn ==
    ASSUME ClientAssumption, TypeOK, dangling = {}, Return
    PROVE  TypeOK'
  <1>0. stack # <<>> => /\ Below \in Seq(Frame)
                         /\ Top \in Frame
    BY FramesFront DEF TypeOK, Below, Top
  <1>1. CASE NewReturns
    <2>1. Top \in MessageFrame /\ Below \in Seq(Frame) /\ Proceed(Below, Top, entities)
      BY <1>0, <1>1, FramesByKind DEF NewReturns
    <2>2. stack' \in Seq(Frame) /\ served' \subseteq Command \X Nat /\ dangling' \subseteq Kind
      BY <2>1, ProceedFacts, DispatchedType
    <2>. QED  BY <1>1, <2>2 DEF NewReturns, TypeOK, tableVars, timerVars
  <1>2. CASE CommandReturns
    <2>1. Top \in MessageFrame /\ Below \in Seq(Frame) /\ Dispatch(Below, Top, Top.i + 1)
      BY <1>0, <1>2, FramesByKind DEF CommandReturns
    <2>2. Top.i + 1 \in Nat \ {0}
      BY <2>1 DEF MessageFrame
    <2>3. stack' \in Seq(Frame) /\ served' \subseteq Command \X Nat /\ dangling' \subseteq Kind
      BY <2>1, <2>2, DispatchFacts, DispatchedType DEF Kind
    <2>. QED  BY <1>2, <2>3 DEF CommandReturns, TypeOK, tableVars, timerVars
  <1>3. CASE LostReturns
    <2>1. Top \in LostFrame /\ Below \in Seq(Frame)
      BY <1>0, <1>3, FramesByKind DEF LostReturns
    <2>2. stack' \in Seq(Frame) /\ present' \subseteq Entity
      <3>1. CASE TellLost(Below, Top.left, entities)
        <4>1. Top.left \in SUBSET Entity
          BY <2>1 DEF LostFrame
        <4>2. PICK f \in LostFrame : /\ stack' = Append(Below, f)
                                     /\ present' = present \ {f.from}
          BY <3>1, <4>1, TellLostFacts
        <4>3. Append(Below, f) \in Seq(Frame)
          BY <2>1, FramesAppend DEF Frame
        <4>. QED  BY <4>2, <4>3 DEF TypeOK
      <3>2. CASE stack' = Below /\ UNCHANGED present
        BY <2>1, <3>2 DEF TypeOK
      <3>. QED  BY <1>3, <3>1, <3>2 DEF LostReturns
    <2>. QED  BY <1>3, <2>2 DEF LostReturns, TypeOK, timerVars
  <1>4. CASE ErrorReturns
    <2>1. Below \in Seq(Frame)
      BY <1>0, <1>4 DEF ErrorReturns
    <2>. QED  BY <1>4, <2>1 DEF ErrorReturns, RemoveFailed, TypeOK, timerVars,
                                historyVars, Kind
  <1>. QED  BY <1>1, <1>2, <1>3, <1>4 DEF Return

LEMMA TypeStep == ClientAssumption /\ TypeOK /\ [Next]_vars => TypeOK'
  <1> SUFFICES ASSUME ClientAssumption, TypeOK, [Next]_vars  PROVE TypeOK'
    OBVIOUS
  <1>1. CASE UNCHANGED vars
    BY <1>1 DEF vars, TypeOK
  <1>2. ASSUME dangling = {}, Message  PROVE TypeOK'
    <2>1. PICK socket \in Socket, e \in Entity, reliable \in BOOLEAN, cmds \in Payload :
            \E numbers \in {{}} \union {{s} : s \in 0 .. MaxSend - 1} :
                WhenMessage(socket, e, reliable, numbers, cmds)
      BY <1>2 DEF Message
    <2>2. PICK numbers \in {{}} \union {{s} : s \in 0 .. MaxSend - 1} :
                WhenMessage(socket, e, reliable, numbers, cmds)
      BY <2>1
    <2>3. numbers \in SUBSET Nat
      BY DEF ClientAssumption
    <2>. QED  BY <1>2, <2>2, <2>3, TypeMessage
  <1>. QED  BY <1>1, <1>2, TypeApplication, TypeTimer, TypeReturn DEF Next

\* The tables, the stack and the history of MClient keep their types: no frame
\* of one kind is taken for one of another, a message counts 1 or 2 periods.
THEOREM TypeCorrect == Spec => []TypeOK
  <1>1. Init => TypeOK
    BY TypeInit, ClientAssumption
  <1>2. TypeOK /\ [Next]_vars => TypeOK'
    BY TypeStep, ClientAssumption
  <1>. QED  BY <1>1, <1>2, PTL DEF Spec

-----------------------------------------------------------------------------
(***************************************************************************)
(* The invariant of the suspended handlers.  It needs an application that   *)
(* does not run the main loop when it is told of a lost entity or of an     *)
(* error, and does not take longer over a new one than it takes to be lost. *)
(***************************************************************************)
Cautious == ~LongCallbacks /\ Nest \cap {"lost", "error"} = {}

\* The entities and numbers the application is being told of.
News      == {f.from : f \in {g \in Frames(stack) : g.in = "new"}}
Leaving   == {f.from : f \in {g \in Frames(stack) : g.in = "lost"}}
ErrorSeqs == {f.seq  : f \in {g \in Frames(stack) : g.in = "error"}}

\* Below the top there are callbacks that run the main loop.
Suspended == stack # <<>> => \A f \in Frames(Below) : f.in \in Nest

LEMMA MainLoopFrames ==
    ASSUME TypeOK, Suspended, MainLoop
    PROVE  \A f \in Frames(stack) : f.in \in Nest
  <1>1. CASE stack = <<>>
    BY <1>1, FramesEmpty
  <1>2. CASE stack # <<>> /\ Top.in \in Nest
    <2>1. Frames(stack) = Frames(Below) \union {Top}
      BY <1>2, FramesFront DEF TypeOK, Below, Top
    <2>. QED  BY <1>2, <2>1 DEF Suspended
  <1>. QED  BY <1>1, <1>2 DEF MainLoop

LEMMA Push ==
    ASSUME NEW below \in Seq(Frame), \A g \in Frames(below) : g.in \in Nest,
           NEW f \in Frame, stack' = Append(below, f)
    PROVE  Suspended' /\ Frames(stack)' = Frames(below) \union {f}
  <1>1. SubSeq(stack', 1, Len(stack') - 1) = below
    BY FramesAppend
  <1>2. Below' = below /\ Frames(stack') = Frames(below) \union {f}
    BY <1>1, FramesAppend DEF Below
  <1>. QED  BY <1>2 DEF Suspended, Frames

LEMMA Stay ==
    ASSUME NEW below \in Seq(Frame), \A g \in Frames(below) : g.in \in Nest,
           stack' = below
    PROVE  Suspended' /\ Frames(stack)' = Frames(below)
  <1>1. CASE below = <<>>
    BY <1>1 DEF Suspended, Frames
  <1>2. CASE below # <<>>
    <2>1. Frames(SubSeq(below, 1, Len(below) - 1)) \subseteq Frames(below)
      BY <1>2, FramesFront
    <2>2. \A g \in Frames(SubSeq(stack', 1, Len(stack') - 1)) : g.in \in Nest
      BY <2>1
    <2>. QED  BY <2>2 DEF Suspended, Below, Frames
  <1>. QED  BY <1>1, <1>2

\* A handler that goes on with the commands of a message.
LEMMA DispatchedFrames ==
    ASSUME NEW below \in Seq(Frame), \A g \in Frames(below) : g.in \in Nest,
           Dispatched(below)
    PROVE  /\ Suspended'
           /\ Frames(below) \subseteq Frames(stack)'
           /\ \A f \in Frames(stack)' : f \in Frames(below) \/ f.in \in {"command", "unknown"}
  <1>1. CASE stack' = below
    BY <1>1, Stay
  <1>2. ASSUME NEW g \in MessageFrame, g.in \in {"command", "unknown"},
               stack' = Append(below, g)
        PROVE  /\ Suspended'
               /\ Frames(below) \subseteq Frames(stack)'
               /\ \A f \in Frames(stack)' : f \in Frames(below) \/ f.in \in {"command", "unknown"}
    <2>1. g \in Frame
      BY DEF Frame
    <2>2. Suspended' /\ Frames(stack)' = Frames(below) \union {g}
      BY <1>2, <2>1, Push
    <2>. QED  BY <1>2, <2>2
  <1>. QED  BY <1>1, <1>2 DEF Dispatched

LEMMA BelowFrames ==
    ASSUME TypeOK, Suspended, stack # <<>>
    PROVE  /\ Below \in Seq(Frame)
           /\ Top \in Frame
           /\ Frames(stack) = Frames(Below) \union {Top}
           /\ \A g \in Frames(Below) : g.in \in Nest
  BY FramesFront DEF TypeOK, Suspended, Below, Top

LEMMA RecentIsNews ==
    ASSUME TypeOK, Cautious
    PROVE  Recent = News
  <1>1. stack \in Seq(Frame) /\ \A k \in DOMAIN stack : stack[k] \in Frame
    BY DEF TypeOK
  <1>2. \A k \in DOMAIN stack : stack[k].in = "new" => stack[k].from \in Entity
    BY <1>1, FramesByKind DEF MessageFrame
  <1>3. Recent = {e \in Entity : \E k \in DOMAIN stack :
                                     stack[k].in = "new" /\ stack[k].from = e}
    BY DEF Recent, Cautious
  <1>. QED  BY <1>2, <1>3 DEF News, Frames

\* What the actions do to the three sets.
Quiet == Leaving = {} /\ ErrorSeqs = {}

LEMMA QuietLoop ==
    ASSUME TypeOK, Suspended, Cautious, MainLoop
    PROVE  Quiet /\ ~LostRunning
  <1>1. \A f \in Frames(stack) : f.in \in Nest /\ f.in \notin {"lost", "error"}
    BY MainLoopFrames DEF Cautious
  <1>. QED  BY <1>1 DEF Quiet, Leaving, ErrorSeqs, LostRunning, Frames

-----------------------------------------------------------------------------
Known   == News \subseteq entities
Away    == News \cap Leaving = {}
Pending == ErrorSeqs \subseteq Outstanding
Numbers == Outstanding \union acked \union failed \subseteq 0 .. sent - 1
Settled == /\ acked \cap failed = {}
           /\ acked \cap Outstanding = {}
           /\ failed \cap Outstanding \subseteq ErrorSeqs
Timers  == t_c = acknowledgements /\ t_r = Outstanding \ ErrorSeqs
Told    == alive /\ {"new", "lost"} \subseteq subscribed \ Changing =>
              present = entities \ Leaving

Handling == /\ Suspended
            /\ Known
            /\ Away
            /\ Pending
            /\ Numbers
            /\ Settled
            /\ Timers
            /\ Told

LEMMA HandlingInit == ClientAssumption /\ Init => Handling
  <1> SUFFICES ASSUME ClientAssumption, Init  PROVE Handling
    OBVIOUS
  <1>1. Frames(stack) = {}
    BY FramesEmpty DEF Init
  <1>2. News = {} /\ Leaving = {} /\ ErrorSeqs = {}
    BY <1>1 DEF News, Leaving, ErrorSeqs
  <1>3. Outstanding = {}
    BY DEF Init, Outstanding
  <1>. QED  BY <1>2, <1>3 DEF Init, Handling, Suspended, Known, Away, Pending, Numbers,
                              Settled, Timers, Told

\* The stack stays as it is.
LEMMA SameStack ==
    ASSUME stack' = stack
    PROVE  /\ Suspended <=> Suspended'
           /\ News' = News /\ Leaving' = Leaving /\ ErrorSeqs' = ErrorSeqs
  BY DEF Suspended, Below, News, Leaving, ErrorSeqs, Frames

LEMMA HandlingApplication ==
    ASSUME ClientAssumption, Cautious, TypeOK, Handling, Application
    PROVE  Handling'
  <1> USE DEF Handling, Known, Away, Pending, Settled, Told
  <1>0. stack' = stack
    BY DEF Application, Register, Unregister, Subscribe, Unsubscribe, Send,
           SendReliable, Free
  <1>1. /\ Suspended'
        /\ News' = News /\ Leaving' = Leaving /\ ErrorSeqs' = ErrorSeqs
    BY <1>0, SameStack
  <1>2. ASSUME UNCHANGED <<tableVars, timerVars, historyVars>>,
               subscribed \ Changing = subscribed' \ Changing
        PROVE  Handling'
    BY <1>1, <1>2 DEF tableVars, timerVars, historyVars, Numbers, Timers, Outstanding
  <1>3. ASSUME NEW cmd \in Command, Register(cmd) \/ Unregister(cmd)
        PROVE  Handling'
    BY <1>2, <1>3 DEF Register, Unregister
  <1>4. ASSUME NEW event \in Event, Subscribe(event) \/ Unsubscribe(event)
        PROVE  Handling'
    <2>1. subscribed \ Changing = subscribed' \ Changing
      BY <1>4 DEF Subscribe, Unsubscribe
    <2>. QED  BY <1>2, <1>4, <2>1 DEF Subscribe, Unsubscribe
  <1>5. ASSUME NEW e \in Entity, Send(e)  PROVE Handling'
    BY <1>1, <1>5 DEF Send, TakeAcks, historyVars, Numbers, Timers, Outstanding
  <1>6. ASSUME NEW e \in Entity, SendReliable(e)  PROVE Handling'
    <2>1. Outstanding' = Outstanding \union {sent}
      <3> DEFINE new == [seq |-> sent, n |-> 1]
      <3>1. new.seq = sent
        OBVIOUS
      <3>2. reliable_messages' = reliable_messages \union {new}
        BY <1>6 DEF SendReliable
      <3> HIDE DEF new
      <3>. QED  BY <3>1, <3>2 DEF Outstanding
    <2>2. sent \in Nat /\ sent' = sent + 1 /\ sent \notin 0 .. sent - 1
      BY <1>6 DEF SendReliable, TypeOK
    <2>3. sent \notin Outstanding \union acked \union failed
      BY <2>2 DEF Numbers
    <2>4. /\ t_c' = t_c \ {e} /\ acknowledgements' = acknowledgements \ {e}
          /\ t_r' = t_r \union {sent}
          /\ UNCHANGED <<subscribed, alive, entities, present, acked, failed>>
      BY <1>6 DEF SendReliable, TakeAcks, historyVars
    <2>5. Numbers'
      <3>1. Outstanding \union acked \union failed \subseteq 0 .. sent - 1
        BY DEF Numbers
      <3>2. 0 .. sent' - 1 = (0 .. sent - 1) \union {sent}
        BY <2>2
      <3>3. (Outstanding \union acked \union failed)' \subseteq 0 .. sent' - 1
        BY <2>1, <2>4, <3>1, <3>2
      <3>. QED  BY <3>3 DEF Numbers
    <2>6. Timers'
      BY <1>1, <2>1, <2>3, <2>4 DEF Timers
    <2>. QED  BY <1>1, <2>1, <2>3, <2>4, <2>5, <2>6
  <1>7. CASE Free
    <2>1. News = {}
      BY <1>7, FramesEmpty DEF Free, News
    <2>2. ~alive' /\ UNCHANGED <<reliable_messages, acknowledgements, sent,
                                 timerVars, historyVars>>
      BY <1>7 DEF Free
    <2>. QED  BY <1>1, <2>1, <2>2 DEF timerVars, historyVars, Numbers, Timers, Outstanding
  <1>. QED  BY <1>3, <1>4, <1>5, <1>6, <1>7 DEF Application

LEMMA HandlingMessage ==
    ASSUME ClientAssumption, Cautious, TypeOK, Handling, dangling = {},
           NEW socket \in Socket, NEW e \in Entity, NEW reliable \in BOOLEAN,
           NEW cmds \in Payload, NEW numbers \in SUBSET Nat,
           WhenMessage(socket, e, reliable, numbers, cmds)
    PROVE  Handling' /\ (dangling' # {} => Unregistered)
  <1> DEFINE f == [in |-> "new", socket |-> socket, from |-> e, cmds |-> cmds,
                   i |-> 0]
  <1>1. f \in MessageFrame /\ f \in Frame /\ f.from = e /\ f.in = "new"
    BY DEF MessageFrame, ClientAssumption, Frame
  <1> HIDE DEF f
  <1>2. /\ Suspended /\ MainLoop
        /\ stack \in Seq(Frame)
        /\ UNCHANGED <<callbacks, subscribed, alive, sent, failed>>
    BY DEF Handling, WhenMessage, TypeOK
  <1>3. /\ \A g \in Frames(stack) : g.in \in Nest
        /\ Quiet /\ ~LostRunning
    BY <1>2, MainLoopFrames, QuietLoop
  <1>4. Outstanding' = Outstanding \ numbers
    BY DEF WhenMessage, Settle, Outstanding
  <1>5. /\ acked' = acked \union (numbers \cap Outstanding)
        /\ t_r' = t_r \ (numbers \cap Outstanding)
    BY DEF WhenMessage, Settle
  <1>6. t_c' = acknowledgements'
    BY DEF WhenMessage, QueueAck, Handling, Timers
  \* The stack, the entities and what dangles.
  <1>7. /\ Suspended' /\ Quiet'
        /\ News' \subseteq entities'
        /\ Told'
        /\ dangling' # {} => Unregistered
    <2>1. News \subseteq entities
      BY DEF Handling, Known
    <2>2. ASSUME Dispatched(stack)
          PROVE  Suspended' /\ Quiet' /\ News' = News
      <3>1. /\ Suspended'
            /\ Frames(stack) \subseteq Frames(stack)'
            /\ \A g \in Frames(stack)' : g \in Frames(stack) \/ g.in \in {"command", "unknown"}
        BY <1>2, <1>3, <2>2, DispatchedFrames
      <3>. QED  BY <1>3, <3>1 DEF Quiet, News, Leaving, ErrorSeqs
    <2>3. CASE e \in entities /\ UNCHANGED <<entities, present>>
               /\ Proceed(stack, f, entities)
      <3>1. Dispatched(stack) /\ (dangling' # {} => Unregistered)
        BY <1>1, <2>3, ProceedFacts
      <3>2. Suspended' /\ Quiet' /\ News' = News
        BY <2>2, <3>1
      <3>3. Told'
        BY <1>2, <1>3, <2>3, <3>2 DEF Handling, Told, Quiet
      <3>. QED  BY <2>1, <2>3, <3>1, <3>2, <3>3
    <2>4. CASE e \notin entities /\ AddEntity(e, f)
      <3>1. entities' = entities \union {e}
        BY <2>4 DEF AddEntity
      <3>2. CASE /\ "new" \in subscribed
                 /\ present' = present \union {e}
                 /\ stack' = Append(stack, f)
                 /\ UNCHANGED <<dangling, served>>
        <4>1. Suspended' /\ Frames(stack)' = Frames(stack) \union {f}
          BY <1>1, <1>2, <1>3, <3>2, Push
        <4>2. Quiet' /\ News' = News \union {e}
          BY <1>1, <1>3, <4>1 DEF Quiet, News, Leaving, ErrorSeqs
        <4>3. Told'
          BY <1>2, <1>3, <3>1, <3>2, <4>2 DEF Handling, Told, Quiet
        <4>. QED  BY <2>1, <3>1, <3>2, <4>1, <4>2, <4>3
      <3>3. CASE /\ "new" \notin subscribed
                 /\ UNCHANGED present
                 /\ Proceed(stack, f, entities')
        <4>1. Dispatched(stack) /\ (dangling' # {} => Unregistered)
          BY <1>1, <3>1, <3>3, ProceedFacts
        <4>2. Suspended' /\ Quiet' /\ News' = News
          BY <2>2, <4>1
        <4>3. Told'
          BY <1>2, <3>3 DEF Told
        <4>. QED  BY <2>1, <3>1, <4>1, <4>2, <4>3
      <3>. QED  BY <1>3, <2>4, <3>2, <3>3 DEF AddEntity
    <2>. QED  BY <2>3, <2>4 DEF WhenMessage, f
  <1>8. Pending' /\ Away' /\ Known'
    BY <1>7 DEF Pending, Away, Known, Quiet
  <1>9. Numbers' /\ Settled' /\ Timers'
    BY <1>2, <1>3, <1>4, <1>5, <1>6, <1>7
    DEF Handling, Numbers, Settled, Timers, Quiet
  <1>. QED  BY <1>7, <1>8, <1>9 DEF Handling

LEMMA HandlingTimer ==
    ASSUME ClientAssumption, Cautious, TypeOK, Handling, dangling = {}, Timer
    PROVE  Handling' /\ (dangling' # {} => ~alive')
  <1>0. /\ Suspended
        /\ stack \in Seq(Frame)
        /\ News \subseteq entities
        /\ Recent = News
    BY RecentIsNews DEF Handling, TypeOK, Known
  <1>1. MainLoop
    BY DEF Timer, CheckLostEntities, Retransmit, SendAcks
  <1>2. /\ \A g \in Frames(stack) : g.in \in Nest
        /\ Quiet
    BY <1>0, <1>1, MainLoopFrames, QuietLoop
  <1>3. t_c = acknowledgements /\ t_r = Outstanding
    BY <1>2 DEF Handling, Timers, Quiet
  <1>4. CASE CheckLostEntities
    <2>1. UNCHANGED <<subscribed, alive, reliable_messages, acknowledgements, sent,
                      t_r, t_c, dangling, acked, failed>>
      BY <1>4 DEF CheckLostEntities, timerVars
    <2>2. Outstanding' = Outstanding
      BY <2>1 DEF Outstanding
    <2>3. CASE "lost" \in subscribed /\ TellLost(stack, entities, entities) /\ UNCHANGED entities
      <3>1. PICK f \in LostFrame : /\ f.in = "lost"
                                   /\ f.from \notin Recent
                                   /\ stack' = Append(stack, f)
                                   /\ present' = present \ {f.from}
        BY <2>3, TellLostFacts DEF TypeOK
      <3>2. Suspended' /\ Frames(stack)' = Frames(stack) \union {f}
        BY <1>0, <1>2, <3>1, Push DEF Frame
      <3>3. News' = News /\ Leaving' = {f.from} /\ ErrorSeqs' = {}
        BY <1>2, <3>1, <3>2 DEF News, Leaving, ErrorSeqs, Quiet
      <3>4. Told'
        BY <1>2, <2>1, <2>3, <3>1, <3>3 DEF Handling, Told, Quiet
      <3>. QED  BY <1>0, <1>2, <1>3, <2>1, <2>2, <2>3, <3>1, <3>2, <3>3, <3>4
                DEF Handling, Known, Away, Pending, Numbers, Settled, Timers, Quiet
    <2>4. CASE /\ "lost" \notin subscribed
               /\ \E dead \in SUBSET (entities \ Recent) : entities' = entities \ dead
               /\ UNCHANGED <<stack, present>>
      <3>1. Suspended' /\ News' = News /\ Leaving' = Leaving /\ ErrorSeqs' = ErrorSeqs
        BY <1>0, <2>4, SameStack
      <3>2. News \subseteq entities'
        BY <1>0, <2>4
      <3>3. Told'
        BY <2>1, <2>4 DEF Told
      <3>. QED  BY <1>2, <1>3, <2>1, <2>2, <3>1, <3>2, <3>3
                DEF Handling, Known, Away, Pending, Numbers, Settled, Timers, Quiet
    <2>5. dangling' = {}
      BY <2>1
    <2>. QED  BY <1>4, <2>3, <2>4, <2>5 DEF CheckLostEntities
  <1>5. ASSUME NEW s \in 0 .. MaxSend - 1, Retransmit(s)
        PROVE  Handling' /\ (dangling' # {} => ~alive')
    <2> DEFINE entry == {r \in reliable_messages : r.seq = s}
               f == [in |-> "error", seq |-> s]
    <2>1. /\ s \in t_r /\ s \in Outstanding
          /\ UNCHANGED <<subscribed, alive, entities, acknowledgements, sent, t_c,
                         present, acked>>
      BY <1>3, <1>5 DEF Retransmit
    <2>2. entry # {}
      BY <2>1 DEF Outstanding
    <2>3. dangling' # {} => ~alive'
      BY <1>5, <2>1, <2>2 DEF Retransmit
    <2>4. CASE /\ reliable_messages' = (reliable_messages \ entry)
                      \union {[seq |-> s, n |-> r.n + 1] : r \in entry}
               /\ UNCHANGED <<t_r, stack, failed>>
      <3>1. Outstanding' = Outstanding
        <4> DEFINE again == {[seq |-> s, n |-> r.n + 1] : r \in entry}
        <4>1. \A r \in again : r.seq = s
          OBVIOUS
        <4>5. PICK one \in entry : TRUE
          BY <2>2
        <4>6. [seq |-> s, n |-> one.n + 1] \in again
          BY <4>5
        <4>2. \A r \in reliable_messages : r \in entry <=> r.seq = s
          OBVIOUS
        <4>3. reliable_messages' = (reliable_messages \ entry) \union again
          BY <2>4
        <4> HIDE DEF again, entry
        <4>4. {r.seq : r \in reliable_messages'} = {r.seq : r \in reliable_messages}
          BY <2>1, <4>1, <4>2, <4>3, <4>6 DEF Outstanding
        <4>. QED  BY <4>4 DEF Outstanding
      <3>2. Suspended' /\ News' = News /\ Leaving' = Leaving /\ ErrorSeqs' = ErrorSeqs
        BY <1>0, <2>4, SameStack
      <3>. QED  BY <2>1, <2>3, <2>4, <3>1, <3>2
                DEF Handling, Known, Away, Pending, Numbers, Settled, Timers, Told
    <2>5. CASE /\ t_r' = t_r \ {s}
               /\ stack' = Append(stack, f)
               /\ failed' = failed \union {s}
               /\ UNCHANGED reliable_messages
      <3>1. f \in Frame /\ f.in = "error" /\ f.seq = s
        BY DEF Frame, ErrorFrame, ClientAssumption
      <3> HIDE DEF f
      <3>2. Suspended' /\ Frames(stack)' = Frames(stack) \union {f}
        BY <1>0, <1>2, <2>5, <3>1, Push
      <3>3. News' = News /\ Leaving' = {} /\ ErrorSeqs' = {s}
        BY <1>2, <3>1, <3>2 DEF News, Leaving, ErrorSeqs, Quiet
      <3>4. Outstanding' = Outstanding
        BY <2>5 DEF Outstanding
      <3>5. Told'
        BY <1>2, <2>1, <3>3 DEF Handling, Told, Quiet
      <3>6. Known' /\ Away' /\ Pending'
        BY <1>0, <2>1, <3>3, <3>4 DEF Known, Away, Pending
      <3>7. Numbers' /\ Settled' /\ Timers'
        BY <1>2, <1>3, <2>1, <2>5, <3>3, <3>4 DEF Handling, Numbers, Settled, Timers, Quiet
      <3>. QED  BY <2>3, <3>2, <3>5, <3>6, <3>7 DEF Handling
    <2>6. CASE /\ t_r' = t_r \ {s}
               /\ reliable_messages' = reliable_messages \ entry
               /\ UNCHANGED <<stack, failed>>
      <3>1. Outstanding' = Outstanding \ {s}
        BY <2>6 DEF Outstanding
      <3>2. Suspended' /\ News' = News /\ Leaving' = Leaving /\ ErrorSeqs' = ErrorSeqs
        BY <1>0, <2>6, SameStack
      <3>3. Pending' /\ Timers'
        BY <1>2, <1>3, <2>1, <2>6, <3>1, <3>2 DEF Pending, Timers, Quiet
      <3>. QED  BY <2>1, <2>3, <2>6, <3>1, <3>2, <3>3
                DEF Handling, Known, Away, Numbers, Settled, Told
    <2>. QED  BY <1>5, <2>4, <2>5, <2>6, Zenon DEF Retransmit
  <1>6. ASSUME NEW e \in Entity, SendAcks(e)
        PROVE  Handling' /\ (dangling' # {} => ~alive')
    <2>1. /\ e \in acknowledgements
          /\ acknowledgements' = acknowledgements \ {e}
          /\ t_c' = t_c \ {e}
          /\ UNCHANGED <<subscribed, alive, entities, reliable_messages, sent, t_r,
                         stack, present, acked, failed>>
      BY <1>3, <1>6 DEF SendAcks, historyVars
    <2>2. dangling' # {} => ~alive'
      BY <1>6, <2>1 DEF SendAcks
    <2>3. Outstanding' = Outstanding
      BY <2>1 DEF Outstanding
    <2>4. Suspended' /\ News' = News /\ Leaving' = Leaving /\ ErrorSeqs' = ErrorSeqs
      BY <1>0, <2>1, SameStack
    <2>. QED  BY <2>1, <2>2, <2>3, <2>4
              DEF Handling, Known, Away, Pending, Numbers, Settled, Timers, Told
  <1>. QED  BY <1>4, <1>5, <1>6 DEF Timer

LEMMA HandlingReturn ==
    ASSUME ClientAssumption, Cautious, TypeOK, Handling, dangling = {}, Return
    PROVE  Handling' /\ (dangling' # {} => Unregistered)
  <1>0. stack # <<>>
    BY DEF Return, NewReturns, CommandReturns, LostReturns, ErrorReturns
  <1>1. /\ Below \in Seq(Frame)
        /\ Top \in Frame
        /\ Frames(stack) = Frames(Below) \union {Top}
        /\ \A g \in Frames(Below) : g.in \in Nest /\ g.in \notin {"lost", "error"}
    BY <1>0, BelowFrames DEF Handling, Cautious
  <1>2. ASSUME Top.in \in {"new", "command", "unknown"}, Dispatched(Below),
               UNCHANGED <<callbacks, subscribed, tableVars, timerVars, present, acked,
                           failed>>
        PROVE  Handling'
    <2>1. /\ Suspended'
          /\ \A g \in Frames(stack)' : g \in Frames(Below) \/ g.in \in {"command", "unknown"}
      BY <1>1, <1>2, DispatchedFrames
    <2>2. Quiet /\ Quiet' /\ News' \subseteq News
      BY <1>1, <1>2, <2>1 DEF Quiet, News, Leaving, ErrorSeqs
    <2>3. Outstanding' = Outstanding
      BY <1>2 DEF tableVars, Outstanding
    <2>. QED  BY <1>2, <2>1, <2>2, <2>3
              DEF Handling, Known, Away, Pending, Numbers, Settled, Timers, Told, Quiet,
                  tableVars, timerVars
  <1>3. CASE NewReturns
    <2>1. Top \in MessageFrame /\ Top.from \in entities
      BY <1>1, <1>3, FramesByKind DEF NewReturns, Handling, Known, News
    <2>2. Dispatched(Below) /\ (dangling' # {} => Unregistered)
      BY <1>3, <2>1, ProceedFacts DEF NewReturns
    <2>. QED  BY <1>2, <1>3, <2>2 DEF NewReturns
  <1>4. CASE CommandReturns
    <2>1. Top \in MessageFrame /\ Top.i + 1 \in Nat \ {0}
      BY <1>1, <1>4, FramesByKind DEF CommandReturns, MessageFrame
    <2>2. Dispatched(Below) /\ (dangling' # {} => Unregistered)
      BY <1>4, <2>1, DispatchFacts DEF CommandReturns
    <2>. QED  BY <1>2, <1>4, <2>2 DEF CommandReturns
  <1>5. CASE LostReturns
    <2>1. /\ Top \in LostFrame /\ Top.in = "lost"
          /\ entities' = entities \ {Top.from}
          /\ UNCHANGED <<callbacks, subscribed, alive, reliable_messages, acknowledgements,
                   sent, t_r, t_c, dangling, acked, failed>>
      BY <1>1, <1>5, FramesByKind DEF LostReturns, timerVars
    <2>2. Leaving = {Top.from} /\ ErrorSeqs = {}
      BY <1>1, <2>1 DEF Leaving, ErrorSeqs
    <2>3. News \subseteq entities' /\ Recent = News
      BY <2>1, <2>2, RecentIsNews DEF Handling, Known, Away
    <2>4. CASE stack' = Below /\ UNCHANGED present
      <3>1. Suspended' /\ Frames(stack)' = Frames(Below)
        BY <1>1, <2>4, Stay
      <3>2. News' \subseteq News /\ Quiet'
        BY <1>1, <3>1 DEF Quiet, News, Leaving, ErrorSeqs
      <3>3. Told'
        BY <2>1, <2>2, <2>4, <3>2 DEF Handling, Told, Quiet
      <3>4. Outstanding' = Outstanding
        BY <2>1 DEF Outstanding
      <3>. QED  BY <2>1, <2>2, <2>3, <3>1, <3>2, <3>3, <3>4
                DEF Handling, Known, Away, Pending, Numbers, Settled, Timers, Quiet
    <2>5. CASE TellLost(Below, Top.left, entities)
      <3>1. PICK f \in LostFrame : /\ f.in = "lost"
                                   /\ f.from \notin Recent
                                   /\ stack' = Append(Below, f)
                                   /\ present' = present \ {f.from}
        BY <2>1, <2>5, TellLostFacts DEF LostFrame
      <3>2. Suspended' /\ Frames(stack)' = Frames(Below) \union {f}
        BY <1>1, <3>1, Push DEF Frame
      <3>3. News' \subseteq News /\ Leaving' = {f.from} /\ ErrorSeqs' = {}
        BY <1>1, <3>1, <3>2 DEF News, Leaving, ErrorSeqs
      <3>4. Told'
        BY <2>1, <2>2, <3>1, <3>3 DEF Handling, Told
      <3>5. Outstanding' = Outstanding
        BY <2>1 DEF Outstanding
      <3>. QED  BY <2>1, <2>2, <2>3, <3>1, <3>2, <3>3, <3>4, <3>5
                DEF Handling, Known, Away, Pending, Numbers, Settled, Timers
    <2>. QED  BY <1>5, <2>1, <2>4, <2>5 DEF LostReturns
  <1>6. CASE ErrorReturns
    <2>1. /\ Top.in = "error"
          /\ stack' = Below
          /\ UNCHANGED <<callbacks, subscribed, alive, entities, acknowledgements, sent,
                         t_r, t_c, present, acked, failed>>
      BY <1>6 DEF ErrorReturns, timerVars, historyVars
    <2>2. Leaving = {} /\ ErrorSeqs = {Top.seq}
      BY <1>1, <2>1 DEF Leaving, ErrorSeqs
    <2>3. Top.seq \in Outstanding
      BY <2>2 DEF Handling, Pending
    <2>4. Outstanding' = Outstanding \ {Top.seq}
      BY <1>6 DEF ErrorReturns, RemoveFailed, Outstanding
    <2>5. Suspended' /\ Frames(stack)' = Frames(Below)
      BY <1>1, <2>1, Stay
    <2>6. News' \subseteq News /\ Quiet'
      BY <1>1, <2>5 DEF Quiet, News, Leaving, ErrorSeqs
    <2>7. dangling' = {}
      BY <1>6, <2>3 DEF ErrorReturns
    <2>. QED  BY <2>1, <2>2, <2>4, <2>5, <2>6, <2>7
              DEF Handling, Known, Away, Pending, Numbers, Settled, Timers, Told, Quiet
  <1>. QED  BY <1>3, <1>4, <1>5, <1>6 DEF Return

LEMMA HandlingStep ==
    ASSUME ClientAssumption, Cautious, TypeOK, Handling, [Next]_vars
    PROVE  Handling' /\ (NoDanglingUse => NoDanglingUse')
  <1>1. CASE UNCHANGED vars
    <2>1. Suspended' /\ News' = News /\ Leaving' = Leaving /\ ErrorSeqs' = ErrorSeqs
      BY <1>1, SameStack DEF vars, Handling
    <2>2. Outstanding' = Outstanding
      BY <1>1 DEF vars, Outstanding
    <2>. QED  BY <1>1, <2>1, <2>2
              DEF vars, Handling, Known, Away, Pending, Numbers, Settled, Timers, Told,
                  NoDanglingUse, Unregistered
  <1>2. CASE dangling = {} /\ Application
    <2>1. dangling' # {} => Unregistered'
      <3>1. ASSUME NEW cmd \in Command, Unregister(cmd), dangling' # {}
            PROVE  Unregistered'
        <4>1. PICK k \in DOMAIN callbacks : ~callbacks[k].live
          BY <3>1 DEF Unregister, ReadsFreed
        <4>2. k \in DOMAIN callbacks' /\ ~callbacks'[k].live
          <5>1. callbacks[k] \in [cmd : Command, id : Nat, live : BOOLEAN]
            <6> DEFINE R == [cmd : Command, id : Nat, live : BOOLEAN]
            <6>1. callbacks \in Seq(R)
              BY DEF TypeOK
            <6> HIDE DEF R
            <6>2. callbacks[k] \in R
              BY <6>1
            <6>. QED  BY <6>2 DEF R
          <5>. QED  BY <3>1, <4>1, <5>1 DEF Unregister
        <4>. QED  BY <4>2 DEF Unregistered
      <3>. QED  BY <1>2, <3>1 DEF Application, Register, Subscribe, Unsubscribe, Send,
                                  SendReliable, Free, historyVars
    <2>. QED  BY <1>2, <2>1, HandlingApplication DEF NoDanglingUse
  <1>3. CASE dangling = {} /\ Message
    <2>1. PICK socket \in Socket, e \in Entity, reliable \in BOOLEAN, cmds \in Payload :
            \E numbers \in {{}} \union {{s} : s \in 0 .. MaxSend - 1} :
                WhenMessage(socket, e, reliable, numbers, cmds)
      BY <1>3 DEF Message
    <2>2. PICK numbers \in {{}} \union {{s} : s \in 0 .. MaxSend - 1} :
                WhenMessage(socket, e, reliable, numbers, cmds)
      BY <2>1
    <2>3. numbers \in SUBSET Nat
      BY DEF ClientAssumption
    <2>4. Handling' /\ (dangling' # {} => Unregistered)
      BY <1>3, <2>2, <2>3, HandlingMessage
    <2>5. callbacks' = callbacks
      BY <2>2 DEF WhenMessage
    <2>. QED  BY <2>4, <2>5 DEF NoDanglingUse, Unregistered
  <1>4. CASE dangling = {} /\ Timer
    BY <1>4, HandlingTimer DEF NoDanglingUse
  <1>5. CASE dangling = {} /\ Return
    <2>1. callbacks' = callbacks
      BY <1>5 DEF Return, NewReturns, CommandReturns, LostReturns, ErrorReturns
    <2>. QED  BY <1>5, <2>1, HandlingReturn DEF NoDanglingUse, Unregistered
  <1>. QED  BY <1>1, <1>2, <1>3, <1>4, <1>5 DEF Next

-----------------------------------------------------------------------------
\* As long as it keeps its client and its registrations, an application that is
\* Cautious is never handed, and no handler of mclient.c and mtrans.c reads, an
\* object that was freed, however it nests its main loops.
THEOREM NothingDangles == ASSUME Cautious PROVE Spec => []NoDanglingUse
  <1> DEFINE I == TypeOK /\ Handling /\ NoDanglingUse
  <1>1. Init => I
    BY TypeInit, HandlingInit, ClientAssumption DEF Init, NoDanglingUse
  <1>2. I /\ [Next]_vars => I'
    BY TypeStep, HandlingStep, ClientAssumption
  <1>. QED  BY <1>1, <1>2, PTL DEF Spec

LEMMA HandlingHolds == ASSUME Cautious PROVE Spec => [](TypeOK /\ Handling)
  <1>1. Init => TypeOK /\ Handling
    BY TypeInit, HandlingInit, ClientAssumption
  <1>2. TypeOK /\ Handling /\ [Next]_vars => (TypeOK /\ Handling)'
    BY TypeStep, HandlingStep, ClientAssumption
  <1>. QED  BY <1>1, <1>2, PTL DEF Spec

LEMMA FramesInProperties ==
    /\ {stack[k].seq : k \in {j \in DOMAIN stack : stack[j].in = "error"}} = ErrorSeqs
    /\ {stack[k].from : k \in {j \in DOMAIN stack : stack[j].in = "lost"}} = Leaving
  BY DEF Frames, ErrorSeqs, Leaving

\* Every entry of the two tables of mtrans.c with timers has its timer, and
\* every timer its entry, for an application that is Cautious.
THEOREM TimersAndTables == ASSUME Cautious PROVE Spec => []TimersMatchTables
  <1>1. TypeOK /\ Handling => TimersMatchTables
    BY FramesInProperties DEF Handling, Timers, TimersMatchTables
  <1>. QED  BY <1>1, HandlingHolds, PTL

\* What a Cautious application is told of new and lost entities is the table.
THEOREM TellsTheTruth == ASSUME Cautious PROVE Spec => []ToldTheTruth
  <1>1. TypeOK /\ Handling => ToldTheTruth
    BY FramesInProperties DEF Handling, Told, ToldTheTruth
  <1>. QED  BY <1>1, HandlingHolds, PTL

\* Acknowledged or failed, never both, also when handlers run inside others.
THEOREM SettlesOnce == ASSUME Cautious PROVE Spec => []SettledOnce
  <1>1. TypeOK /\ Handling => SettledOnce
    BY DEF Handling, Settled, SettledOnce
  <1>. QED  BY <1>1, HandlingHolds, PTL

-----------------------------------------------------------------------------
(***************************************************************************)
(* The dispatch of commands.  Here the application may do what it likes.    *)
(***************************************************************************)

\* What a step does to the stack and to the commands served.
Shape ==
    \E below \in Seq(Frame) :
        /\ Frames(below) \subseteq Frames(stack)
        /\ \/ Dispatched(below)
           \/ \E f \in Frame : /\ f.in # "command"
                               /\ stack' = Append(below, f)
                               /\ served' = served

LEMMA StepShape ==
    ASSUME ClientAssumption, TypeOK, Next
    PROVE  Shape
  <1>0. /\ stack \in Seq(Frame) /\ dangling = {}
        /\ stack # <<>> => /\ Below \in Seq(Frame) /\ Frames(Below) \subseteq Frames(stack)
                           /\ Top \in Frame
    BY FramesFront DEF TypeOK, Next, Below, Top
  <1>1. ASSUME UNCHANGED <<stack, served>>  PROVE Shape
    BY <1>0, <1>1 DEF Shape, Dispatched
  <1>2. CASE Application
    BY <1>1, <1>2 DEF Application, Register, Unregister, Subscribe, Unsubscribe, Send,
                      SendReliable, Free, historyVars
  <1>3. CASE Message
    <2>1. PICK socket \in Socket, e \in Entity, reliable \in BOOLEAN, cmds \in Payload :
            \E numbers \in {{}} \union {{s} : s \in 0 .. MaxSend - 1} :
                WhenMessage(socket, e, reliable, numbers, cmds)
      BY <1>3 DEF Message
    <2> DEFINE f == [in |-> "new", socket |-> socket, from |-> e, cmds |-> cmds,
                     i |-> 0]
    <2>2. f \in MessageFrame /\ f \in Frame /\ f.in = "new"
      BY DEF MessageFrame, ClientAssumption, Frame
    <2>3. \/ Proceed(stack, f, entities)
          \/ AddEntity(e, f)
      BY <2>1 DEF WhenMessage
    <2> HIDE DEF f
    <2>4. ASSUME NEW known, Proceed(stack, f, known)  PROVE Shape
      BY <1>0, <2>2, <2>4, ProceedFacts DEF Shape
    <2>5. CASE AddEntity(e, f)
      <3>1. CASE stack' = Append(stack, f) /\ UNCHANGED served
        BY <1>0, <2>2, <3>1 DEF Shape
      <3>. QED  BY <1>1, <2>4, <2>5, <3>1 DEF AddEntity
    <2>. QED  BY <2>3, <2>4, <2>5
  <1>4. CASE Timer
    <2>1. CASE CheckLostEntities
      <3>1. CASE TellLost(stack, entities, entities)
        <4>1. PICK f \in LostFrame : f.in = "lost" /\ stack' = Append(stack, f)
          BY <3>1, TellLostFacts DEF TypeOK
        <4>. QED  BY <1>0, <2>1, <4>1 DEF Shape, Frame, CheckLostEntities
      <3>. QED  BY <1>1, <2>1, <3>1 DEF CheckLostEntities
    <2>2. ASSUME NEW s \in 0 .. MaxSend - 1, Retransmit(s)  PROVE Shape
      <3>1. CASE stack' = Append(stack, [in |-> "error", seq |-> s])
        <4>1. [in |-> "error", seq |-> s] \in Frame
          BY DEF Frame, ErrorFrame, ClientAssumption
        <4>. QED  BY <1>0, <2>2, <3>1, <4>1 DEF Shape, Retransmit
      <3>2. served' = served /\ (stack' = stack \/ stack' = Append(stack, [in |-> "error", seq |-> s]))
        BY <2>2 DEF Retransmit
      <3>. QED  BY <1>1, <3>1, <3>2
    <2>3. ASSUME NEW e \in Entity, SendAcks(e)  PROVE Shape
      BY <1>1, <2>3 DEF SendAcks, historyVars
    <2>. QED  BY <1>4, <2>1, <2>2, <2>3 DEF Timer
  <1>5. CASE Return
    <2>1. CASE NewReturns
      <3>1. Top \in MessageFrame /\ Proceed(Below, Top, entities)
        BY <1>0, <2>1, FramesByKind DEF NewReturns
      <3>2. Dispatched(Below)
        BY <1>0, <3>1, ProceedFacts
      <3>. QED  BY <1>0, <2>1, <3>2 DEF NewReturns, Shape
    <2>2. CASE CommandReturns
      <3>1. Top \in MessageFrame /\ Dispatch(Below, Top, Top.i + 1) /\ Top.i + 1 \in Nat \ {0}
        BY <1>0, <2>2, FramesByKind DEF CommandReturns, MessageFrame
      <3>2. Dispatched(Below)
        BY <3>1, DispatchFacts
      <3>. QED  BY <1>0, <2>2, <3>2 DEF CommandReturns, Shape
    <2>3. ASSUME stack # <<>>, stack' = Below, served' = served  PROVE Shape
      BY <1>0, <2>3 DEF Shape, Dispatched
    <2>4. CASE LostReturns
      <3>1. CASE TellLost(Below, Top.left, entities)
        <4>1. Top \in LostFrame /\ Top.left \in SUBSET Entity
          BY <1>0, <2>4, FramesByKind DEF LostReturns, LostFrame
        <4>2. PICK f \in LostFrame : f.in = "lost" /\ stack' = Append(Below, f)
          BY <3>1, <4>1, TellLostFacts
        <4>. QED  BY <1>0, <2>4, <4>2 DEF Shape, Frame, LostReturns
      <3>. QED  BY <2>3, <2>4, <3>1 DEF LostReturns
    <2>5. CASE ErrorReturns
      BY <2>3, <2>5 DEF ErrorReturns, historyVars
    <2>. QED  BY <1>5, <2>1, <2>2, <2>4, <2>5 DEF Return
  <1>. QED  BY <1>2, <1>3, <1>4, <1>5 DEF Next

\* What was served was served by the first registration.
Firsts == dangling = {} => \A s \in served : FirstIs(s[1], s[2])

LEMMA FirstIsKept ==
    ASSUME TypeOK, Next, NEW cmd, NEW id, FirstIs(cmd, id)
    PROVE  FirstIs(cmd, id)'
  <1> DEFINE R == [cmd : Command, id : Nat, live : BOOLEAN]
  <1>1. callbacks \in Seq(R)
    BY DEF TypeOK
  <1>2. \A r \in R : \A b : /\ [r EXCEPT !.live = b].cmd = r.cmd
                           /\ [r EXCEPT !.live = b].id = r.id
    OBVIOUS
  <1>. HIDE DEF R
  <1>3. /\ DOMAIN callbacks = 1 .. Len(callbacks) /\ Len(callbacks) \in Nat
        /\ \A k \in DOMAIN callbacks : callbacks[k] \in R
    BY <1>1
  <1>4. CASE callbacks' = callbacks
    BY <1>4 DEF FirstIs
  <1>5. ASSUME NEW c \in Command, Register(c)  PROVE FirstIs(cmd, id)'
    <2>1. PICK r : callbacks' = Append(callbacks, r)
      BY <1>5 DEF Register, AddCallback
    <2>2. callbacks \in Seq(R \union {r}) /\ r \in R \union {r}
      BY <1>1, SeqMonotonic
    <2>3. /\ Len(callbacks') = Len(callbacks) + 1
          /\ callbacks' \in Seq(R \union {r})
          /\ \A k \in 1 .. Len(callbacks) : callbacks'[k] = callbacks[k]
      BY <2>1, <2>2, AppendProperties
    <2>4. DOMAIN callbacks' = 1 .. Len(callbacks) + 1
      BY <2>3
    <2>. QED  BY <1>3, <2>3, <2>4 DEF FirstIs
  <1>6. ASSUME NEW c \in Command, Unregister(c)  PROVE FirstIs(cmd, id)'
    <2>1. /\ DOMAIN callbacks' = DOMAIN callbacks
          /\ \A k \in DOMAIN callbacks : /\ callbacks'[k].cmd = callbacks[k].cmd
                                         /\ callbacks'[k].id = callbacks[k].id
      BY <1>2, <1>3, <1>6 DEF Unregister
    <2>. QED  BY <2>1 DEF FirstIs
  <1>7. \/ callbacks' = callbacks
        \/ \E c \in Command : Register(c) \/ Unregister(c)
    BY DEF Next, Application, Subscribe, Unsubscribe, Send, SendReliable, Free, Message,
           WhenMessage, Timer, CheckLostEntities, Retransmit, SendAcks, Return,
           NewReturns, CommandReturns, LostReturns, ErrorReturns
  <1>. QED  BY <1>4, <1>5, <1>6, <1>7

LEMMA DispatchStep ==
    ASSUME ClientAssumption, TypeOK, Firsts, [Next]_vars
    PROVE  Firsts'
  <1>1. CASE UNCHANGED vars
    <2>1. served' = served /\ callbacks' = callbacks /\ dangling' = dangling
      BY <1>1 DEF vars
    <2>. QED  BY <2>1 DEF Firsts, FirstIs
  <1>2. CASE Next
    <2>1. PICK below \in Seq(Frame) :
            \/ Dispatched(below)
            \/ \E f \in Frame : /\ f.in # "command"
                                /\ stack' = Append(below, f)
                                /\ served' = served
      BY <1>2, StepShape DEF Shape
    <2>2. \A s \in served : FirstIs(s[1], s[2]) => FirstIs(s[1], s[2])'
      BY <1>2, FirstIsKept
    <2>3. dangling = {}
      BY <1>2 DEF Next
    <2>4. CASE served' = served
      BY <2>2, <2>3, <2>4 DEF Firsts
    <2>5. ASSUME NEW cmd \in Command, NEW id \in Nat,
                 served' = served \union {<<cmd, id>>},
                 dangling' = {} => FirstIs(cmd, id)
          PROVE  Firsts'
      <3>1. dangling' = {} => FirstIs(cmd, id)'
        BY <1>2, <2>5, FirstIsKept
      <3>. QED  BY <2>2, <2>3, <2>5, <3>1 DEF Firsts
    <2>. QED  BY <2>1, <2>4, <2>5 DEF Dispatched
  <1>. QED  BY <1>1, <1>2

LEMMA DispatchHolds == Spec => [](TypeOK /\ Firsts)
  <1>1. Init => TypeOK /\ Firsts
    BY TypeInit, ClientAssumption DEF Init, Firsts
  <1>2. TypeOK /\ Firsts /\ [Next]_vars => (TypeOK /\ Firsts)'
    BY TypeStep, DispatchStep, ClientAssumption
  <1>. QED  BY <1>1, <1>2, PTL DEF Spec

\* A command is always served by the first registration for it.
THEOREM FirstRegistrationWins == Spec => []FirstRegistrationServes
  <1>1. TypeOK /\ Firsts => FirstRegistrationServes
    <2> SUFFICES ASSUME TypeOK, Firsts, dangling = {}, NEW s \in served, NEW t \in served,
                        s[1] = t[1]
                 PROVE  s[2] = t[2]
      BY DEF FirstRegistrationServes
    <2>1. PICK k \in DOMAIN callbacks :
            /\ callbacks[k].cmd = s[1] /\ callbacks[k].id = s[2]
            /\ \A n \in DOMAIN callbacks : n < k => callbacks[n].cmd # s[1]
      BY DEF Firsts, FirstIs
    <2>2. PICK m \in DOMAIN callbacks :
            /\ callbacks[m].cmd = t[1] /\ callbacks[m].id = t[2]
            /\ \A n \in DOMAIN callbacks : n < m => callbacks[n].cmd # t[1]
      BY DEF Firsts, FirstIs
    <2>3. k \in Nat /\ m \in Nat
      BY LenProperties DEF TypeOK
    <2>4. k = m
      BY <2>1, <2>2, <2>3
    <2>. QED  BY <2>1, <2>2, <2>4
  <1>. QED  BY <1>1, DispatchHolds, PTL

=============================================================================
