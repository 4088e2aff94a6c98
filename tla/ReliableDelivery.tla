-------------------------- MODULE ReliableDelivery --------------------------
(***************************************************************************)
(* What mbus_client_send_reliable promises: each message that is submitted  *)
(* is in the end either confirmed, and then it was delivered before, or     *)
(* abandoned and reported as such (MERR_SEND_RELIABLE), whether it was      *)
(* delivered or not.  The answer is given once.                             *)
(***************************************************************************)
CONSTANT Message

VARIABLES submitted, delivered, confirmed, abandoned

vars == <<submitted, delivered, confirmed, abandoned>>

Settled == confirmed \union abandoned

Init ==
    /\ submitted = {}
    /\ delivered = {}
    /\ confirmed = {}
    /\ abandoned = {}

\* The application hands a message over.
Submit(m) ==
    /\ m \notin submitted
    /\ submitted' = submitted \union {m}
    /\ UNCHANGED <<delivered, confirmed, abandoned>>

\* One datagram: it may carry a message to its destination and confirmations
\* of messages that were delivered earlier.
Exchange(arrived, answered) ==
    /\ arrived \subseteq submitted
    /\ answered \subseteq delivered \ Settled
    /\ delivered' = delivered \union arrived
    /\ confirmed' = confirmed \union answered
    /\ UNCHANGED <<submitted, abandoned>>

\* The sender gives up.
Abandon(m) ==
    /\ m \in submitted \ Settled
    /\ abandoned' = abandoned \union {m}
    /\ UNCHANGED <<submitted, delivered, confirmed>>

Next ==
    \/ \E m \in Message : Submit(m) \/ Abandon(m)
    \/ \E arrived \in SUBSET submitted : \E answered \in SUBSET delivered :
          Exchange(arrived, answered)

Settle(m) == Abandon(m) \/ (m \notin Settled /\ Exchange({}, {m}))

Safety == Init /\ [][Next]_vars

Spec == Safety /\ \A m \in Message : WF_vars(Settle(m))
=============================================================================
