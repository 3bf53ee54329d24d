-------------------------- MODULE OneShotDispatch --------------------------
(***************************************************************************)
(* What controlled paper submission promises of each command, whatever     *)
(* the number of callers and however they fail: authority to dispatch is   *)
(* granted at most once and only while the gate is open, an order is sent  *)
(* at most once and only under that authority, and the one verdict that is *)
(* recorded agrees with what the broker did and is never revised.          *)
(***************************************************************************)
CONSTANTS Commands

VARIABLES
  open,     \* does the dispatch control permit dispatch?
  granted,  \* the commands authorized for dispatch
  order,    \* the fate of each command's order
  verdict   \* the recorded verdict on each command

vars == <<open, granted, order, verdict>>

\* The verdicts that may be recorded, by the fate of the order.
Truthful ==
  [UNSENT    |-> {"PRE_EFFECT_BLOCKED"},
   WITHDRAWN |-> {"PRE_EFFECT_BLOCKED"},
   IN_FLIGHT |-> {"OUTCOME_UNKNOWN"},
   ACCEPTED  |-> {"ACKNOWLEDGED", "OUTCOME_UNKNOWN",
                  "BROKER_REFERENCE_CONFLICT"},
   REJECTED  |-> {"BROKER_REJECTED", "OUTCOME_UNKNOWN",
                  "BROKER_REFERENCE_CONFLICT"}]

Init ==
  /\ open = FALSE
  /\ granted = {}
  /\ order = [c \in Commands |-> "UNSENT"]
  /\ verdict = [c \in Commands |-> "NONE"]

MoveGate ==
  /\ open' \in BOOLEAN
  /\ UNCHANGED <<granted, order, verdict>>

Grant(c) ==
  /\ open
  /\ c \notin granted
  /\ granted' = granted \cup {c}
  /\ UNCHANGED <<open, order, verdict>>

Send(c) ==
  /\ c \in granted
  /\ order[c] = "UNSENT"
  /\ verdict[c] = "NONE"
  /\ order' = [order EXCEPT ![c] = "IN_FLIGHT"]
  /\ UNCHANGED <<open, granted, verdict>>

\* The order in flight is taken by the broker, or withdrawn.  A verdict of
\* OUTCOME_UNKNOWN does not stop an order in flight.
Settle(c, fate) ==
  /\ order[c] = "IN_FLIGHT"
  /\ fate = "WITHDRAWN" => verdict[c] = "NONE"
  /\ order' = [order EXCEPT ![c] = fate]
  /\ UNCHANGED <<open, granted, verdict>>

Pronounce(c, v) ==
  /\ c \in granted
  /\ verdict[c] = "NONE"
  /\ v \in Truthful[order[c]]
  /\ verdict' = [verdict EXCEPT ![c] = v]
  /\ UNCHANGED <<open, granted, order>>

Next ==
  \/ MoveGate
  \/ \E c \in Commands :
       \/ Grant(c)
       \/ Send(c)
       \/ \E fate \in {"ACCEPTED", "REJECTED", "WITHDRAWN"} : Settle(c, fate)
       \/ \E v \in Truthful[order[c]] : Pronounce(c, v)

Spec == Init /\ [][Next]_vars

=============================================================================
