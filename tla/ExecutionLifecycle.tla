------------------------- MODULE ExecutionLifecycle -------------------------
(***************************************************************************)
(* The lifecycle of one paper execution: the accepted transition table,    *)
(* the pure functions transition and apply_transition, and the comparison  *)
(* that reconciliation makes, driven by what the code leaves to its        *)
(* callers: inputs that are issued on a revision the caller has read and   *)
(* then lost, repeated, delayed, overtaken by others or issued anew on a   *)
(* later revision, and a broker that fills while others are cancelling.    *)
(*                                                                         *)
(* One action delivers one input: load, transition, apply and save in one  *)
(* transaction.  Callers tell the truth: an observation is one the broker  *)
(* made, and what they say of earlier inputs is what was accepted.         *)
(* An input for another aggregate, or without Paper mode, is refused       *)
(* without effect and left out.                                            *)
(***************************************************************************)
EXTENDS Integers, FiniteSets, LifecycleTransitions

CONSTANTS
  Quantity,        \* the quantity of the order at the broker
  Offered,         \* the inputs callers use
  ByIntake,        \* is the aggregate one that the intake made?
  FillsReported,   \* do acknowledgements, cancellations and reconciliation
                   \* results always carry the cumulative fill?
  MaxRevision,     \* bound on the revision
  MaxMessages,     \* bound on the inputs under way at one time
  None             \* no value

Outcomes ==
  {"CONSISTENT", "LOCAL_AHEAD", "BROKER_AHEAD", "MISSING_AT_BROKER",
   "UNRESOLVED", "OPERATOR_ACTION_REQUIRED"}

ASSUME BoundsAssumption ==
  /\ Quantity \in Nat \ {0}
  /\ Offered \subseteq Inputs
  /\ {ByIntake, FillsReported} \subseteq BOOLEAN
  /\ MaxRevision \in Nat
  /\ MaxMessages \in Nat
  /\ None \notin Nat

VARIABLES
  lifecycle,   \* the aggregate
  accepted,    \* the identities and payloads of the inputs accepted so far
  messages,    \* inputs under way
  order,       \* the order at the broker
  reports,     \* the observations the broker has made
  answer       \* the decision this step gave on an input accepted before

broker == <<order, reports>>
vars == <<lifecycle, accepted, messages, broker, answer>>

\* An input with its context: the revision its caller expects, whether the
\* guard facts of its input hold, and what it carries.  `at` tells apart the
\* inputs of one kind: the revision at which a command was first issued, the
\* cumulative fill of an observation.
Message(input, at, facts) ==
  [input |-> input, at |-> at, expected |-> lifecycle.revision,
   facts |-> facts, quantity |-> 0, referenced |-> FALSE, observed |-> None,
   requested |-> None, outcome |-> None, destination |-> None]

Identity(m) == [input |-> m.input, at |-> m.at, quantity |-> m.quantity]

\* command_matches_prior and broker_observation_matches_prior, and their
\* conflicts, as the accepted inputs have them.
Repeats(m) == Identity(m) \in accepted

Conflicts(m) ==
  \E prior \in accepted :
    prior.input = m.input /\ prior.at = m.at /\ prior # Identity(m)

(***************************************************************************)
(* compare_reconciliation_facts.                                           *)
(***************************************************************************)
Verdict(outcome, proposed) == [outcome |-> outcome, proposed |-> proposed]

Unresolved == Verdict("UNRESOLVED", "RECONCILIATION_REQUIRED")
OperatorActs == Verdict("OPERATOR_ACTION_REQUIRED", "RECONCILIATION_REQUIRED")
MissingAtBroker == Verdict("MISSING_AT_BROKER", "RECONCILIATION_REQUIRED")

FillConflict(f) ==
  /\ None \notin {f.localFilled, f.brokerFilled}
  /\ f.localFilled # f.brokerFilled

BrokerAhead(f) ==
  /\ f.local \in {"OUTCOME_UNKNOWN", "RECONCILIATION_REQUIRED",
                  "DISPATCH_PENDING", "DISPATCHED"}
  /\ f.broker \in
       RecoveryStates \ {"RECONCILIATION_REQUIRED", "FAILED_TERMINAL"}

LocalAhead(f) ==
  /\ f.broker \in {"DISPATCH_PENDING", "DISPATCHED", "BROKER_ACKNOWLEDGED"}
  /\ f.local \in {"PARTIALLY_FILLED", "FILLED", "CANCELLED", "BROKER_REJECTED"}

\* The comparison of an existing aggregate with what the broker shows.
Compare(f) ==
  IF ~f.complete THEN Unresolved
  ELSE IF f.ambiguous THEN OperatorActs
  ELSE IF ~f.present THEN MissingAtBroker
  ELSE IF FillConflict(f) THEN OperatorActs
  ELSE IF f.broker = None THEN Unresolved
  ELSE IF f.local = f.broker
    THEN Verdict("CONSISTENT", IF f.broker \in RecoveryStates THEN f.broker
                               ELSE "RECONCILIATION_REQUIRED")
  ELSE IF BrokerAhead(f) THEN Verdict("BROKER_AHEAD", f.broker)
  ELSE IF LocalAhead(f) THEN Verdict("LOCAL_AHEAD", f.local)
  ELSE OperatorActs

(***************************************************************************)
(* The guards of transition.                                               *)
(***************************************************************************)
\* What the context states of the order's quantity goes before what the
\* aggregate has.
RequestedBy(m) ==
  IF m.requested # None THEN m.requested ELSE lifecycle.requested

\* Mutant: a fill may fall behind the fills recorded.
FillAdmissibleBackwards(m) ==
  /\ m.observed # None
  /\ RequestedBy(m) # None =>
       IF m.input = "OBSERVE_FILL" THEN m.observed = RequestedBy(m)
       ELSE m.observed < RequestedBy(m)

FillAdmissible(m) ==
  /\ m.observed # None
  /\ m.observed >= lifecycle.filled
  /\ RequestedBy(m) # None =>
       IF m.input = "OBSERVE_FILL" THEN m.observed = RequestedBy(m)
       ELSE m.observed < RequestedBy(m)

Restricted(m) ==
  \/ lifecycle.state \in TerminalStates /\ m.input # "FAIL_TERMINALLY"
  \/ /\ lifecycle.state = "OUTCOME_UNKNOWN"
     /\ m.input \notin {"REQUIRE_RECONCILIATION", "FAIL_TERMINALLY"}
  \/ /\ lifecycle.state = "RECONCILIATION_REQUIRED"
     /\ m.input \notin {"RECORD_RECONCILIATION_RESULT", "FAIL_TERMINALLY"}

RecoveryId(outcome) ==
  CASE outcome = "CONSISTENT" -> "PX-TRN-026"
    [] outcome \in {"BROKER_AHEAD", "OPERATOR_ACTION_REQUIRED"} -> "PX-TRN-027"
    [] OTHER -> "PX-TRN-028"

\* The rows of the table that a message takes.
Specs(m) ==
  {spec \in TransitionSpecs :
     /\ spec.input = m.input
     /\ lifecycle.state \in spec.sources
     /\ m.input = "RECORD_RECONCILIATION_RESULT" =>
          spec.id = RecoveryId(m.outcome)}

\* Where a message leads by a row: a reconciliation that ends names its own
\* destination.
Destination(m, spec) ==
  IF /\ m.input = "RECORD_RECONCILIATION_RESULT"
     /\ spec.id # "PX-TRN-028"
     /\ m.destination # None
    THEN m.destination
    ELSE spec.destination

Guarded(m, spec) ==
  /\ m.facts
  /\ m.input \in {"OBSERVE_BROKER_ACKNOWLEDGEMENT",
                  "OBSERVE_CANCELLATION_CONFIRMATION",
                  "OBSERVE_REPLACEMENT_CONFIRMATION"} =>
       m.referenced \/ lifecycle.referenced
  /\ m.input \in {"OBSERVE_PARTIAL_FILL", "OBSERVE_FILL"} => FillAdmissible(m)
  /\ m.input = "REQUEST_CANCELLATION" /\ lifecycle.state = "PARTIALLY_FILLED"
       /\ lifecycle.requested # None
       => lifecycle.requested > lifecycle.filled
  /\ m.input = "REQUEST_REPLACEMENT" => m.quantity >= lifecycle.filled
  /\ m.input = "RECORD_RECONCILIATION_RESULT" =>
       /\ Destination(m, spec) \in RecoveryStates
       /\ m.outcome = "OPERATOR_ACTION_REQUIRED" =>
            m.destination \notin {None, "RECONCILIATION_REQUIRED"}

----------------------------------------------------------------------------
\* PaperExecutionLifecycle.initial, or the aggregate as intake leaves it.
Init ==
  /\ \E quantity \in {Quantity, None} :
       lifecycle =
         [state |-> IF ByIntake THEN "DISPATCH_PENDING" ELSE "CREATED",
          revision |-> IF ByIntake THEN 5 ELSE 0,
          requested |-> quantity, filled |-> 0, referenced |-> FALSE,
          reconciliationRequired |-> FALSE, outcomeUnknown |-> FALSE]
  /\ accepted = {}
  /\ messages = {}
  /\ order = [status |-> "UNSENT", filled |-> 0]
  /\ reports = {}
  /\ answer = None

(***************************************************************************)
(* The broker.  The outer layer sends the order once, while the aggregate  *)
(* is pending; the broker may end a working order by itself.               *)
(***************************************************************************)
SendOrder ==
  /\ lifecycle.state = "DISPATCH_PENDING"
  /\ order.status = "UNSENT"
  /\ order' = [order EXCEPT !.status = "SENT"]
  /\ answer' = None
  /\ UNCHANGED <<lifecycle, accepted, messages, reports>>

\* The order comes to a status, and the broker reports it.
Report(status, filled, input) ==
  /\ order' = [status |-> status, filled |-> filled]
  /\ reports' = reports \cup {[input |-> input, filled |-> filled]}
  /\ answer' = None
  /\ UNCHANGED <<lifecycle, accepted, messages>>

ReceiveOrder ==
  /\ order.status = "SENT"
  /\ \/ Report("WORKING", 0, "OBSERVE_BROKER_ACKNOWLEDGEMENT")
     \/ Report("REJECTED", 0, "OBSERVE_BROKER_REJECTION")

FillOrder(filled) ==
  /\ order.status = "WORKING"
  /\ order.filled < filled
  /\ IF filled = Quantity
       THEN Report("FILLED", filled, "OBSERVE_FILL")
       ELSE Report("WORKING", filled, "OBSERVE_PARTIAL_FILL")

CancelOrder ==
  /\ order.status = "WORKING"
  /\ Report("CANCELLED", order.filled, "OBSERVE_CANCELLATION_CONFIRMATION")

ReplaceOrder ==
  /\ lifecycle.state = "REPLACE_PENDING"
  /\ order.status = "WORKING"
  /\ Report("REPLACED", order.filled, "OBSERVE_REPLACEMENT_CONFIRMATION")

(***************************************************************************)
(* Callers: what they issue on the revision they have read.                *)
(***************************************************************************)
Put(m) ==
  /\ m.input \in Offered
  /\ Cardinality(messages) < MaxMessages
  /\ messages' = messages \cup {m}
  /\ answer' = None
  /\ UNCHANGED <<lifecycle, accepted, broker>>

\* Inputs whose context states guard facts: eligibility, approval, the
\* reservation, the clearance of the emergency stop.
Conditional ==
  {"RECORD_ELIGIBILITY", "RECORD_INELIGIBLE", "RECORD_INDETERMINATE",
   "RECORD_APPROVAL", "RECORD_IDEMPOTENCY_RESERVATION", "PREPARE_DISPATCH"}

\* A caller issues a command that the table has for the state it has read; it
\* may be delivered in any other.  A replacement carries a quantity, which
\* may be smaller than what is filled.
IssueCommand(input, facts) ==
  /\ facts \/ input \in Conditional
  /\ \E spec \in TransitionSpecs :
       spec.input = input /\ lifecycle.state \in spec.sources
  /\ \E quantity \in IF input = "REQUEST_REPLACEMENT" THEN {1, Quantity}
                     ELSE {0} :
       Put([Message(input, lifecycle.revision, facts)
              EXCEPT !.quantity = quantity])

\* The fill that a caller states besides the fact it reports.
Stated(filled) == IF FillsReported THEN {filled} ELSE {filled, None}

\* Who has the broker's order before him may state its quantity; where the
\* aggregate has it already, to state it again changes nothing.
StatedQuantities ==
  IF lifecycle.requested = None THEN {None, Quantity} ELSE {None}

IssueObservation(report) ==
  \E filled \in IF report.input \in {"OBSERVE_PARTIAL_FILL", "OBSERVE_FILL"}
                  THEN {report.filled} ELSE Stated(report.filled),
     requested \in StatedQuantities :
    Put([Message(report.input, report.filled, TRUE)
           EXCEPT !.referenced = TRUE, !.observed = filled,
                  !.requested = requested])

\* The lifecycle state that the broker's order amounts to.
BrokerState ==
  CASE order.status = "WORKING" ->
         IF order.filled = 0 THEN "BROKER_ACKNOWLEDGED" ELSE "PARTIALLY_FILLED"
    [] order.status = "REJECTED" -> "BROKER_REJECTED"
    [] order.status \in {"FILLED", "CANCELLED"} -> order.status
    [] OTHER -> None

\* A read-first reconciliation: the aggregate, then the broker, then the
\* comparison.  A caller may not know the local fills; evidence may be
\* incomplete or ambiguous.
Facts(complete, ambiguous, localFilled) ==
  LET present == order.status \notin {"UNSENT", "SENT"}
  IN  [complete |-> complete, ambiguous |-> ambiguous, present |-> present,
       local |-> lifecycle.state, broker |-> BrokerState,
       localFilled |-> localFilled,
       brokerFilled |-> IF present THEN order.filled ELSE None]

Result(verdict, facts, observed) ==
  [Message("RECORD_RECONCILIATION_RESULT", lifecycle.revision, facts)
     EXCEPT !.outcome = verdict.outcome, !.destination = verdict.proposed,
            !.observed = observed]

IssueReconciliation ==
  /\ lifecycle.state = "RECONCILIATION_REQUIRED"
  /\ \E complete, ambiguous \in BOOLEAN, local \in {lifecycle.filled, None},
        observed \in Stated(order.filled) :
       Put(Result(Compare(Facts(complete, ambiguous, local)), TRUE, observed))

\* The operator decides where an ambiguous reconciliation ends, by what the
\* broker shows or by giving the execution up.
IssueRecovery(facts) ==
  /\ lifecycle.state = "RECONCILIATION_REQUIRED"
  /\ \E destination \in {BrokerState, "FAILED_TERMINAL"} \ {None},
        observed \in Stated(order.filled) :
       Put(Result(Verdict("OPERATOR_ACTION_REQUIRED", destination), facts,
                  observed))

\* A caller whose input was refused as stale issues it on the revision it
\* reads now; a reconciliation reads the broker anew instead.
Reissue(m) ==
  /\ m.input # "RECORD_RECONCILIATION_RESULT"
  /\ m.expected # lifecycle.revision
  /\ messages' = (messages \ {m})
                   \cup {[m EXCEPT !.expected = lifecycle.revision]}
  /\ answer' = None
  /\ UNCHANGED <<lifecycle, accepted, broker>>

\* The input is lost, or its caller is content.
Forget(m) ==
  /\ messages' = messages \ {m}
  /\ answer' = None
  /\ UNCHANGED <<lifecycle, accepted, broker>>

(***************************************************************************)
(* transition and apply_transition: the decision on a delivered input.     *)
(***************************************************************************)
Decide(m, type) ==
  /\ answer' = IF Repeats(m) THEN type ELSE None
  /\ UNCHANGED <<messages, broker>>

Unchanged == UNCHANGED <<lifecycle, accepted>>

Stale(m) == m.expected # lifecycle.revision

RefuseStale(m) ==
  /\ Stale(m)
  /\ Decide(m, "REJECTED")
  /\ Unchanged

RefuseConflict(m) ==
  /\ ~Stale(m)
  /\ Conflicts(m)
  /\ Decide(m, "CONFLICT")
  /\ Unchanged

Replay(m) ==
  /\ ~Stale(m)
  /\ ~Conflicts(m)
  /\ Repeats(m)
  /\ Decide(m, "REPLAYED")
  /\ Unchanged

\* Mutant: what was accepted before is not looked up.
FreshOrRepeated(m) == ~Stale(m) /\ ~Conflicts(m)

Fresh(m) == ~Stale(m) /\ ~Conflicts(m) /\ ~Repeats(m)

Acceptable(m) ==
  ~Restricted(m) /\ \E spec \in Specs(m) : Guarded(m, spec)

Refuse(m) ==
  /\ Fresh(m)
  /\ ~Acceptable(m)
  /\ Decide(m, "REJECTED")
  /\ Unchanged

\* Mutant: an input that states no fill clears the fill.
FillAfterClearing(m) == m.observed

\* Mutant: only a fill changes the fill.
FillAfterKeeping(m) ==
  IF m.input \in {"OBSERVE_PARTIAL_FILL", "OBSERVE_FILL"} THEN m.observed
  ELSE lifecycle.filled

\* The cumulative fill is taken from whichever input states one.
FillAfter(m) == IF m.observed = None THEN lifecycle.filled ELSE m.observed

\* A result says by its destination whether reconciliation is still required,
\* any other input by its row.
ReconciliationRequiredAfter(m, spec) ==
  \/ /\ m.input = "RECORD_RECONCILIATION_RESULT"
     /\ Destination(m, spec) = "RECONCILIATION_REQUIRED"
  \/ /\ m.input # "RECORD_RECONCILIATION_RESULT"
     /\ spec.id \in ReconcilingIds

Advance(m, spec) ==
  lifecycle' =
    [lifecycle EXCEPT
       !.state = Destination(m, spec),
       !.revision = @ + 1,
       !.requested = RequestedBy(m),
       !.filled = FillAfter(m),
       !.referenced = @ \/ m.referenced,
       !.reconciliationRequired = ReconciliationRequiredAfter(m, spec),
       !.outcomeUnknown = Destination(m, spec) = "OUTCOME_UNKNOWN"]

Accept(m) ==
  /\ lifecycle.revision < MaxRevision
  /\ Fresh(m)
  /\ ~Restricted(m)
  /\ \E spec \in Specs(m) :
       /\ Guarded(m, spec)
       /\ Advance(m, spec)
  /\ accepted' = accepted \cup {Identity(m)}
  /\ Decide(m, "ACCEPTED")
----------------------------------------------------------------------------
Broker ==
  \/ SendOrder
  \/ ReceiveOrder
  \/ \E filled \in 1..Quantity : FillOrder(filled)
  \/ CancelOrder
  \/ ReplaceOrder

Callers ==
  \/ \E input \in Commands, facts \in BOOLEAN : IssueCommand(input, facts)
  \/ \E report \in reports : IssueObservation(report)
  \/ IssueReconciliation
  \/ \E facts \in BOOLEAN : IssueRecovery(facts)
  \/ \E m \in messages : Reissue(m) \/ Forget(m)

Lifecycle ==
  \E m \in messages :
    \/ RefuseStale(m)
    \/ RefuseConflict(m)
    \/ Replay(m)
    \/ Refuse(m)
    \/ Accept(m)

Next == Broker \/ Callers \/ Lifecycle

Spec == Init /\ [][Next]_vars
----------------------------------------------------------------------------
(***************************************************************************)
(* Properties.                                                             *)
(***************************************************************************)
OrderStates ==
  {"UNSENT", "SENT", "WORKING", "REJECTED", "FILLED", "CANCELLED", "REPLACED"}

Aggregates ==
  [state : States, revision : Nat, requested : {Quantity, None}, filled : Nat,
   referenced : BOOLEAN, reconciliationRequired : BOOLEAN,
   outcomeUnknown : BOOLEAN]

Identities == [input : Inputs, at : Nat, quantity : Nat]

Messages ==
  [input : Inputs, at : Nat, expected : Nat, facts : BOOLEAN, quantity : Nat,
   referenced : BOOLEAN, observed : Nat \cup {None},
   requested : {Quantity, None},
   outcome : Outcomes \cup {None}, destination : States \cup {None}]

Answers == {"ACCEPTED", "REJECTED", "REPLAYED", "CONFLICT"}

\* Every variable keeps its type.
TypeOK ==
  /\ lifecycle \in Aggregates
  /\ accepted \subseteq Identities
  /\ messages \subseteq Messages
  /\ order \in [status : OrderStates, filled : Nat]
  /\ reports \subseteq [input : Observations, filled : Nat]
  /\ answer \in Answers \cup {None}

\* The two flags of the aggregate, set by table rows, by a special case of
\* reconciliation and by the destination, always say what the state says.
FlagsAgree ==
  /\ lifecycle.reconciliationRequired <=>
       lifecycle.state \in {"OUTCOME_UNKNOWN", "RECONCILIATION_REQUIRED"}
  /\ lifecycle.outcomeUnknown <=> lifecycle.state = "OUTCOME_UNKNOWN"

\* However observations are lost, repeated and overtaken, the aggregate never
\* claims more than the broker did, and where it has come to rest the broker
\* has too, with the same fill (ADR-006: "Filled state cannot transition to
\* cancelled. Partially filled then cancelled must retain cumulative fill
\* facts").
LocalFollowsBroker ==
  /\ lifecycle.filled <= order.filled
  /\ lifecycle.state \in {"FILLED", "CANCELLED", "REPLACED"} =>
       order = [status |-> lifecycle.state, filled |-> lifecycle.filled]
  /\ lifecycle.state = "FILLED" => lifecycle.filled = Quantity
  /\ lifecycle.state = "BROKER_REJECTED" => order.status = "REJECTED"

\* The cumulative fill never falls, whichever input carries it.
FillsOnlyGrow == [][lifecycle'.filled >= lifecycle.filled]_vars

\* The aggregate moves on only by an input never accepted before, and one
\* revision at a time (ADR-006: "Replays, duplicate observations, rejected
\* transitions, stale commands, and no-op inputs do not increment revision").
AdvancesOnce ==
  [][lifecycle' # lifecycle =>
       /\ lifecycle'.revision = lifecycle.revision + 1
       /\ accepted \subseteq accepted'
       /\ accepted' # accepted]_vars

=============================================================================
