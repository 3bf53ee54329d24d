---------------------- MODULE ExecutionLifecycleProofs ----------------------
(***************************************************************************)
(* Proofs about ExecutionLifecycle: types, flags and revisions; then IInv, *)
(* which ties the aggregate to the order at the broker through everything  *)
(* that is under way between them.                                         *)
(***************************************************************************)
EXTENDS ExecutionLifecycle, TLAPS

\* The rows of the table are typed.
LEMMA Rows ==
  \A spec \in TransitionSpecs :
    spec.input \in Inputs /\ spec.destination \in States
<1>1. \A spec \in PreDispatchSpecs :
        spec.input \in Inputs /\ spec.destination \in States
  BY DEF PreDispatchSpecs, Transition, Inputs, Commands, Observations, States
<1>2. \A spec \in BrokerSpecs :
        spec.input \in Inputs /\ spec.destination \in States
  BY DEF BrokerSpecs, Transition, Inputs, Commands, Observations, States
<1>3. \A spec \in RecoverySpecs :
        spec.input \in Inputs /\ spec.destination \in States
  BY DEF RecoverySpecs, Transition, Inputs, Commands, Observations, States
<1> QED BY <1>1, <1>2, <1>3 DEF TransitionSpecs

\* The rows marked as requiring reconciliation are those that lead to where it
\* is required; results are decided by their destination.
LEMMA FlaggedRows ==
  \A spec \in TransitionSpecs :
    spec.input # "RECORD_RECONCILIATION_RESULT" =>
      (spec.id \in ReconcilingIds <=>
         spec.destination \in {"OUTCOME_UNKNOWN", "RECONCILIATION_REQUIRED"})
<1> DEFINE P(spec) ==
      spec.input # "RECORD_RECONCILIATION_RESULT" =>
        (spec.id \in ReconcilingIds <=>
         spec.destination \in {"OUTCOME_UNKNOWN", "RECONCILIATION_REQUIRED"})
<1>1. \A spec \in PreDispatchSpecs : P(spec)
  BY DEF PreDispatchSpecs, Transition, ReconcilingIds
<1>2. \A spec \in BrokerSpecs : P(spec)
  BY DEF BrokerSpecs, Transition, ReconcilingIds
<1>3. \A spec \in RecoverySpecs : P(spec)
  BY DEF RecoverySpecs, Transition, ReconcilingIds
<1> QED BY <1>1, <1>2, <1>3 DEF TransitionSpecs

\* Every state to recover to is a state.
LEMMA RecoveryStatesAreStates == RecoveryStates \subseteq States
BY DEF RecoveryStates, States

----------------------------------------------------------------------------
(***************************************************************************)
(* Types.                                                                  *)
(***************************************************************************)
\* A message made by a caller is a message.
LEMMA MessageType ==
  ASSUME TypeOK, NEW input \in Inputs, NEW at \in Nat, NEW facts \in BOOLEAN
  PROVE  Message(input, at, facts) \in Messages
BY DEF TypeOK, Aggregates, Messages, Message

\* Reconciliation proposes what the broker shows, or to go on.
LEMMA Compared ==
  ASSUME NEW f, f.local = "RECONCILIATION_REQUIRED"
  PROVE  /\ Compare(f).outcome \in Outcomes
         /\ \/ Compare(f).proposed = "RECONCILIATION_REQUIRED"
            \/ /\ Compare(f).proposed = f.broker
               /\ f.broker # None
               /\ f.broker \in RecoveryStates
<1>1. ~LocalAhead(f)
  BY DEF LocalAhead
<1> QED
  BY <1>1 DEF Compare, Unresolved, OperatorActs, MissingAtBroker, Verdict,
     Outcomes, RecoveryStates, BrokerAhead

\* What the broker's order amounts to is a state to recover to.
LEMMA BrokerStates ==
  ASSUME BrokerState # None
  PROVE  /\ BrokerState \in RecoveryStates \ {"RECONCILIATION_REQUIRED",
                                              "FAILED_TERMINAL"}
         /\ BrokerState \in {"FILLED", "CANCELLED"} =>
              order.status = BrokerState
         /\ BrokerState = "BROKER_REJECTED" => order.status = "REJECTED"
BY DEF BrokerState, RecoveryStates

\* The messages that callers add are typed.
LEMMA IssueType ==
  ASSUME TypeOK, Callers
  PROVE  messages' \subseteq Messages
<1> USE BoundsAssumption
<1>1. ASSUME NEW input \in Commands, NEW facts \in BOOLEAN,
             IssueCommand(input, facts)
      PROVE  messages' \subseteq Messages
  <2>1. PICK quantity \in {1, Quantity} \cup {0} :
          messages' = messages \cup
            {[Message(input, lifecycle.revision, facts)
                EXCEPT !.quantity = quantity]}
    BY <1>1 DEF IssueCommand, Put
  <2>2. Message(input, lifecycle.revision, facts) \in Messages
    BY MessageType DEF TypeOK, Aggregates, Inputs
  <2>3. quantity \in Nat
    OBVIOUS
  <2>4. [Message(input, lifecycle.revision, facts)
           EXCEPT !.quantity = quantity] \in Messages
    BY <2>2, <2>3 DEF Messages
  <2> QED BY <2>1, <2>4 DEF TypeOK
<1>2. ASSUME NEW report \in reports, IssueObservation(report)
      PROVE  messages' \subseteq Messages
  <2>1. report.input \in Inputs /\ report.filled \in Nat
    BY DEF TypeOK, Inputs
  <2>2. PICK filled \in Nat \cup {None}, requested \in {Quantity, None} :
          messages' = messages \cup
            {[Message(report.input, report.filled, TRUE)
                EXCEPT !.referenced = TRUE, !.observed = filled,
                       !.requested = requested]}
    BY <1>2, <2>1 DEF IssueObservation, Stated, StatedQuantities, Put
  <2>3. Message(report.input, report.filled, TRUE) \in Messages
    BY <2>1, MessageType
  <2>4. [Message(report.input, report.filled, TRUE)
           EXCEPT !.referenced = TRUE, !.observed = filled,
                  !.requested = requested] \in Messages
    BY <2>3 DEF Messages
  <2> QED BY <2>2, <2>4 DEF TypeOK
<1>3. ASSUME NEW verdict, NEW facts \in BOOLEAN,
             NEW observed \in Nat \cup {None},
             verdict.outcome \in Outcomes, verdict.proposed \in RecoveryStates
      PROVE  Result(verdict, facts, observed) \in Messages
  <2>1. Message("RECORD_RECONCILIATION_RESULT", lifecycle.revision, facts)
          \in Messages
    BY MessageType DEF TypeOK, Aggregates, Inputs
  <2> QED BY <1>3, <2>1, RecoveryStatesAreStates DEF Result, Messages
<1>4. \A observed \in Stated(order.filled) : observed \in Nat \cup {None}
  BY DEF Stated, TypeOK
<1>5. ASSUME IssueReconciliation
      PROVE  messages' \subseteq Messages
  <2>1. PICK complete \in BOOLEAN, ambiguous \in BOOLEAN,
             local \in {lifecycle.filled, None},
             observed \in Stated(order.filled) :
          Put(Result(Compare(Facts(complete, ambiguous, local)), TRUE,
                     observed))
    BY <1>5 DEF IssueReconciliation
  <2> DEFINE f == Facts(complete, ambiguous, local)
  <2>2. f.local = "RECONCILIATION_REQUIRED"
    BY <1>5 DEF IssueReconciliation, Facts
  <2>3. /\ Compare(f).outcome \in Outcomes
        /\ Compare(f).proposed \in RecoveryStates
    <3> HIDE DEF f
    <3> QED BY <2>2, Compared DEF RecoveryStates
  <2>4. Result(Compare(f), TRUE, observed) \in Messages
    <3> HIDE DEF f
    <3> QED BY <2>3, <1>3, <1>4
  <2> QED BY <2>1, <2>4 DEF Put, TypeOK
<1>6. ASSUME NEW facts \in BOOLEAN, IssueRecovery(facts)
      PROVE  messages' \subseteq Messages
  <2>1. PICK destination \in {BrokerState, "FAILED_TERMINAL"} \ {None},
             observed \in Stated(order.filled) :
          Put(Result(Verdict("OPERATOR_ACTION_REQUIRED", destination), facts,
                     observed))
    BY <1>6 DEF IssueRecovery
  <2> DEFINE verdict == Verdict("OPERATOR_ACTION_REQUIRED", destination)
  <2>2. destination \in RecoveryStates
    BY BrokerStates DEF RecoveryStates
  <2>3. verdict.outcome \in Outcomes /\ verdict.proposed \in RecoveryStates
    BY <2>2 DEF Verdict, Outcomes
  <2>4. Result(verdict, facts, observed) \in Messages
    <3> HIDE DEF verdict
    <3> QED BY <2>3, <1>3, <1>4
  <2> QED BY <2>1, <2>4 DEF Put, TypeOK
<1>7. ASSUME NEW m \in messages, Reissue(m)
      PROVE  messages' \subseteq Messages
  <2>1. [m EXCEPT !.expected = lifecycle.revision] \in Messages
    BY DEF TypeOK, Aggregates, Messages
  <2> QED BY <1>7, <2>1 DEF Reissue, TypeOK
<1>8. ASSUME NEW m \in messages, Forget(m)
      PROVE  messages' \subseteq Messages
  BY <1>8 DEF Forget, TypeOK
<1> QED BY <1>1, <1>2, <1>5, <1>6, <1>7, <1>8 DEF Callers

\* Callers touch nothing but the messages, and give no answer.
LEMMA CallersLeaveTheRest ==
  ASSUME Callers
  PROVE  /\ answer' = None
         /\ UNCHANGED <<lifecycle, accepted, broker>>
BY DEF Callers, IssueCommand, IssueObservation, IssueReconciliation,
   IssueRecovery, Reissue, Forget, Put

\* The destination of an accepted message is a state.
LEMMA DestinationType ==
  ASSUME TypeOK, NEW m \in messages, NEW spec \in Specs(m)
  PROVE  /\ spec \in TransitionSpecs
         /\ spec.input = m.input
         /\ lifecycle.state \in spec.sources
         /\ Destination(m, spec) \in States
BY Rows DEF Specs, Destination, TypeOK, Messages

\* The next aggregate is typed.
LEMMA AdvanceType ==
  ASSUME TypeOK, NEW m \in messages, NEW spec \in Specs(m), Advance(m, spec)
  PROVE  lifecycle' \in Aggregates
<1>1. Destination(m, spec) \in States
  BY DestinationType
<1>2. FillAfter(m) \in Nat
  BY DEF FillAfter, TypeOK, Messages, Aggregates
<1> DEFINE required == ReconciliationRequiredAfter(m, spec)
           unknown == Destination(m, spec) = "OUTCOME_UNKNOWN"
           known == lifecycle.referenced \/ m.referenced
<1>3. /\ required \in BOOLEAN
      /\ unknown \in BOOLEAN
      /\ known \in BOOLEAN
  BY Zenon DEF ReconciliationRequiredAfter
<1>4. lifecycle' = [lifecycle EXCEPT
                      !.state = Destination(m, spec),
                      !.revision = lifecycle.revision + 1,
                      !.requested = RequestedBy(m),
                      !.filled = FillAfter(m),
                      !.referenced = known,
                      !.reconciliationRequired = required,
                      !.outcomeUnknown = unknown]
  BY Zenon DEF Advance
<1> QED
  <2> HIDE DEF required, unknown, known
  <2>1. lifecycle \in Aggregates
    BY DEF TypeOK
  <2>2. /\ lifecycle.revision + 1 \in Nat
        /\ RequestedBy(m) \in {Quantity, None}
    BY <2>1 DEF Aggregates, RequestedBy, TypeOK, Messages
  <2>3. lifecycle' = [state |-> Destination(m, spec),
                      revision |-> lifecycle.revision + 1,
                      requested |-> RequestedBy(m),
                      filled |-> FillAfter(m),
                      referenced |-> known,
                      reconciliationRequired |-> required,
                      outcomeUnknown |-> unknown]
    BY <1>4, <2>1 DEF Aggregates
  <2> QED BY <1>1, <1>2, <1>3, <2>2, <2>3 DEF Aggregates

\* A delivery accepts a message, or changes nothing but the answer.
LEMMA Delivered ==
  ASSUME Lifecycle
  PROVE  /\ UNCHANGED <<messages, broker>>
         /\ answer' \in Answers \cup {None}
         /\ \/ UNCHANGED <<lifecycle, accepted>>
            \/ \E m \in messages : Accept(m)
BY DEF Lifecycle, RefuseStale, RefuseConflict, Replay, Refuse, Accept, Decide,
   Unchanged, Answers

\* The broker's steps keep the types of what they change.
LEMMA BrokerType ==
  ASSUME TypeOK, Broker
  PROVE  /\ order' \in [status : OrderStates, filled : Nat]
         /\ reports' \subseteq [input : Observations, filled : Nat]
         /\ answer' = None
         /\ UNCHANGED <<lifecycle, accepted, messages>>
<1> USE BoundsAssumption DEF TypeOK
<1>1. CASE SendOrder
  BY <1>1 DEF SendOrder, OrderStates
<1>2. ASSUME NEW status \in OrderStates, NEW filled \in Nat,
             NEW input \in Observations, Report(status, filled, input)
      PROVE  /\ order' \in [status : OrderStates, filled : Nat]
             /\ reports' \subseteq [input : Observations, filled : Nat]
             /\ answer' = None
             /\ UNCHANGED <<lifecycle, accepted, messages>>
  BY <1>2 DEF Report
<1>3. CASE ReceiveOrder
  BY <1>2, <1>3 DEF ReceiveOrder, OrderStates, Observations
<1>4. ASSUME NEW filled \in 1..Quantity, FillOrder(filled)
      PROVE  \E status \in OrderStates, input \in Observations :
               Report(status, filled, input)
  BY <1>4 DEF FillOrder, OrderStates, Observations
<1>5. CASE CancelOrder
  BY <1>2, <1>5 DEF CancelOrder, OrderStates, Observations
<1>6. CASE ReplaceOrder
  BY <1>2, <1>6 DEF ReplaceOrder, OrderStates, Observations
<1> QED BY <1>1, <1>2, <1>3, <1>4, <1>5, <1>6 DEF Broker

\* Every step keeps the types.
LEMMA TypeStep ==
  ASSUME TypeOK, [Next]_vars
  PROVE  TypeOK'
<1>1. CASE Broker
  BY <1>1, BrokerType DEF TypeOK
<1>2. CASE Callers
  BY <1>2, IssueType, CallersLeaveTheRest DEF TypeOK, broker
<1>3. CASE Lifecycle
  <2>1. ASSUME NEW m \in messages, Accept(m)
        PROVE  /\ lifecycle' \in Aggregates
               /\ accepted' \subseteq Identities
    <3>1. lifecycle' \in Aggregates
      BY <2>1, AdvanceType DEF Accept
    <3>2. Identity(m) \in Identities
      BY DEF Identity, Identities, TypeOK, Messages
    <3> QED BY <2>1, <3>1, <3>2 DEF Accept, TypeOK
  <2> QED BY <1>3, <2>1, Delivered DEF TypeOK, broker
<1>4. CASE UNCHANGED vars
  BY <1>4 DEF vars, broker, TypeOK
<1> QED BY <1>1, <1>2, <1>3, <1>4 DEF Next

\* The initial values are typed.
LEMMA TypeInit ==
  ASSUME Init
  PROVE  TypeOK
<1>1. PICK quantity \in {Quantity, None} :
        lifecycle =
          [state |-> IF ByIntake THEN "DISPATCH_PENDING" ELSE "CREATED",
           revision |-> IF ByIntake THEN 5 ELSE 0,
           requested |-> quantity, filled |-> 0, referenced |-> FALSE,
           reconciliationRequired |-> FALSE, outcomeUnknown |-> FALSE]
  BY DEF Init
<1>2. lifecycle \in Aggregates
  BY <1>1 DEF Aggregates, States
<1>3. order \in [status : OrderStates, filled : Nat]
  BY DEF Init, OrderStates
<1> QED BY <1>2, <1>3 DEF Init, TypeOK

\* Every variable keeps its type.
THEOREM TypeCorrect == Spec => []TypeOK
<1> QED BY TypeInit, TypeStep, PTL DEF Spec

----------------------------------------------------------------------------
(***************************************************************************)
(* The flags, and how the aggregate moves on.                              *)
(***************************************************************************)
\* Every step keeps the flags in agreement: an accepted input sets them by its
\* row, or by the destination of its result.
LEMMA FlagsStep ==
  ASSUME TypeOK, FlagsAgree, [Next]_vars
  PROVE  FlagsAgree'
<1>1. ASSUME NEW m \in messages, Accept(m)
      PROVE  FlagsAgree'
  <2>1. PICK spec \in Specs(m) : Guarded(m, spec) /\ Advance(m, spec)
    BY <1>1 DEF Accept
  <2> DEFINE destination == Destination(m, spec)
  <2>2. /\ lifecycle'.state = destination
        /\ lifecycle'.reconciliationRequired =
             ReconciliationRequiredAfter(m, spec)
        /\ lifecycle'.outcomeUnknown = (destination = "OUTCOME_UNKNOWN")
    BY <2>1 DEF Advance, TypeOK, Aggregates
  <2>3. ReconciliationRequiredAfter(m, spec) <=>
          destination \in {"OUTCOME_UNKNOWN", "RECONCILIATION_REQUIRED"}
    <3>1. CASE m.input = "RECORD_RECONCILIATION_RESULT"
      BY <2>1, <3>1 DEF Guarded, RecoveryStates, ReconciliationRequiredAfter
    <3>2. CASE m.input # "RECORD_RECONCILIATION_RESULT"
      BY <3>2, DestinationType, FlaggedRows
      DEF Destination, ReconciliationRequiredAfter
    <3> QED BY <3>1, <3>2
  <2> HIDE DEF destination
  <2> QED BY <2>2, <2>3 DEF FlagsAgree
<1>2. CASE lifecycle' = lifecycle
  BY <1>2 DEF FlagsAgree
<1> QED
  BY <1>1, <1>2, BrokerType, CallersLeaveTheRest, Delivered DEF Next, vars

\* The flags that the aggregate carries say what its state says.
THEOREM FlagsTheorem == Spec => []FlagsAgree
<1>1. Init => FlagsAgree
  BY DEF Init, FlagsAgree
<1> QED BY <1>1, FlagsStep, TypeCorrect, PTL DEF Spec

\* The aggregate advances by one revision, for an input new to it.
THEOREM AdvancesOnceTheorem == Spec => AdvancesOnce
<1> DEFINE Once == lifecycle' # lifecycle =>
                     /\ lifecycle'.revision = lifecycle.revision + 1
                     /\ accepted \subseteq accepted'
                     /\ accepted' # accepted
<1>1. ASSUME TypeOK, [Next]_vars
      PROVE  [Once]_vars
  <2>1. ASSUME NEW m \in messages, Accept(m)
        PROVE  Once
    <3>1. lifecycle'.revision = lifecycle.revision + 1
      BY <1>1, <2>1 DEF Accept, Advance, TypeOK, Aggregates
    <3>2. /\ Identity(m) \notin accepted
          /\ accepted' = accepted \cup {Identity(m)}
      BY <2>1 DEF Accept, Fresh, Repeats
    <3> QED BY <3>1, <3>2
  <2>2. CASE lifecycle' = lifecycle
    BY <2>2
  <2> HIDE DEF Once
  <2> QED
    BY <1>1, <2>1, <2>2, BrokerType, CallersLeaveTheRest, Delivered
    DEF Next, vars
<1> QED BY <1>1, TypeCorrect, PTL DEF Spec, AdvancesOnce

----------------------------------------------------------------------------
(***************************************************************************)
(* The aggregate and the broker.                                           *)
(***************************************************************************)
\* The states of an execution no answer of the broker has reached, and those
\* before its order may be sent.
Unanswered ==
  {"CREATED", "ELIGIBILITY_EVALUATED", "APPROVAL_CONFIRMED",
   "IDEMPOTENCY_RESERVED", "READY_FOR_DISPATCH", "DISPATCH_PENDING",
   "DISPATCHED", "OUTCOME_UNKNOWN"}

Unsent ==
  {"CREATED", "ELIGIBILITY_EVALUATED", "INELIGIBLE", "APPROVAL_CONFIRMED",
   "IDEMPOTENCY_RESERVED", "READY_FOR_DISPATCH"}

\* The broker's order fills only while it works, and its reports tell its
\* final status.
OrderHolds ==
  /\ order.status \in {"UNSENT", "SENT", "REJECTED"} => order.filled = 0
  /\ order.status = "FILLED" => order.filled = Quantity
  /\ order.filled <= Quantity

ReportHolds(input, filled) ==
  /\ filled <= order.filled
  /\ order.status \notin {"UNSENT", "SENT"}
  /\ input = "OBSERVE_BROKER_REJECTION" => order.status = "REJECTED"
  /\ input = "OBSERVE_FILL" =>
       order.status = "FILLED" /\ filled = order.filled
  /\ input = "OBSERVE_CANCELLATION_CONFIRMATION" =>
       order.status = "CANCELLED" /\ filled = order.filled
  /\ input = "OBSERVE_REPLACEMENT_CONFIRMATION" =>
       order.status = "REPLACED" /\ filled = order.filled

\* What a result says stays true: the broker's order ended where it says, and
\* on the revision it was issued for nothing can be filled beyond it.
ResultHolds(m) ==
  /\ m.observed # None =>
       /\ m.observed <= order.filled
       /\ m.expected = lifecycle.revision => m.observed >= lifecycle.filled
  /\ m.destination = "BROKER_REJECTED" => order.status = "REJECTED"
  /\ m.destination \in {"FILLED", "CANCELLED"} =>
       /\ order.status = m.destination
       /\ FillsReported => m.observed = order.filled
  /\ m.outcome = "BROKER_AHEAD" => m.destination # None

\* What is under way is true: a command states no fill, an observation is one
\* of the broker's reports.
MessageHolds(m) ==
  /\ m.expected <= lifecycle.revision
  /\ m.input \in Commands => m.observed = None
  /\ m.input \in Observations =>
       \E report \in reports :
         /\ report.input = m.input
         /\ m.observed \in {report.filled, None}
         /\ FillsReported => m.observed = report.filled
  /\ m.input = "RECORD_RECONCILIATION_RESULT" => ResultHolds(m)

\* Where the aggregate stands the broker's order is behind no more.
AggregateHolds ==
  /\ lifecycle.filled <= order.filled
  /\ lifecycle.state \in Unanswered => lifecycle.filled = 0
  /\ lifecycle.state \in Unsent => order.status = "UNSENT"
  /\ lifecycle.state = "BROKER_REJECTED" => order.status = "REJECTED"
  /\ lifecycle.state \in {"FILLED", "CANCELLED", "REPLACED"} =>
       /\ order.status = lifecycle.state
       /\ FillsReported => lifecycle.filled = order.filled

IInv ==
  /\ TypeOK
  /\ OrderHolds
  /\ \A report \in reports : ReportHolds(report.input, report.filled)
  /\ \A m \in messages : MessageHolds(m)
  /\ AggregateHolds

\* Rows that lead to an unanswered execution start from one, on a command,
\* and rows that lead to one unsent start from one.
LEMMA EarlyRows ==
  \A spec \in TransitionSpecs :
    /\ spec.destination \in Unanswered =>
         spec.sources \subseteq Unanswered /\ spec.input \in Commands
    /\ spec.destination \in Unsent => spec.sources \subseteq Unsent
<1> DEFINE P(spec) ==
      /\ spec.destination \in Unanswered =>
           spec.sources \subseteq Unanswered /\ spec.input \in Commands
      /\ spec.destination \in Unsent => spec.sources \subseteq Unsent
<1>1. \A spec \in PreDispatchSpecs : P(spec)
  BY DEF PreDispatchSpecs, Transition, Unanswered, Unsent, Commands
<1>2. \A spec \in BrokerSpecs : P(spec)
  BY DEF BrokerSpecs, Transition, Unanswered, Unsent, Commands
<1>3. \A spec \in RecoverySpecs : P(spec)
  BY DEF RecoverySpecs, Transition, Unanswered, Unsent, Commands
<1> QED BY <1>1, <1>2, <1>3 DEF TransitionSpecs

\* Rows of an acknowledgement or a rejection start unanswered; a final state
\* is reached by an observation of it, or by a result.
LEMMA LateRows ==
  \A spec \in TransitionSpecs :
    /\ spec.input \in {"OBSERVE_BROKER_ACKNOWLEDGEMENT",
                       "OBSERVE_BROKER_REJECTION"} =>
         spec.sources \subseteq Unanswered
    /\ spec.destination = "BROKER_REJECTED" =>
         spec.input = "OBSERVE_BROKER_REJECTION"
    /\ spec.destination = "FILLED" => spec.input = "OBSERVE_FILL"
    /\ spec.destination = "CANCELLED" =>
         spec.input = "OBSERVE_CANCELLATION_CONFIRMATION"
    /\ spec.destination = "REPLACED" =>
         spec.input = "OBSERVE_REPLACEMENT_CONFIRMATION"
    /\ spec.input = "RECORD_RECONCILIATION_RESULT" =>
         spec.destination \in {"BROKER_ACKNOWLEDGED", "PARTIALLY_FILLED",
                               "RECONCILIATION_REQUIRED"}
<1> DEFINE P(spec) ==
      /\ spec.input \in {"OBSERVE_BROKER_ACKNOWLEDGEMENT",
                         "OBSERVE_BROKER_REJECTION"} =>
           spec.sources \subseteq Unanswered
      /\ spec.destination = "BROKER_REJECTED" =>
           spec.input = "OBSERVE_BROKER_REJECTION"
      /\ spec.destination = "FILLED" => spec.input = "OBSERVE_FILL"
      /\ spec.destination = "CANCELLED" =>
           spec.input = "OBSERVE_CANCELLATION_CONFIRMATION"
      /\ spec.destination = "REPLACED" =>
           spec.input = "OBSERVE_REPLACEMENT_CONFIRMATION"
      /\ spec.input = "RECORD_RECONCILIATION_RESULT" =>
           spec.destination \in {"BROKER_ACKNOWLEDGED", "PARTIALLY_FILLED",
                                 "RECONCILIATION_REQUIRED"}
<1>1. \A spec \in PreDispatchSpecs : P(spec)
  BY DEF PreDispatchSpecs, Transition, Unanswered
<1>2. \A spec \in BrokerSpecs : P(spec)
  BY DEF BrokerSpecs, Transition, Unanswered
<1>3. \A spec \in RecoverySpecs : P(spec)
  BY DEF RecoverySpecs, Transition, Unanswered
<1> QED BY <1>1, <1>2, <1>3 DEF TransitionSpecs

\* The broker moves an order forward that has not ended, and its reports stay
\* true.
LEMMA BrokerStep ==
  ASSUME IInv, Broker
  PROVE  /\ order.status \in {"UNSENT", "SENT", "WORKING"}
         /\ order.status = "UNSENT" => lifecycle.state = "DISPATCH_PENDING"
         /\ order'.filled >= order.filled
         /\ order'.status # "UNSENT"
         /\ reports \subseteq reports'
         /\ OrderHolds'
         /\ \A report \in reports' : ReportHolds(report.input, report.filled)'
<1> DEFINE Goal ==
      /\ order.status \in {"UNSENT", "SENT", "WORKING"}
      /\ order.status = "UNSENT" => lifecycle.state = "DISPATCH_PENDING"
      /\ order'.filled >= order.filled
      /\ order'.status # "UNSENT"
      /\ reports \subseteq reports'
      /\ OrderHolds'
      /\ \A report \in reports' : ReportHolds(report.input, report.filled)'
<1> USE BoundsAssumption
<1>1. CASE SendOrder
  BY <1>1 DEF IInv, TypeOK, OrderHolds, ReportHolds, SendOrder
<1>2. ASSUME NEW status \in {"WORKING", "REJECTED", "FILLED", "CANCELLED",
                             "REPLACED"},
             NEW filled \in Nat, NEW input \in Observations,
             Report(status, filled, input),
             order.status \in {"SENT", "WORKING"},
             filled >= order.filled, filled <= Quantity,
             status = "REJECTED" => filled = 0,
             status = "FILLED" => filled = Quantity,
             input = "OBSERVE_BROKER_REJECTION" => status = "REJECTED",
             input = "OBSERVE_FILL" => status = "FILLED",
             input = "OBSERVE_CANCELLATION_CONFIRMATION" =>
               status = "CANCELLED",
             input = "OBSERVE_REPLACEMENT_CONFIRMATION" => status = "REPLACED"
      PROVE  Goal
  <2>1. order' = [status |-> status, filled |-> filled]
    BY <1>2 DEF Report
  <2>2. reports' = reports \cup {[input |-> input, filled |-> filled]}
    BY <1>2 DEF Report
  <2>3. OrderHolds'
    BY <1>2, <2>1 DEF OrderHolds
  <2>4. ASSUME NEW report \in reports'
        PROVE  ReportHolds(report.input, report.filled)'
    <3>1. CASE report \in reports
      BY <1>2, <2>1, <3>1 DEF IInv, TypeOK, ReportHolds
    <3>2. CASE report = [input |-> input, filled |-> filled]
      BY <1>2, <2>1, <3>2 DEF ReportHolds
    <3> QED BY <2>2, <3>1, <3>2
  <2> QED BY <1>2, <2>1, <2>2, <2>3, <2>4
<1>3. CASE ReceiveOrder
  BY <1>2, <1>3 DEF ReceiveOrder, Observations, IInv, OrderHolds
<1>4. ASSUME NEW filled \in 1..Quantity, FillOrder(filled)
      PROVE  Goal
  <2>1. filled \in Nat /\ filled >= order.filled /\ filled <= Quantity
    BY <1>4 DEF FillOrder, IInv, TypeOK
  <2>2. CASE filled = Quantity
    BY <1>2, <1>4, <2>1, <2>2 DEF FillOrder, Observations
  <2>3. CASE filled # Quantity
    BY <1>2, <1>4, <2>1, <2>3 DEF FillOrder, Observations
  <2> QED BY <2>2, <2>3
<1>5. order.filled \in Nat /\ order.filled <= Quantity
  BY DEF IInv, TypeOK, OrderHolds
<1>6. CASE CancelOrder
  BY <1>2, <1>5, <1>6 DEF CancelOrder, Observations
<1>7. CASE ReplaceOrder
  BY <1>2, <1>5, <1>7 DEF ReplaceOrder, Observations
<1> QED BY <1>1, <1>3, <1>4, <1>6, <1>7 DEF Broker

\* Callers put true messages under way.
LEMMA CallersStep ==
  ASSUME IInv, Callers
  PROVE  (\A m \in messages : MessageHolds(m))'
<1> USE BoundsAssumption
<1> UNCHANGED <<lifecycle, order, reports>>
  BY CallersLeaveTheRest DEF broker
<1>1. \A m : MessageHolds(m)' <=> MessageHolds(m)
  BY DEF MessageHolds, ResultHolds
<1>2. ASSUME NEW input \in Commands, NEW facts \in BOOLEAN,
             IssueCommand(input, facts)
      PROVE  \A m \in messages' : MessageHolds(m)
  <2>1. PICK quantity \in {1, Quantity} \cup {0} :
          messages' = messages \cup
            {[Message(input, lifecycle.revision, facts)
                EXCEPT !.quantity = quantity]}
    BY <1>2 DEF IssueCommand, Put
  <2>2. MessageHolds([Message(input, lifecycle.revision, facts)
                        EXCEPT !.quantity = quantity])
    <3>1. input \notin Observations /\ input # "RECORD_RECONCILIATION_RESULT"
      BY DEF Commands, Observations
    <3> QED BY <3>1 DEF Message, MessageHolds, IInv, TypeOK, Aggregates
  <2> QED BY <2>1, <2>2 DEF IInv
<1>3. ASSUME NEW report \in reports, IssueObservation(report)
      PROVE  \A m \in messages' : MessageHolds(m)
  <2>1. PICK filled \in {report.filled, None}, requested \in StatedQuantities :
          /\ FillsReported => filled = report.filled
          /\ messages' = messages \cup
               {[Message(report.input, report.filled, TRUE)
                   EXCEPT !.referenced = TRUE, !.observed = filled,
                          !.requested = requested]}
    BY <1>3 DEF IssueObservation, Stated, Put
  <2>2. MessageHolds([Message(report.input, report.filled, TRUE)
                        EXCEPT !.referenced = TRUE, !.observed = filled,
                               !.requested = requested])
    <3>1. /\ report.input \notin Commands
          /\ report.input # "RECORD_RECONCILIATION_RESULT"
      BY DEF Commands, Observations, IInv, TypeOK
    <3> QED BY <2>1, <3>1 DEF Message, MessageHolds, IInv, TypeOK, Aggregates
  <2> QED BY <2>1, <2>2 DEF IInv
<1>4. ASSUME NEW destination, NEW outcome \in Outcomes, NEW facts \in BOOLEAN,
             NEW observed \in Stated(order.filled),
             \/ destination \in {"RECONCILIATION_REQUIRED", "FAILED_TERMINAL"}
             \/ destination = BrokerState /\ BrokerState # None,
             outcome = "BROKER_AHEAD" => destination # None
      PROVE  MessageHolds(Result(Verdict(outcome, destination), facts,
                                 observed))
  <2> DEFINE m == Result(Verdict(outcome, destination), facts, observed)
  <2>1. /\ m.input = "RECORD_RECONCILIATION_RESULT"
        /\ m.expected = lifecycle.revision
        /\ m.observed = observed
        /\ m.destination = destination
        /\ m.outcome = outcome
    BY DEF Result, Verdict, Message
  <2>2. /\ observed \in {order.filled, None}
        /\ FillsReported => observed = order.filled
    BY DEF Stated
  <2>3. ResultHolds(m)
    <3> HIDE DEF m
    <3>1. observed # None =>
            observed <= order.filled /\ observed >= lifecycle.filled
      BY <2>2 DEF IInv, TypeOK, Aggregates, AggregateHolds
    <3> QED BY <1>4, <2>1, <2>2, <3>1, BrokerStates DEF ResultHolds
  <2>4. MessageHolds(m)
    <3> HIDE DEF m
    <3> QED
      BY <2>1, <2>3
      DEF MessageHolds, Commands, Observations, IInv, TypeOK, Aggregates
  <2> QED BY <2>4
<1>5. ASSUME IssueReconciliation
      PROVE  \A m \in messages' : MessageHolds(m)
  <2>1. PICK complete \in BOOLEAN, ambiguous \in BOOLEAN,
             local \in {lifecycle.filled, None},
             observed \in Stated(order.filled) :
          Put(Result(Compare(Facts(complete, ambiguous, local)), TRUE,
                     observed))
    BY <1>5 DEF IssueReconciliation
  <2> DEFINE f == Facts(complete, ambiguous, local)
             verdict == Compare(f)
  <2>2. f.local = "RECONCILIATION_REQUIRED" /\ f.broker = BrokerState
    BY <1>5 DEF IssueReconciliation, Facts
  <2>3. /\ verdict = Verdict(verdict.outcome, verdict.proposed)
        /\ verdict.outcome \in Outcomes
        /\ \/ verdict.proposed = "RECONCILIATION_REQUIRED"
           \/ verdict.proposed = BrokerState /\ BrokerState # None
        /\ verdict.outcome = "BROKER_AHEAD" => verdict.proposed # None
    <3> HIDE DEF f
    <3>1. verdict = Verdict(verdict.outcome, verdict.proposed)
      BY DEF Compare, Unresolved, OperatorActs, MissingAtBroker, Verdict
    <3>2. verdict.outcome = "BROKER_AHEAD" => verdict.proposed = f.broker
                                              /\ f.broker # None
      BY <2>2
      DEF Compare, Unresolved, OperatorActs, MissingAtBroker, Verdict,
          LocalAhead
    <3> QED BY <2>2, <3>1, <3>2, Compared
  <2>4. MessageHolds(Result(verdict, TRUE, observed))
    <3> HIDE DEF verdict
    <3> QED BY <2>3, <1>4
  <2> QED BY <2>1, <2>4 DEF Put, IInv
<1>6. ASSUME NEW facts \in BOOLEAN, IssueRecovery(facts)
      PROVE  \A m \in messages' : MessageHolds(m)
  <2>1. PICK destination \in {BrokerState, "FAILED_TERMINAL"} \ {None},
             observed \in Stated(order.filled) :
          Put(Result(Verdict("OPERATOR_ACTION_REQUIRED", destination), facts,
                     observed))
    BY <1>6 DEF IssueRecovery
  <2>2. MessageHolds(Result(Verdict("OPERATOR_ACTION_REQUIRED", destination),
                            facts, observed))
    BY <1>4 DEF Outcomes
  <2> QED BY <2>1, <2>2 DEF Put, IInv
<1>7. ASSUME NEW m \in messages, Reissue(m)
      PROVE  \A n \in messages' : MessageHolds(n)
  <2>1. MessageHolds([m EXCEPT !.expected = lifecycle.revision])
    <3>1. m \in Messages /\ MessageHolds(m)
      BY DEF IInv, TypeOK
    <3> QED
      BY <1>7, <3>1
      DEF Reissue, MessageHolds, Messages, IInv, TypeOK, Aggregates
  <2> QED BY <1>7, <2>1 DEF Reissue, IInv
<1>8. ASSUME NEW m \in messages, Forget(m)
      PROVE  \A n \in messages' : MessageHolds(n)
  BY <1>8 DEF Forget, IInv
<1> QED BY <1>1, <1>2, <1>3, <1>5, <1>6, <1>7, <1>8 DEF Callers

\* What an accepted message leads to.
LEMMA AcceptStep ==
  ASSUME IInv, NEW m \in messages, Accept(m)
  PROVE  /\ lifecycle'.filled >= lifecycle.filled
         /\ (\A n \in messages : MessageHolds(n))'
         /\ AggregateHolds'
<1> USE BoundsAssumption
<1>1. PICK spec \in Specs(m) : Guarded(m, spec) /\ Advance(m, spec)
  BY DEF Accept
<1> DEFINE destination == Destination(m, spec)
           filled == FillAfter(m)
<1>2. UNCHANGED <<messages, order, reports>>
  BY DEF Accept, Decide, broker
<1>3. /\ m \in Messages
      /\ MessageHolds(m)
      /\ m.expected = lifecycle.revision
      /\ lifecycle \in Aggregates
      /\ order.filled \in Nat
  BY DEF Accept, Fresh, Stale, IInv, TypeOK
<1>4. /\ spec \in TransitionSpecs
      /\ spec.input = m.input
      /\ lifecycle.state \in spec.sources
  BY DestinationType DEF IInv
<1>5. /\ lifecycle'.state = destination
      /\ lifecycle'.filled = filled
      /\ lifecycle'.revision = lifecycle.revision + 1
      /\ lifecycle.filled \in Nat
      /\ lifecycle.revision \in Nat
      /\ m.observed \in Nat \cup {None}
      /\ filled = IF m.observed = None THEN lifecycle.filled ELSE m.observed
  BY <1>1, <1>3 DEF Advance, Aggregates, Messages, FillAfter
\* The report that an observation is.
<1>6. ASSUME m.input \in Observations
      PROVE  \E report \in reports :
               /\ ReportHolds(m.input, report.filled)
               /\ m.observed \in {report.filled, None}
               /\ FillsReported => m.observed = report.filled
               /\ report.filled \in Nat
  BY <1>3, <1>6 DEF MessageHolds, IInv, TypeOK
<1>7. m.input \in Inputs
  BY <1>3 DEF Messages
<1>8. filled >= lifecycle.filled /\ filled <= order.filled
  <2>0. lifecycle.filled <= order.filled
    BY DEF IInv, AggregateHolds
  <2>1. CASE m.observed = None
    BY <1>5, <2>0, <2>1
  <2>2. CASE m.input = "RECORD_RECONCILIATION_RESULT"
    BY <1>3, <1>5, <2>0, <2>2 DEF MessageHolds, ResultHolds
  <2>3. CASE m.input \in {"OBSERVE_BROKER_ACKNOWLEDGEMENT",
                          "OBSERVE_BROKER_REJECTION"}
    <3>1. lifecycle.filled = 0
      BY <1>4, <2>3, LateRows DEF IInv, AggregateHolds
    <3> QED BY <1>5, <1>6, <2>0, <2>3, <3>1 DEF Observations, ReportHolds
  <2>4. CASE m.input \in {"OBSERVE_PARTIAL_FILL", "OBSERVE_FILL"}
    <3>1. m.observed >= lifecycle.filled
      BY <1>1, <2>4 DEF Guarded, FillAdmissible
    <3> QED BY <1>5, <1>6, <2>0, <2>4, <3>1 DEF Observations, ReportHolds
  <2>5. CASE m.input \in {"OBSERVE_CANCELLATION_CONFIRMATION",
                          "OBSERVE_REPLACEMENT_CONFIRMATION"}
    BY <1>5, <1>6, <2>0, <2>5 DEF Observations, ReportHolds
  <2>6. CASE m.input \in Commands
    BY <1>3, <2>1, <2>6 DEF MessageHolds
  <2> QED
    BY <1>7, <2>2, <2>3, <2>4, <2>5, <2>6 DEF Inputs, Observations
\* A result leads to a state to recover to.
<1>9. ASSUME m.input = "RECORD_RECONCILIATION_RESULT"
      PROVE  /\ destination \in RecoveryStates
             /\ destination \in {"FILLED", "CANCELLED", "BROKER_REJECTED"} =>
                  destination = m.destination
  BY <1>1, <1>4, <1>9, LateRows DEF Guarded, Destination
<1>10. m.input # "RECORD_RECONCILIATION_RESULT" =>
         destination = spec.destination
  BY DEF Destination
<1> HIDE DEF destination, filled
<1>11. destination \in Unanswered => filled = 0
  <2>1. CASE m.input = "RECORD_RECONCILIATION_RESULT"
    BY <1>9, <2>1 DEF RecoveryStates, Unanswered
  <2>2. CASE m.input # "RECORD_RECONCILIATION_RESULT"
    BY <1>3, <1>4, <1>5, <1>10, <2>2, EarlyRows
    DEF MessageHolds, IInv, AggregateHolds
  <2> QED BY <2>1, <2>2
<1>12. destination \in Unsent => order.status = "UNSENT"
  <2>1. CASE m.input = "RECORD_RECONCILIATION_RESULT"
    BY <1>9, <2>1 DEF RecoveryStates, Unsent
  <2>2. CASE m.input # "RECORD_RECONCILIATION_RESULT"
    BY <1>4, <1>10, <2>2, EarlyRows DEF IInv, AggregateHolds
  <2> QED BY <2>1, <2>2
<1>13. destination = "BROKER_REJECTED" => order.status = "REJECTED"
  <2>1. CASE m.input = "RECORD_RECONCILIATION_RESULT"
    BY <1>3, <1>9, <2>1 DEF MessageHolds, ResultHolds
  <2>2. CASE m.input # "RECORD_RECONCILIATION_RESULT"
    BY <1>4, <1>6, <1>10, <2>2, LateRows DEF ReportHolds, Observations
  <2> QED BY <2>1, <2>2
<1>14. ASSUME destination \in {"FILLED", "CANCELLED", "REPLACED"}
       PROVE  /\ order.status = destination
              /\ FillsReported => filled = order.filled
  <2>1. CASE m.input = "RECORD_RECONCILIATION_RESULT"
    BY <1>3, <1>5, <1>9, <1>14, <2>1
    DEF MessageHolds, ResultHolds, RecoveryStates
  <2>2. CASE m.input # "RECORD_RECONCILIATION_RESULT"
    <3>1. /\ destination = "FILLED" => m.input = "OBSERVE_FILL"
          /\ destination = "CANCELLED" =>
               m.input = "OBSERVE_CANCELLATION_CONFIRMATION"
          /\ destination = "REPLACED" =>
               m.input = "OBSERVE_REPLACEMENT_CONFIRMATION"
      BY <1>4, <1>10, <2>2, LateRows
    <3>2. m.input \in Observations
      BY <1>14, <3>1 DEF Observations
    <3> QED BY <1>5, <1>6, <1>14, <3>1, <3>2 DEF ReportHolds
  <2> QED BY <2>1, <2>2
<1>15. AggregateHolds'
  BY <1>2, <1>5, <1>8, <1>11, <1>12, <1>13, <1>14 DEF AggregateHolds
<1>16. (\A n \in messages : MessageHolds(n))'
  <2> SUFFICES ASSUME NEW n \in messages
               PROVE  MessageHolds(n)'
    BY <1>2
  <2>1. MessageHolds(n) /\ n \in Messages
    BY DEF IInv, TypeOK
  <2>2. /\ n.expected <= lifecycle'.revision
        /\ n.expected # lifecycle'.revision
    BY <1>5, <2>1 DEF MessageHolds, Messages
  <2> QED BY <1>2, <2>1, <2>2 DEF MessageHolds, ResultHolds
<1> QED BY <1>5, <1>8, <1>15, <1>16

\* Every step keeps the strengthened invariant.
LEMMA IInvStep ==
  ASSUME IInv, [Next]_vars
  PROVE  IInv'
<1>1. TypeOK'
  BY TypeStep DEF IInv
<1>2. CASE Broker
  <2>1. /\ UNCHANGED <<lifecycle, messages>>
        /\ order' \in [status : OrderStates, filled : Nat]
    BY <1>2, BrokerType DEF IInv
  <2>2. ASSUME NEW m \in messages
        PROVE  MessageHolds(m)'
    <3>1. MessageHolds(m) /\ m \in Messages
      BY DEF IInv, TypeOK
    <3>2. ResultHolds(m) => ResultHolds(m)'
      BY <1>2, <2>1, <3>1, BrokerStep
      DEF ResultHolds, IInv, TypeOK, Messages
    <3> QED BY <1>2, <2>1, <3>1, <3>2, BrokerStep DEF MessageHolds
  <2>3. AggregateHolds'
    BY <1>2, <2>1, BrokerStep
    DEF AggregateHolds, IInv, TypeOK, Aggregates, Unsent
  <2> QED BY <1>1, <1>2, <2>1, <2>2, <2>3, BrokerStep DEF IInv
<1>3. CASE Callers
  BY <1>1, <1>3, CallersStep, CallersLeaveTheRest
  DEF IInv, broker, OrderHolds, ReportHolds, AggregateHolds
<1>4. CASE UNCHANGED <<lifecycle, messages, order, reports>>
  BY <1>1, <1>4
  DEF IInv, OrderHolds, ReportHolds, MessageHolds, ResultHolds, AggregateHolds
<1>5. CASE Lifecycle
  <2>1. ASSUME NEW m \in messages, Accept(m)
        PROVE  IInv'
    <3>1. UNCHANGED <<order, reports>>
      BY <2>1 DEF Accept, Decide, broker
    <3> QED
      BY <1>1, <2>1, <3>1, AcceptStep DEF IInv, OrderHolds, ReportHolds
  <2> QED BY <1>4, <1>5, <2>1, Delivered DEF broker
<1> QED BY <1>2, <1>3, <1>4, <1>5 DEF Next, vars, broker

\* The strengthened invariant holds at first.
LEMMA IInvInit ==
  ASSUME Init
  PROVE  IInv
<1> USE BoundsAssumption
<1>1. /\ lifecycle.filled = 0
      /\ lifecycle.state \in {"CREATED", "DISPATCH_PENDING"}
      /\ order = [status |-> "UNSENT", filled |-> 0]
      /\ messages = {}
      /\ reports = {}
  BY DEF Init
<1> QED
  BY <1>1, TypeInit DEF IInv, OrderHolds, AggregateHolds, Unanswered, Unsent

\* What is under way is true of the broker, and the aggregate is not ahead of
\* it.
THEOREM IInvTheorem == Spec => []IInv
<1> QED BY IInvInit, IInvStep, PTL DEF Spec

\* The cumulative fill never falls, whichever input carries it and however
\* late it comes.
THEOREM FillsOnlyGrowTheorem == Spec => FillsOnlyGrow
<1>1. ASSUME IInv, [Next]_vars
      PROVE  [lifecycle'.filled >= lifecycle.filled]_vars
  <2>1. lifecycle' = lifecycle => lifecycle'.filled >= lifecycle.filled
    BY <1>1 DEF IInv, TypeOK, Aggregates
  <2> QED
    BY <1>1, <2>1, AcceptStep, BrokerType, CallersLeaveTheRest, Delivered
    DEF IInv, Next, vars
<1> QED BY <1>1, IInvTheorem, PTL DEF Spec, FillsOnlyGrow

\* Where callers state the fill of what they report, the aggregate follows
\* the broker.
THEOREM LocalFollowsBrokerTheorem ==
  ASSUME FillsReported
  PROVE  Spec => []LocalFollowsBroker
<1>1. IInv => LocalFollowsBroker
  <2> SUFFICES ASSUME IInv
               PROVE  LocalFollowsBroker
    OBVIOUS
  <2>1. /\ order.status = "FILLED" => order.filled = Quantity
        /\ order = [status |-> order.status, filled |-> order.filled]
    BY DEF IInv, OrderHolds, TypeOK
  <2> QED BY <2>1 DEF IInv, AggregateHolds, LocalFollowsBroker
<1> QED BY <1>1, IInvTheorem, PTL
=============================================================================
