-------------------------- MODULE PaperDryRunProofs --------------------------
(***************************************************************************)
(* What holds of PaperDryRun for all commands, policies, facts, lifecycles *)
(* and clocks: a rehearsal promises a dispatch exactly when every gate     *)
(* holds at once, and once for a result that is kept.                      *)
(***************************************************************************)
EXTENDS PaperDryRun, TLAPS

-----------------------------------------------------------------------------
(***************************************************************************)
(* The rows of the path.                                                   *)
(***************************************************************************)
LEMMA DestinationsTyped == \A row \in TransitionSpecs : row.destination \in States
<1>1. \A row \in PreDispatchSpecs : row.destination \in States
  BY DEF PreDispatchSpecs, Transition, States
<1>2. \A row \in BrokerSpecs : row.destination \in States
  BY DEF BrokerSpecs, Transition, States
<1>3. \A row \in RecoverySpecs : row.destination \in States
  BY DEF RecoverySpecs, Transition, States
<1> QED BY <1>1, <1>2, <1>3 DEF TransitionSpecs

\* The rows of an input lead from one state to another, and there is one.
Leads(input, from, to) ==
  /\ \A row \in TransitionSpecs :
         row.input = input => row.sources = {from} /\ row.destination = to
  /\ \E row \in TransitionSpecs : row.input = input /\ from \in row.sources

LEMMA PathLeads ==
  /\ Leads("RECORD_ELIGIBILITY", "CREATED", "ELIGIBILITY_EVALUATED")
  /\ Leads("RECORD_APPROVAL", "ELIGIBILITY_EVALUATED", "APPROVAL_CONFIRMED")
  /\ Leads("RECORD_IDEMPOTENCY_RESERVATION", "APPROVAL_CONFIRMED", "IDEMPOTENCY_RESERVED")
  /\ Leads("PREPARE_DISPATCH", "IDEMPOTENCY_RESERVED", "READY_FOR_DISPATCH")
<1>1. ASSUME NEW row \in TransitionSpecs
      PROVE  /\ row.input = "RECORD_ELIGIBILITY" =>
                    row.sources = {"CREATED"} /\ row.destination = "ELIGIBILITY_EVALUATED"
             /\ row.input = "RECORD_APPROVAL" =>
                    /\ row.sources = {"ELIGIBILITY_EVALUATED"}
                    /\ row.destination = "APPROVAL_CONFIRMED"
             /\ row.input = "RECORD_IDEMPOTENCY_RESERVATION" =>
                    /\ row.sources = {"APPROVAL_CONFIRMED"}
                    /\ row.destination = "IDEMPOTENCY_RESERVED"
             /\ row.input = "PREPARE_DISPATCH" =>
                    /\ row.sources = {"IDEMPOTENCY_RESERVED"}
                    /\ row.destination = "READY_FOR_DISPATCH"
  <2>1. CASE row \in PreDispatchSpecs
    BY <2>1 DEF PreDispatchSpecs, Transition
  <2>2. CASE row \in BrokerSpecs
    BY <2>2 DEF BrokerSpecs, Transition
  <2>3. CASE row \in RecoverySpecs
    BY <2>3 DEF RecoverySpecs, Transition
  <2> QED BY <1>1, <2>1, <2>2, <2>3 DEF TransitionSpecs
<1>2. /\ Transition("PX-TRN-002", {"CREATED"}, "RECORD_ELIGIBILITY",
                    "ELIGIBILITY_EVALUATED") \in TransitionSpecs
      /\ Transition("PX-TRN-005", {"ELIGIBILITY_EVALUATED"}, "RECORD_APPROVAL",
                    "APPROVAL_CONFIRMED") \in TransitionSpecs
      /\ Transition("PX-TRN-006", {"APPROVAL_CONFIRMED"}, "RECORD_IDEMPOTENCY_RESERVATION",
                    "IDEMPOTENCY_RESERVED") \in TransitionSpecs
      /\ Transition("PX-TRN-007", {"IDEMPOTENCY_RESERVED"}, "PREPARE_DISPATCH",
                    "READY_FOR_DISPATCH") \in TransitionSpecs
  BY DEF TransitionSpecs, PreDispatchSpecs
<1>3. \A id, sources, input, destination :
          /\ Transition(id, sources, input, destination).input = input
          /\ Transition(id, sources, input, destination).sources = sources
  BY DEF Transition
<1> QED BY <1>1, <1>2, <1>3 DEF Leads

-----------------------------------------------------------------------------
(***************************************************************************)
(* The walk.                                                               *)
(***************************************************************************)
RowIds == {row.id : row \in TransitionSpecs}

\* What the lifecycle does not reject has a row; what it rejects on facts has
\* its reason in them.
LEMMA Rejected ==
  ASSUME NEW lifecycle, NEW input, NEW decision, NEW facts
  PROVE  Rejection(lifecycle, input, decision, facts) = None
             <=> /\ facts.prior = None /\ facts.paper
                 /\ lifecycle.state \notin TerminalStates
                 /\ RowsFor(lifecycle, input) # {}
                 /\ GuardFailure(input, decision, facts) = None
<1>1. /\ None # "PAPER_MODE_NOT_CONFIRMED" /\ None # "TERMINAL_STATE"
      /\ None # "INVALID_LIFECYCLE_TRANSITION"
  BY NoneAssumption DEF Rejections
<1> QED BY <1>1 DEF Rejection

\* A step of a walk goes one revision on by a row, or stops for good.
LEMMA StepTyped ==
  ASSUME NEW walk, walk.lifecycle \in Lifecycles, walk.rows \in Seq(RowIds),
         NEW input, NEW decision, NEW facts
  PROVE  /\ Advanced(walk, input, decision, facts).lifecycle \in Lifecycles
         /\ Advanced(walk, input, decision, facts).rows \in Seq(RowIds)
<1> DEFINE rejection == Rejection(walk.lifecycle, input, decision, facts)
           row == CHOOSE row \in RowsFor(walk.lifecycle, input) : TRUE
           next == Advanced(walk, input, decision, facts)
<1>1. CASE walk.rejection # None
  BY <1>1 DEF Advanced
<1>2. CASE walk.rejection = None /\ rejection # None
  BY <1>2 DEF Advanced
<1>3. CASE walk.rejection = None /\ rejection = None
  <2>1. row \in RowsFor(walk.lifecycle, input)
    BY <1>3, Rejected
  <2>2. row \in TransitionSpecs
    BY <2>1 DEF RowsFor
  <2>3. row.destination \in States /\ row.id \in RowIds
    BY <2>2, DestinationsTyped DEF RowIds
  <2>4. next = [lifecycle |-> [state |-> row.destination,
                               revision |-> walk.lifecycle.revision + 1],
                rows |-> Append(walk.rows, row.id), rejection |-> None]
    BY <1>3 DEF Advanced
  <2> HIDE DEF row, next
  <2> QED BY <2>3, <2>4 DEF Lifecycles, next
<1> QED BY <1>1, <1>2, <1>3
\* An input whose rows lead from one state to another goes on from there alone.
LEMMA Stepped ==
  ASSUME NEW walk, "rejection" \in DOMAIN walk, NEW input, NEW from, NEW to, NEW facts,
         Leads(input, from, to), from \notin TerminalStates,
         NEW next, next = Advanced(walk, input, "ELIGIBLE", facts)
  PROVE  /\ "rejection" \in DOMAIN next
         /\ next.rejection = None
                <=> /\ walk.rejection = None
                    /\ facts.prior = None /\ facts.paper
                    /\ walk.lifecycle.state = from
                    /\ GuardFailure(input, "ELIGIBLE", facts) = None
         /\ next.rejection = None =>
                next.lifecycle = [state |-> to, revision |-> walk.lifecycle.revision + 1]
<1> DEFINE rejection == Rejection(walk.lifecycle, input, "ELIGIBLE", facts)
           row == CHOOSE row \in RowsFor(walk.lifecycle, input) : TRUE
<1>1. RowsFor(walk.lifecycle, input) # {} <=> walk.lifecycle.state = from
  BY DEF RowsFor, Leads
<1>2. rejection = None
          <=> /\ facts.prior = None /\ facts.paper
              /\ walk.lifecycle.state = from
              /\ GuardFailure(input, "ELIGIBLE", facts) = None
  BY <1>1, Rejected
<1>3. CASE walk.rejection # None
  BY <1>3 DEF Advanced
<1>4. CASE walk.rejection = None /\ rejection # None
  <2>1. next = [walk EXCEPT !.rejection = rejection]
    BY <1>4 DEF Advanced
  <2> QED BY <1>2, <1>4, <2>1
<1>5. CASE walk.rejection = None /\ rejection = None
  <2>1. row \in RowsFor(walk.lifecycle, input)
    BY <1>1, <1>2, <1>5
  <2>2. row.destination = to
    BY <2>1 DEF RowsFor, Leads
  <2>3. next = [lifecycle |-> [state |-> row.destination,
                               revision |-> walk.lifecycle.revision + 1],
                rows |-> Append(walk.rows, row.id), rejection |-> None]
    BY <1>5 DEF Advanced
  <2> HIDE DEF row
  <2> QED BY <1>2, <1>5, <2>2, <2>3
<1> QED BY <1>3, <1>4, <1>5

\* What the guards of the path wait for.
LEMMA Guards ==
  ASSUME NEW facts, WellFormedFacts(facts)
  PROVE  /\ GuardFailure("RECORD_ELIGIBILITY", "ELIGIBLE", facts) = None
         /\ GuardFailure("RECORD_APPROVAL", "ELIGIBLE", facts) = None <=> facts.approval
         /\ GuardFailure("RECORD_IDEMPOTENCY_RESERVATION", "ELIGIBLE", facts) = None
                <=> facts.reserved
         /\ GuardFailure("PREPARE_DISPATCH", "ELIGIBLE", facts) = None
                <=> facts.clearance /\ facts.prerequisites
<1>1. /\ None # "APPROVAL_INVALID" /\ None # "IDEMPOTENCY_NOT_CONFIRMED"
      /\ None # "EMERGENCY_STOP_ACTIVE" /\ None # "EXTERNAL_PREREQUISITES_NOT_SATISFIED"
  BY NoneAssumption DEF Rejections
<1>2. GuardFailure("RECORD_ELIGIBILITY", "ELIGIBLE", facts) = None
  BY Zenon DEF GuardFailure
<1>3. GuardFailure("RECORD_APPROVAL", "ELIGIBLE", facts)
          = IF facts.approval THEN None ELSE "APPROVAL_INVALID"
  BY Zenon DEF GuardFailure
<1>4. GuardFailure("RECORD_IDEMPOTENCY_RESERVATION", "ELIGIBLE", facts)
          = IF facts.reserved THEN None ELSE "IDEMPOTENCY_NOT_CONFIRMED"
  BY Zenon DEF GuardFailure
<1>5. GuardFailure("PREPARE_DISPATCH", "ELIGIBLE", facts)
          \in IF facts.clearance /\ facts.prerequisites THEN {None}
              ELSE {"EMERGENCY_STOP_ACTIVE", "EXTERNAL_PREREQUISITES_NOT_SATISFIED"}
  BY Zenon DEF GuardFailure
<1> QED BY <1>1, <1>2, <1>3, <1>4, <1>5

\* The walk reaches its end exactly if it starts at the creation and every fact
\* is there, and then it ends ready for dispatch, four revisions on.
LEMMA WalkEnds ==
  ASSUME NEW lifecycle \in Lifecycles, NEW facts, WellFormedFacts(facts),
         NEW walk, walk = Walk(lifecycle, facts)
  PROVE  /\ walk.rejection = None
                <=> /\ facts.prior = None /\ facts.paper
                    /\ lifecycle.state = "CREATED"
                    /\ facts.approval /\ facts.reserved
                    /\ facts.clearance /\ facts.prerequisites
         /\ walk.rejection = None =>
                walk.lifecycle = [state |-> "READY_FOR_DISPATCH",
                                  revision |-> lifecycle.revision + 4]
         /\ walk.lifecycle \in Lifecycles
         /\ walk.rows \in Seq(RowIds)
<1> DEFINE walk0 == Standing(lifecycle)
           walk1 == Advanced(walk0, "RECORD_ELIGIBILITY", "ELIGIBLE", facts)
           walk2 == Advanced(walk1, "RECORD_APPROVAL", "ELIGIBLE", facts)
           walk3 == Advanced(walk2, "RECORD_IDEMPOTENCY_RESERVATION", "ELIGIBLE", facts)
           walk4 == Advanced(walk3, "PREPARE_DISPATCH", "ELIGIBLE", facts)
<1>1. walk = walk4
  BY DEF Walk, Path
<1>2. /\ walk0.rejection = None /\ "rejection" \in DOMAIN walk0
      /\ walk0.lifecycle = lifecycle /\ walk0.rows \in Seq(RowIds)
  BY DEF Standing
<1>3. /\ "CREATED" \notin TerminalStates /\ "ELIGIBILITY_EVALUATED" \notin TerminalStates
      /\ "APPROVAL_CONFIRMED" \notin TerminalStates
      /\ "IDEMPOTENCY_RESERVED" \notin TerminalStates
  BY DEF TerminalStates
<1> HIDE DEF walk0
<1>4. /\ "rejection" \in DOMAIN walk1
      /\ walk1.rejection = None
            <=> /\ facts.prior = None /\ facts.paper
                /\ lifecycle.state = "CREATED"
      /\ walk1.rejection = None =>
            walk1.lifecycle = [state |-> "ELIGIBILITY_EVALUATED",
                               revision |-> lifecycle.revision + 1]
  <2>1. GuardFailure("RECORD_ELIGIBILITY", "ELIGIBLE", facts) = None
    BY Guards
  <2>2. Leads("RECORD_ELIGIBILITY", "CREATED", "ELIGIBILITY_EVALUATED")
    BY PathLeads
  <2>3. walk1 = Advanced(walk0, "RECORD_ELIGIBILITY", "ELIGIBLE", facts)
    OBVIOUS
  <2> HIDE DEF walk1
  <2> QED BY <1>2, <1>3, <2>1, <2>2, <2>3, Stepped
<1>5. walk1.lifecycle \in Lifecycles /\ walk1.rows \in Seq(RowIds)
  BY <1>2, StepTyped
<1> HIDE DEF walk1
<1>6. /\ "rejection" \in DOMAIN walk2
      /\ walk2.rejection = None <=> walk1.rejection = None /\ facts.approval
      /\ walk2.rejection = None =>
            walk2.lifecycle = [state |-> "APPROVAL_CONFIRMED",
                               revision |-> walk1.lifecycle.revision + 1]
  <2>1. GuardFailure("RECORD_APPROVAL", "ELIGIBLE", facts) = None <=> facts.approval
    BY Guards
  <2>2. walk1.rejection = None => walk1.lifecycle.state = "ELIGIBILITY_EVALUATED"
    BY <1>4
  <2>3. /\ "rejection" \in DOMAIN walk2
        /\ walk2.rejection = None
              <=> /\ walk1.rejection = None
                  /\ facts.prior = None /\ facts.paper
                  /\ walk1.lifecycle.state = "ELIGIBILITY_EVALUATED"
                  /\ GuardFailure("RECORD_APPROVAL", "ELIGIBLE", facts) = None
        /\ walk2.rejection = None =>
              walk2.lifecycle = [state |-> "APPROVAL_CONFIRMED",
                                 revision |-> walk1.lifecycle.revision + 1]
    <3>1. Leads("RECORD_APPROVAL", "ELIGIBILITY_EVALUATED", "APPROVAL_CONFIRMED")
      BY PathLeads
    <3>2. walk2 = Advanced(walk1, "RECORD_APPROVAL", "ELIGIBLE", facts)
      OBVIOUS
    <3> HIDE DEF walk2
    <3> QED BY <1>3, <1>4, <3>1, <3>2, Stepped
  <2> QED BY <1>4, <2>1, <2>2, <2>3
<1>7. walk2.lifecycle \in Lifecycles /\ walk2.rows \in Seq(RowIds)
  BY <1>5, StepTyped
<1> HIDE DEF walk2
<1>8. /\ "rejection" \in DOMAIN walk3
      /\ walk3.rejection = None <=> walk2.rejection = None /\ facts.reserved
      /\ walk3.rejection = None =>
            walk3.lifecycle = [state |-> "IDEMPOTENCY_RESERVED",
                               revision |-> walk2.lifecycle.revision + 1]
  <2>1. GuardFailure("RECORD_IDEMPOTENCY_RESERVATION", "ELIGIBLE", facts) = None
            <=> facts.reserved
    BY Guards
  <2>2. walk2.rejection = None => walk2.lifecycle.state = "APPROVAL_CONFIRMED"
    BY <1>6
  <2>3. /\ "rejection" \in DOMAIN walk3
        /\ walk3.rejection = None
              <=> /\ walk2.rejection = None
                  /\ facts.prior = None /\ facts.paper
                  /\ walk2.lifecycle.state = "APPROVAL_CONFIRMED"
                  /\ GuardFailure("RECORD_IDEMPOTENCY_RESERVATION", "ELIGIBLE", facts) = None
        /\ walk3.rejection = None =>
              walk3.lifecycle = [state |-> "IDEMPOTENCY_RESERVED",
                                 revision |-> walk2.lifecycle.revision + 1]
    <3>1. Leads("RECORD_IDEMPOTENCY_RESERVATION", "APPROVAL_CONFIRMED", "IDEMPOTENCY_RESERVED")
      BY PathLeads
    <3>2. walk3 = Advanced(walk2, "RECORD_IDEMPOTENCY_RESERVATION", "ELIGIBLE", facts)
      OBVIOUS
    <3> HIDE DEF walk3
    <3> QED BY <1>3, <1>6, <3>1, <3>2, Stepped
  <2> QED BY <1>4, <1>6, <2>1, <2>2, <2>3
<1>9. walk3.lifecycle \in Lifecycles /\ walk3.rows \in Seq(RowIds)
  BY <1>7, StepTyped
<1> HIDE DEF walk3
<1>10. /\ walk4.rejection = None
             <=> walk3.rejection = None /\ facts.clearance /\ facts.prerequisites
       /\ walk4.rejection = None =>
             walk4.lifecycle = [state |-> "READY_FOR_DISPATCH",
                                revision |-> walk3.lifecycle.revision + 1]
  <2>1. GuardFailure("PREPARE_DISPATCH", "ELIGIBLE", facts) = None
            <=> facts.clearance /\ facts.prerequisites
    BY Guards
  <2>2. walk3.rejection = None => walk3.lifecycle.state = "IDEMPOTENCY_RESERVED"
    BY <1>8
  <2>3. /\ walk4.rejection = None
              <=> /\ walk3.rejection = None
                  /\ facts.prior = None /\ facts.paper
                  /\ walk3.lifecycle.state = "IDEMPOTENCY_RESERVED"
                  /\ GuardFailure("PREPARE_DISPATCH", "ELIGIBLE", facts) = None
        /\ walk4.rejection = None =>
              walk4.lifecycle = [state |-> "READY_FOR_DISPATCH",
                                 revision |-> walk3.lifecycle.revision + 1]
    <3>1. Leads("PREPARE_DISPATCH", "IDEMPOTENCY_RESERVED", "READY_FOR_DISPATCH")
      BY PathLeads
    <3>2. walk4 = Advanced(walk3, "PREPARE_DISPATCH", "ELIGIBLE", facts)
      OBVIOUS
    <3> HIDE DEF walk4
    <3> QED BY <1>3, <1>8, <3>1, <3>2, Stepped
  <2> QED BY <1>4, <1>6, <1>8, <2>1, <2>2, <2>3
<1>11. walk4.lifecycle \in Lifecycles /\ walk4.rows \in Seq(RowIds)
  BY <1>9, StepTyped
<1> HIDE DEF walk4
<1>12. walk4.rejection = None =>
           walk4.lifecycle = [state |-> "READY_FOR_DISPATCH", revision |-> lifecycle.revision + 4]
  <2>1. lifecycle.revision \in Nat
    BY DEF Lifecycles
  <2> QED BY <1>4, <1>6, <1>8, <1>10, <2>1
<1> QED BY <1>1, <1>4, <1>6, <1>8, <1>10, <1>11, <1>12

-----------------------------------------------------------------------------
(***************************************************************************)
(* The decision.                                                           *)
(***************************************************************************)
\* Every gate of a policy at once.
Cleared(command, policy, at) ==
    /\ command.operation \in policy.operations
    /\ policy.external = {} /\ ~ policy.keyConsistency
    /\ policy.initialRevision => command.operation # "SUBMIT" \/ command.revision = 0
    /\ policy.binding => command.bound \in Bindings(command)
    /\ policy.unexpired => command.from <= at
                           /\ (command.until = None \/ at < command.until)
    /\ policy.snapshot => command.operation \in command.snapshot.operations
                          /\ policy.required \subseteq command.snapshot.required

LEMMA Decided ==
  ASSUME NEW command, NEW policy, NEW at
  PROVE  Evaluate(command, policy, at) \in Decisions
BY DEF Evaluate, Decision, Decisions

\* The decision is eligibility exactly if no criterion fails or stays open.
LEMMA AllPass ==
  ASSUME NEW command, NEW policy, WellFormedPolicy(policy), NEW at \in Nat
  PROVE  Evaluate(command, policy, at) = "ELIGIBLE" <=> Cleared(command, policy, at)
<1> DEFINE c == Criteria(command, policy, at)
<1>1. /\ c.OPERATION_ALLOWED = OperationAllowed(command, policy)
      /\ c.OPERATION_REVISION_COMPATIBLE = OperationRevision(command, policy)
      /\ c.APPROVAL_BINDING_VALID = ApprovalBinding(command, policy)
      /\ c.APPROVAL_TIME_VALID = ApprovalTime(command, policy, at)
      /\ c.POLICY_SNAPSHOT_COMPATIBLE = PolicySnapshot(command, policy)
      /\ c.IDEMPOTENCY_KEY_CONSISTENT = IdempotencyConsistency(policy)
      /\ c.EXTERNAL_MARKET_CAPABILITY_STATUS = External("market", policy)
      /\ c.EXTERNAL_EMERGENCY_STOP_STATUS = External("emergencyStop", policy)
      /\ c.EXTERNAL_RISK_STATUS = External("risk", policy)
      /\ c.EXTERNAL_ACCOUNT_STATUS = External("account", policy)
      /\ DOMAIN c = {"OPERATION_ALLOWED", "OPERATION_REVISION_COMPATIBLE",
                     "APPROVAL_BINDING_VALID", "APPROVAL_TIME_VALID",
                     "POLICY_SNAPSHOT_COMPATIBLE", "IDEMPOTENCY_KEY_CONSISTENT",
                     "EXTERNAL_MARKET_CAPABILITY_STATUS", "EXTERNAL_EMERGENCY_STOP_STATUS",
                     "EXTERNAL_RISK_STATUS", "EXTERNAL_ACCOUNT_STATUS"}
  BY DEF Criteria
<1>2. Evaluate(command, policy, at) = Decision(c)
  BY DEF Evaluate
<1> HIDE DEF c
<1>3. Decision(c) = "ELIGIBLE" <=> \A x \in DOMAIN c : c[x] # "FAIL" /\ c[x] # "UNRESOLVED"
  BY DEF Decision, Range
<1>4. at # None
  BY NoneAssumption
<1> DEFINE Good(x) == x # "FAIL" /\ x # "UNRESOLVED"
<1>5. Good(OperationAllowed(command, policy)) <=> command.operation \in policy.operations
  BY DEF OperationAllowed, Passes
<1>6. Good(OperationRevision(command, policy))
          <=> (policy.initialRevision => command.operation # "SUBMIT" \/ command.revision = 0)
  BY DEF OperationRevision, Passes
<1>7. Good(ApprovalBinding(command, policy))
          <=> (policy.binding => command.bound \in Bindings(command))
  BY DEF ApprovalBinding, Passes
<1>8. Good(ApprovalTime(command, policy, at))
          <=> (policy.unexpired => command.from <= at
                                   /\ (command.until = None \/ at < command.until))
  BY <1>4, Zenon DEF ApprovalTime, Passes
<1>9. Good(PolicySnapshot(command, policy))
           <=> (policy.snapshot => command.operation \in command.snapshot.operations
                                   /\ policy.required \subseteq command.snapshot.required)
  BY DEF PolicySnapshot, Passes
<1>10. Good(IdempotencyConsistency(policy)) <=> ~ policy.keyConsistency
  BY DEF IdempotencyConsistency, Resolved
<1>11. /\ Good(External("market", policy)) <=> "market" \notin policy.external
       /\ Good(External("emergencyStop", policy)) <=> "emergencyStop" \notin policy.external
       /\ Good(External("risk", policy)) <=> "risk" \notin policy.external
       /\ Good(External("account", policy)) <=> "account" \notin policy.external
  BY DEF External, Resolved
<1>12. policy.external = {} <=> /\ "market" \notin policy.external
                                /\ "emergencyStop" \notin policy.external
                                /\ "risk" \notin policy.external
                                /\ "account" \notin policy.external
  BY DEF WellFormedPolicy, ExternalClearances
<1>13. Decision(c) = "ELIGIBLE"
           <=> /\ Good(OperationAllowed(command, policy))
               /\ Good(OperationRevision(command, policy))
               /\ Good(ApprovalBinding(command, policy))
               /\ Good(ApprovalTime(command, policy, at))
               /\ Good(PolicySnapshot(command, policy))
               /\ Good(IdempotencyConsistency(policy))
               /\ Good(External("market", policy))
               /\ Good(External("emergencyStop", policy))
               /\ Good(External("risk", policy))
               /\ Good(External("account", policy))
  <2>1. Decision(c) = "ELIGIBLE" <=> \A x \in DOMAIN c : Good(c[x])
    BY <1>3
  <2> HIDE DEF Good
  <2> QED BY <1>1, <2>1
<1> HIDE DEF Good
<1> QED BY <1>2, <1>5, <1>6, <1>7, <1>8, <1>9, <1>10, <1>11, <1>12, <1>13 DEF Cleared

-----------------------------------------------------------------------------
(***************************************************************************)
(* What execute answers.                                                   *)
(***************************************************************************)
LEMMA ResultTyped ==
  ASSUME NEW request \in Requests, NEW outcome \in Outcomes,
         NEW failure \in Failures \cup {None}, NEW eligibility \in Decisions \cup {None},
         NEW final \in Lifecycles, NEW rows \in Seq(RowIds)
  PROVE  Result(request, outcome, failure, eligibility, final, rows) \in Results
BY DEF Result, Results, RowIds

LEMMA ResultFields ==
  ASSUME NEW request, NEW outcome, NEW failure, NEW eligibility, NEW final, NEW rows
  PROVE  /\ Result(request, outcome, failure, eligibility, final, rows).request = request
         /\ Result(request, outcome, failure, eligibility, final, rows).outcome = outcome
         /\ Result(request, outcome, failure, eligibility, final, rows).final = final
BY DEF Result

\* A request that presents an earlier result is answered by it, and not by a
\* dispatch.
LEMMA PresentedAnswers ==
  ASSUME NEW request \in Requests, NEW prior \in Results
  PROVE  /\ Execute(request, prior) \in Results
         /\ Execute(request, prior).request = request
         /\ Execute(request, prior).outcome # "WOULD_DISPATCH"
<1> DEFINE earlier == ReplayOrConflict(request, prior)
<1>1. prior # None /\ prior.eligibility \in Decisions \cup {None}
      /\ request.lifecycle \in Lifecycles
  BY NoneAssumption DEF Results, Requests
<1>2. /\ << >> \in Seq(RowIds)
      /\ "NO_ACTION_REPLAY" \in Outcomes /\ "WOULD_REJECT" \in Outcomes
      /\ "COMMAND_CONFLICT" \in Failures
      /\ "NO_ACTION_REPLAY" # "WOULD_DISPATCH" /\ "WOULD_REJECT" # "WOULD_DISPATCH"
  BY DEF Outcomes, Failures
<1>3. \/ earlier = Result(request, "NO_ACTION_REPLAY", None, prior.eligibility,
                          request.lifecycle, << >>)
      \/ earlier = Result(request, "WOULD_REJECT", "COMMAND_CONFLICT", None,
                          request.lifecycle, << >>)
  BY <1>1 DEF ReplayOrConflict, Receipt, Failed
<1>4. /\ earlier \in Results /\ earlier.request = request
      /\ earlier.outcome # "WOULD_DISPATCH"
  <2> HIDE DEF earlier
  <2>1. /\ Result(request, "NO_ACTION_REPLAY", None, prior.eligibility,
                  request.lifecycle, << >>) \in Results
        /\ Result(request, "WOULD_REJECT", "COMMAND_CONFLICT", None,
                  request.lifecycle, << >>) \in Results
    BY <1>1, <1>2, ResultTyped
  <2> QED BY <1>2, <1>3, <2>1, ResultFields
<1>5. earlier # None
  BY <1>4, NoneAssumption
<1>6. Execute(request, prior) = earlier
  BY <1>5, Zenon DEF Execute
<1> QED BY <1>4, <1>6

\* An eligible request walks the path: it dispatches if the walk reaches the
\* end, and is rejected where it stopped.
LEMMA EligibleAnswers ==
  ASSUME NEW request \in Requests, WellFormedFacts(request.facts)
  PROVE  /\ Eligible(request) \in Results
         /\ Eligible(request).request = request
         /\ Eligible(request).outcome = "WOULD_DISPATCH"
                <=> Walk(request.lifecycle, request.facts).rejection = None
         /\ Eligible(request).outcome = "WOULD_DISPATCH" =>
                Eligible(request).final = [state |-> "READY_FOR_DISPATCH",
                                           revision |-> request.lifecycle.revision + 4]
<1> DEFINE walk == Walk(request.lifecycle, request.facts)
           answer == Eligible(request)
           failure == FailureReason(walk.rejection)
<1>1. request.lifecycle \in Lifecycles
  BY DEF Requests
<1>2. /\ walk.lifecycle \in Lifecycles
      /\ walk.rows \in Seq(RowIds)
      /\ walk.rejection = None =>
             walk.lifecycle = [state |-> "READY_FOR_DISPATCH",
                               revision |-> request.lifecycle.revision + 4]
  <2>1. walk = Walk(request.lifecycle, request.facts)
    OBVIOUS
  <2> HIDE DEF walk
  <2> QED BY <1>1, <2>1, WalkEnds
<1>3. CASE walk.rejection = None
  <2>1. answer = Result(request, "WOULD_DISPATCH", None, "ELIGIBLE", walk.lifecycle, walk.rows)
    BY <1>3 DEF Eligible, Receipt
  <2> HIDE DEF walk, answer
  <2>2. /\ answer \in Results /\ answer.request = request
        /\ answer.outcome = "WOULD_DISPATCH" /\ answer.final = walk.lifecycle
    <3>1. "WOULD_DISPATCH" \in Outcomes /\ "ELIGIBLE" \in Decisions
      BY DEF Outcomes, Decisions
    <3>2. answer \in Results
      BY <1>2, <2>1, <3>1, ResultTyped
    <3> QED BY <2>1, <3>2, ResultFields
  <2> QED BY <1>2, <1>3, <2>2 DEF walk, answer
<1>4. CASE walk.rejection # None
  <2>1. failure \in Failures
    <3>1. failure \in {"COMMAND_CONFLICT", "IDEMPOTENCY_CONFLICT", "EXTERNAL_EVIDENCE_REQUIRED",
                       "LIFECYCLE_TRANSITION_REJECTED"}
      BY Zenon DEF FailureReason
    <3> QED BY <3>1 DEF Failures
  <2>2. \E outcome \in {"WOULD_REQUIRE_EXTERNAL_EVIDENCE", "WOULD_REJECT"} :
            answer = Result(request, outcome, failure, "ELIGIBLE", walk.lifecycle, << >>)
    BY <1>4 DEF Eligible, LifecycleRejection, Failed
  <2> HIDE DEF walk, answer, failure
  <2>3. /\ << >> \in Seq(RowIds) /\ "ELIGIBLE" \in Decisions
        /\ {"WOULD_REQUIRE_EXTERNAL_EVIDENCE", "WOULD_REJECT"}
               \subseteq Outcomes \ {"WOULD_DISPATCH"}
    BY DEF Outcomes, Decisions
  <2>4. /\ answer \in Results /\ answer.request = request
        /\ answer.outcome # "WOULD_DISPATCH"
    <3>1. PICK outcome \in {"WOULD_REQUIRE_EXTERNAL_EVIDENCE", "WOULD_REJECT"} :
              answer = Result(request, outcome, failure, "ELIGIBLE", walk.lifecycle, << >>)
      BY <2>2
    <3>2. answer \in Results
      BY <1>2, <2>1, <2>3, <3>1, ResultTyped
    <3> QED BY <2>3, <3>1, <3>2, ResultFields
  <2> QED BY <1>4, <2>4 DEF walk, answer
<1> QED BY <1>3, <1>4

\* A request that is not eligible is never a dispatch.
LEMMA OtherAnswers ==
  ASSUME NEW request \in Requests
  PROVE  /\ Ineligible(request) \in Results
         /\ Ineligible(request).request = request
         /\ Ineligible(request).outcome # "WOULD_DISPATCH"
         /\ Indeterminate(request) \in Results
         /\ Indeterminate(request).request = request
         /\ Indeterminate(request).outcome # "WOULD_DISPATCH"
<1>1. request.lifecycle \in Lifecycles
  BY DEF Requests
<1>2. ASSUME NEW input, NEW decision
      PROVE  /\ EligibilityRecorded(request, input, decision).lifecycle \in Lifecycles
             /\ EligibilityRecorded(request, input, decision).rows \in Seq(RowIds)
  <2> DEFINE before == Standing(request.lifecycle)
  <2>1. before.lifecycle \in Lifecycles /\ before.rows \in Seq(RowIds)
    BY <1>1 DEF Standing
  <2> HIDE DEF before
  <2>2. /\ Advanced(before, input, decision, request.facts).lifecycle \in Lifecycles
        /\ Advanced(before, input, decision, request.facts).rows \in Seq(RowIds)
    BY <2>1, StepTyped
  <2>3. EligibilityRecorded(request, input, decision)
            \in {before, Advanced(before, input, decision, request.facts)}
    BY DEF EligibilityRecorded, before
  <2> QED BY <2>1, <2>2, <2>3
<1>3. /\ {"WOULD_REJECT", "WOULD_REQUIRE_EXTERNAL_EVIDENCE"} \subseteq Outcomes \ {"WOULD_DISPATCH"}
      /\ {"COMMAND_INELIGIBLE", "EXTERNAL_EVIDENCE_REQUIRED"} \subseteq Failures
      /\ {"INELIGIBLE", "INDETERMINATE"} \subseteq Decisions
  BY DEF Outcomes, Failures, Decisions
<1>4. PICK walk : /\ walk.lifecycle \in Lifecycles /\ walk.rows \in Seq(RowIds)
                  /\ Ineligible(request) = Result(request, "WOULD_REJECT", "COMMAND_INELIGIBLE",
                                                  "INELIGIBLE", walk.lifecycle, walk.rows)
  BY <1>2 DEF Ineligible
<1>5. PICK track : /\ track.lifecycle \in Lifecycles /\ track.rows \in Seq(RowIds)
                  /\ Indeterminate(request) =
                         Result(request, "WOULD_REQUIRE_EXTERNAL_EVIDENCE",
                                "EXTERNAL_EVIDENCE_REQUIRED", "INDETERMINATE",
                                track.lifecycle, track.rows)
  BY <1>2 DEF Indeterminate
<1>6. Ineligible(request) \in Results /\ Indeterminate(request) \in Results
  BY <1>3, <1>4, <1>5, ResultTyped
<1> QED BY <1>3, <1>4, <1>5, <1>6, ResultFields

\* A fresh request is told that it would dispatch exactly if every gate holds.
LEMMA FreshAnswers ==
  ASSUME NEW request \in Requests,
         NEW answer, answer = Execute(request, None)
  PROVE  /\ answer \in Results
         /\ answer.request = request
         /\ answer.outcome = "WOULD_DISPATCH" <=> Earned(request)
         /\ answer.outcome = "WOULD_DISPATCH" =>
                answer.final = [state |-> "READY_FOR_DISPATCH",
                                revision |-> request.lifecycle.revision + 4]
<1> DEFINE decision == Evaluate(request.command, request.policy, request.at)
           stale == Result(request, "WOULD_REJECT", "STALE_REVISION", None,
                           request.lifecycle, << >>)
           unknown == Result(request, "WOULD_REQUIRE_RECONCILIATION",
                             "RECONCILIATION_REQUIRED", None, request.lifecycle, << >>)
<1>1. /\ request.lifecycle \in Lifecycles /\ request.at \in Nat
      /\ WellFormedFacts(request.facts) /\ WellFormedPolicy(request.policy)
  BY DryRunAssumption DEF Requests
<1>2. request.facts.current \in BOOLEAN
  BY <1>1 DEF WellFormedFacts
<1>3. ReplayOrConflict(request, None) = None
  BY DEF ReplayOrConflict
<1>4. decision = "ELIGIBLE" <=> Cleared(request.command, request.policy, request.at)
  BY <1>1, AllPass
<1>5. Earned(request)
          <=> /\ request.facts.current
              /\ decision = "ELIGIBLE"
              /\ Walk(request.lifecycle, request.facts).rejection = None
  <2>1. Walk(request.lifecycle, request.facts).rejection = None
            <=> /\ request.facts.prior = None /\ request.facts.paper
                /\ request.lifecycle.state = "CREATED"
                /\ request.facts.approval /\ request.facts.reserved
                /\ request.facts.clearance /\ request.facts.prerequisites
    BY <1>1, WalkEnds
  <2> HIDE DEF decision
  <2> QED BY <1>4, <2>1, Zenon DEF Earned, Cleared
<1>6. CASE ~ request.facts.current
  <2>1. answer = stale
    BY <1>3, <1>6, Zenon DEF Execute, Failed
  <2>2. /\ "WOULD_REJECT" \in Outcomes /\ "WOULD_REJECT" # "WOULD_DISPATCH"
        /\ "STALE_REVISION" \in Failures /\ << >> \in Seq(RowIds)
    BY DEF Outcomes, Failures
  <2>3. stale \in Results
    BY <1>1, <2>2, ResultTyped
  <2>4. stale.request = request /\ stale.outcome = "WOULD_REJECT"
    BY ResultFields
  <2> HIDE DEF stale
  <2> QED BY <1>5, <1>6, <2>1, <2>2, <2>3, <2>4
<1>7. CASE /\ request.facts.current
           /\ request.lifecycle.state \in {"OUTCOME_UNKNOWN", "RECONCILIATION_REQUIRED"}
  <2>1. answer = unknown
    BY <1>3, <1>7, Zenon DEF Execute, Failed
  <2>2. /\ "WOULD_REQUIRE_RECONCILIATION" \in Outcomes
        /\ "WOULD_REQUIRE_RECONCILIATION" # "WOULD_DISPATCH"
        /\ "RECONCILIATION_REQUIRED" \in Failures /\ << >> \in Seq(RowIds)
    BY DEF Outcomes, Failures
  <2>3. unknown \in Results
    BY <1>1, <2>2, ResultTyped
  <2>4. unknown.request = request /\ unknown.outcome = "WOULD_REQUIRE_RECONCILIATION"
    BY ResultFields
  <2>5. ~ Earned(request)
    BY <1>7 DEF Earned
  <2> HIDE DEF unknown
  <2> QED BY <2>1, <2>2, <2>3, <2>4, <2>5
<1>8. CASE /\ request.facts.current
           /\ request.lifecycle.state \notin {"OUTCOME_UNKNOWN", "RECONCILIATION_REQUIRED"}
  <2>1. answer = CASE decision = "INELIGIBLE" -> Ineligible(request)
                   [] decision = "INDETERMINATE" -> Indeterminate(request)
                   [] decision = "ELIGIBLE" -> Eligible(request)
    BY <1>3, <1>8, Zenon DEF Execute
  <2>2. decision \in {"ELIGIBLE", "INELIGIBLE", "INDETERMINATE"}
    BY Decided DEF Decisions
  <2> HIDE DEF decision
  <2>3. CASE decision = "INELIGIBLE"
    <3>1. answer = Ineligible(request) /\ decision # "ELIGIBLE"
      BY <2>1, <2>3
    <3> QED BY <1>5, <3>1, OtherAnswers
  <2>4. CASE decision = "INDETERMINATE"
    <3>1. answer = Indeterminate(request) /\ decision # "ELIGIBLE"
      BY <2>1, <2>4
    <3> QED BY <1>5, <3>1, OtherAnswers
  <2>5. CASE decision = "ELIGIBLE"
    <3>1. answer = Eligible(request)
      BY <2>1, <2>5
    <3> QED BY <1>1, <1>5, <1>8, <2>5, <3>1, EligibleAnswers
  <2> QED BY <2>2, <2>3, <2>4, <2>5
<1> QED BY <1>2, <1>6, <1>7, <1>8

-----------------------------------------------------------------------------
(***************************************************************************)
(* The caller.                                                             *)
(***************************************************************************)
LEMMA InitInv == Init => IInv
<1> SUFFICES ASSUME Init PROVE IInv
  OBVIOUS
<1>1. TypeOK
  BY DryRunAssumption DEF Init, TypeOK, Lifecycles, States
<1> QED BY <1>1 DEF Init, IInv, DispatchIsEarned, DispatchedOnce

\* The claim of a dispatch would take the approval of what is earned.
LEMMA EarnedIsTaken ==
  ASSUME NEW request \in Requests, Earned(request), request.policy.unexpired
  PROVE  ClaimTakesApproval(request)
<1>1. WellFormedApproval(request.command) /\ request.at \in Nat
  BY DryRunAssumption DEF Requests, WellFormedCommand
<1> QED BY <1>1 DEF Earned, ClaimTakesApproval, WellFormedApproval

LEMMA RehearseKeeps == ASSUME IInv, Rehearse PROVE IInv'
<1>1. TypeOK /\ DispatchedOnce /\ (kept = None => dispatched = 0)
  BY DEF IInv
<1>2. PICK policy \in Policies, facts \in FactSets :
          kept' = Execute(Request(rehearsed, policy, facts, clock, held), kept)
  BY DEF Rehearse
<1> DEFINE request == Request(rehearsed, policy, facts, clock, held)
<1>3. request \in Requests
  BY <1>1 DEF TypeOK, Request, Requests
<1> HIDE DEF request
<1>4. /\ given' = IF kept = None THEN "fresh" ELSE "presented"
      /\ dispatched' = IF kept'.outcome = "WOULD_DISPATCH" THEN dispatched + 1 ELSE dispatched
      /\ UNCHANGED <<rehearsed, clock, held>>
      /\ kept' = Execute(request, kept)
  BY <1>2 DEF Rehearse, request
<1>5. CASE kept = None
  <2>1. /\ kept' \in Results /\ kept'.request = request
        /\ kept'.outcome = "WOULD_DISPATCH" <=> Earned(request)
        /\ kept'.outcome = "WOULD_DISPATCH" =>
               kept'.final = [state |-> "READY_FOR_DISPATCH",
                              revision |-> request.lifecycle.revision + 4]
    BY <1>3, <1>4, <1>5, FreshAnswers
  <2>2. kept' # None
    BY <2>1, NoneAssumption
  <2>3. dispatched = 0 /\ given' = "fresh"
    BY <1>1, <1>4, <1>5
  <2>4. DispatchIsEarned'
    <3>1. Len(Path) = 4
      BY DEF Path
    <3> QED BY <1>3, <2>1, <2>3, <3>1, EarnedIsTaken DEF DispatchIsEarned
  <2>5. dispatched' \in {0, 1}
    BY <1>4, <2>3
  <2>6. TypeOK'
    BY <1>1, <1>4, <2>1, <2>2, <2>3, <2>5 DEF TypeOK
  <2> QED BY <2>2, <2>4, <2>5, <2>6 DEF IInv, DispatchedOnce
<1>6. CASE kept # None
  <2>1. kept \in Results
    BY <1>1, <1>6 DEF TypeOK
  <2>2. /\ kept' \in Results /\ kept'.request = request
        /\ kept'.outcome # "WOULD_DISPATCH"
    BY <1>3, <1>4, <2>1, PresentedAnswers
  <2>3. kept' # None
    BY <2>2, NoneAssumption
  <2>4. dispatched' = dispatched /\ given' = "presented"
    BY <1>4, <1>6, <2>2
  <2>5. DispatchIsEarned'
    BY <2>2, <2>4 DEF DispatchIsEarned
  <2>6. TypeOK'
    BY <1>1, <1>4, <2>2, <2>3, <2>4 DEF TypeOK
  <2> QED BY <1>1, <2>3, <2>4, <2>5, <2>6 DEF IInv, DispatchedOnce
<1> QED BY <1>5, <1>6

LEMMA NextKeeps == IInv /\ [Next]_vars => IInv'
<1> SUFFICES ASSUME IInv, [Next]_vars PROVE IInv'
  OBVIOUS
<1>1. TypeOK /\ DispatchIsEarned /\ DispatchedOnce /\ (kept = None => dispatched = 0)
  BY DEF IInv
<1>2. CASE Tick
  <2>1. TypeOK'
    BY <1>1, <1>2, DryRunAssumption DEF TypeOK, Tick
  <2> QED BY <1>1, <1>2, <2>1 DEF Tick, IInv, DispatchIsEarned, DispatchedOnce
<1>3. CASE Reload
  <2>1. TypeOK'
    BY <1>1, <1>3, DryRunAssumption DEF TypeOK, Reload
  <2> QED BY <1>1, <1>3, <2>1 DEF Reload, IInv, DispatchIsEarned, DispatchedOnce
<1>4. CASE Adopt
  <2>1. kept \in Results
    BY <1>1, <1>4 DEF TypeOK, Adopt
  <2>2. kept.final \in Lifecycles
    BY <2>1 DEF Results
  <2>3. TypeOK'
    BY <1>1, <1>4, <2>2 DEF TypeOK, Adopt
  <2> QED BY <1>1, <1>4, <2>3 DEF Adopt, IInv, DispatchIsEarned, DispatchedOnce
<1>5. CASE Lose
  <2>1. TypeOK'
    BY <1>1, <1>5 DEF TypeOK, Lose
  <2> QED BY <1>5, <2>1 DEF Lose, IInv, DispatchIsEarned, DispatchedOnce
<1>6. CASE UNCHANGED vars
  BY <1>1, <1>6 DEF vars, IInv, TypeOK, DispatchIsEarned, DispatchedOnce
<1> QED BY <1>2, <1>3, <1>4, <1>5, <1>6, RehearseKeeps DEF Next

\* The invariant behind the theorems below: what was answered last is what the
\* gates said at that instant, and the kept result is of the calls made.
THEOREM InductiveInvariant == Spec => []IInv
BY InitInv, NextKeeps, PTL DEF Spec

\* A rehearsal promises a dispatch exactly if every gate holds at once, the
\* command, the policy, the facts and the lifecycle it was given, and no earlier
\* result is presented; it then ends ready for dispatch, under an approval that
\* the claim of the dispatch would take at that instant.
THEOREM EarnedDispatch == Spec => []DispatchIsEarned
<1>1. IInv => DispatchIsEarned
  BY DEF IInv
<1> QED BY <1>1, InductiveInvariant, PTL

\* A caller that presents its last result is told at most once that the command
\* would dispatch, under whatever policies, facts, times and revisions.
THEOREM OneDispatch == Spec => []DispatchedOnce
<1>1. IInv => DispatchedOnce
  BY DEF IInv
<1> QED BY <1>1, InductiveInvariant, PTL

=============================================================================
