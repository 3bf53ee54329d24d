----------------------- MODULE QualificationScenarios -----------------------
(***************************************************************************)
(* The approved qualification scenarios, what makes a scenario executable, *)
(* and what the harness asserts of the answer to one of its steps.         *)
(***************************************************************************)
EXTENDS QualificationTransitions, Sequences

\* A step that must be accepted: the row it must take and what must follow.
Accept(n, actor, source, event, id, destination, result, key, guards, kind, effects) ==
  [sequence |-> n, actor |-> actor, source |-> source, event |-> event,
   id |-> id, key |-> key, guards |-> guards, payload |-> "stated",
   expected |-> n - 1, kind |-> "accepted", code |-> "ACCEPTED",
   destination |-> destination, result |-> result, revision |-> n,
   plan |-> {kind}, effects |-> effects,
   reconciling |-> kind = "RECONCILIATION_REQUIRED", repeats |-> FALSE]

\* The step before, sent again without its guards: nothing may move.
Repeat(n, step) ==
  [step EXCEPT !.sequence = n, !.source = step.destination, !.guards = {},
               !.expected = n - 1, !.kind = "replayed", !.code = "REPLAYED",
               !.plan = {"NO_EXTERNAL_ACTION_REQUIRED"}, !.effects = {},
               !.repeats = TRUE]

\* A step that must be rejected, and leave the run as it is.
Refuse(n, state, event, key, guards, payload, code, repeats) ==
  [sequence |-> n, actor |-> "APPLICATION", source |-> state, event |-> event,
   id |-> 0, key |-> key, guards |-> guards, payload |-> payload,
   expected |-> n - 1, kind |-> "rejected", code |-> code,
   destination |-> state, result |-> "PENDING", revision |-> n - 1,
   plan |-> {"CONSEQUENTIAL_ACTION_BLOCKED"}, effects |-> {},
   reconciling |-> FALSE, repeats |-> repeats]

BeforeTheSend ==
  <<Accept(1, "APPLICATION", "NOT_STARTED", "START_QUALIFICATION", 1,
           "PRECHECK_PENDING", "PENDING", "start-qualification",
           {"SCENARIO_AUTHORIZED", "PAPER_ENVIRONMENT"},
           "NO_EXTERNAL_ACTION_REQUIRED", {}),
    Accept(2, "APPLICATION", "PRECHECK_PENDING", "PRECHECKS_PASSED", 2,
           "READY_FOR_APPROVAL", "PENDING", "prechecks-passed",
           {"PAPER_ENVIRONMENT", "BROKER_SUPPORTED", "CONFIGURATION_VALID",
            "CREDENTIALS_AVAILABLE", "EVIDENCE_AVAILABLE"},
           "NO_EXTERNAL_ACTION_REQUIRED", {}),
    Accept(3, "APPLICATION", "READY_FOR_APPROVAL", "APPROVAL_REQUESTED", 5,
           "APPROVAL_PENDING", "PENDING", "approval-requested",
           {"APPROVAL_SURFACE_AVAILABLE", "EMERGENCY_STOP_INACTIVE"},
           "OPERATOR_ACTION_REQUIRED", {"REQUEST_APPROVAL"}),
    Accept(4, "OPERATOR", "APPROVAL_PENDING", "OPERATOR_APPROVED", 6,
           "APPROVED", "PENDING", "operator-approved",
           {"OPERATOR_APPROVAL_VALID", "PLAN_CURRENT", "EVIDENCE_AVAILABLE"},
           "NO_EXTERNAL_ACTION_REQUIRED", {"RECORD_APPROVAL"}),
    Accept(5, "APPLICATION", "APPROVED", "SUBMISSION_STARTED", 9,
           "SUBMISSION_PENDING", "PENDING", "submission-started",
           {"APPROVAL_NOT_EXPIRED", "NO_DUPLICATE_KEY",
            "EMERGENCY_STOP_INACTIVE"},
           "NO_EXTERNAL_ACTION_REQUIRED", {"PREPARE_SUBMISSION"})>>

FromTheSend ==
  <<Accept(6, "APPLICATION", "SUBMISSION_PENDING", "BROKER_REQUEST_SENT", 10,
           "SUBMITTED", "PENDING", "broker-request-sent",
           {"BROKER_CAPABILITY_AVAILABLE", "NO_DUPLICATE_KEY",
            "PAPER_ENVIRONMENT"}, "BROKER_ACTION_PROPOSED", {"SEND"}),
    Accept(7, "BROKER", "SUBMITTED", "BROKER_ACKNOWLEDGED", 11,
           "ACKNOWLEDGED", "PENDING", "broker-acknowledged",
           {"BROKER_RESPONSE_MATCHES"}, "BROKER_OBSERVATION_REQUIRED",
           {"RECORD_REFERENCE"}),
    Accept(8, "APPLICATION", "ACKNOWLEDGED", "CANCELLATION_REQUESTED", 15,
           "CANCELLATION_REQUESTED", "PENDING", "cancellation-requested",
           {"CANCELLATION_SUPPORTED", "NO_TERMINAL_BROKER_STATE",
            "EMERGENCY_STOP_INACTIVE"}, "BROKER_ACTION_PROPOSED", {"CANCEL"}),
    Accept(9, "BROKER", "CANCELLATION_REQUESTED",
           "BROKER_CANCELLATION_CONFIRMED", 17, "CANCELLED", "PENDING",
           "broker-cancellation-confirmed",
           {"CANCELLATION_CONFIRMATION_MATCHES"},
           "BROKER_OBSERVATION_REQUIRED", {"RECORD_LIFECYCLE"}),
    Accept(10, "APPLICATION", "CANCELLED", "QUALIFICATION_CRITERIA_MET", 30,
           "QUALIFIED", "PASSED", "criteria-met",
           {"SCENARIO_REQUIRES_CANCELLATION_CLEANUP",
            "CRITERIA_EVIDENCE_COMPLETE"},
           "QUALIFICATION_FINALIZATION_PROPOSED", {"FINALIZE"})>>

DefaultSteps == BeforeTheSend \o FromTheSend
First(n) == SubSeq(DefaultSteps, 1, n)

Scenario(name, steps, state, result) ==
  [name |-> name, environment |-> "PAPER", steps |-> steps, state |-> state,
   result |-> result]

Positive == Scenario("005", DefaultSteps, "QUALIFIED", "PASSED")

OperatorRejection ==
  Scenario("008",
           First(3) \o
             <<Accept(4, "OPERATOR", "APPROVAL_PENDING", "OPERATOR_REJECTED",
                      7, "REJECTED", "FAILED", "operator-reject",
                      {"OPERATOR_REJECTION_CAPTURED"},
                      "CONSEQUENTIAL_ACTION_BLOCKED", {"BLOCK"})>>,
           "REJECTED", "FAILED")

PrecheckFailure ==
  Scenario("002",
           First(1) \o
             <<Accept(2, "APPLICATION", "PRECHECK_PENDING",
                      "PRECHECKS_FAILED", 3, "PRECHECK_FAILED",
                      "INCONCLUSIVE", "precheck-failed",
                      {"EVIDENCE_AVAILABLE"},
                      "CONSEQUENTIAL_ACTION_BLOCKED", {"BLOCK"})>>,
           "PRECHECK_FAILED", "INCONCLUSIVE")

EmergencyStop ==
  Scenario("009",
           First(4) \o
             <<Refuse(5, "APPROVED", "SUBMISSION_STARTED", "emergency-stop",
                      {"APPROVAL_NOT_EXPIRED", "NO_DUPLICATE_KEY"}, "stated",
                      "EMERGENCY_STOP_INACTIVE", FALSE)>>,
           "APPROVED", "PENDING")

UncertainSubmission ==
  Scenario("010",
           First(5) \o
             <<Accept(6, "SYSTEM", "SUBMISSION_PENDING", "TIMEOUT_DETECTED",
                      23, "UNRESOLVED", "INCONCLUSIVE", "send-uncertain",
                      {"BROKER_SEND_UNCERTAIN"},
                      "CONSEQUENTIAL_ACTION_BLOCKED", {"BLOCK"}),
               Accept(7, "RECONCILIATION", "UNRESOLVED",
                      "RECONCILIATION_STARTED", 24,
                      "RECONCILIATION_REQUIRED", "INCONCLUSIVE",
                      "reconcile-required",
                      {"READ_ONLY_RECONCILIATION_AVAILABLE"},
                      "RECONCILIATION_REQUIRED", {"RECONCILE"})>>,
           "RECONCILIATION_REQUIRED", "INCONCLUSIVE")

DuplicateCommand ==
  Scenario("011", First(6) \o <<Repeat(7, DefaultSteps[6])>>, "SUBMITTED",
           "PENDING")

IdempotencyConflict ==
  Scenario("012",
           First(1) \o
             <<Refuse(2, "PRECHECK_PENDING", "START_QUALIFICATION",
                      "start-qualification",
                      {"SCENARIO_AUTHORIZED", "PAPER_ENVIRONMENT"}, "other",
                      "IDEMPOTENCY_CONFLICT", TRUE)>>,
           "PRECHECK_PENDING", "PENDING")

DuplicateObservation ==
  Scenario("013", First(7) \o <<Repeat(8, DefaultSteps[7])>>, "ACKNOWLEDGED",
           "PENDING")

Catalog ==
  {Positive, OperatorRejection, PrecheckFailure, EmergencyStop,
   UncertainSubmission, DuplicateCommand, IdempotencyConflict,
   DuplicateObservation}
-----------------------------------------------------------------------------
BrokerTruth ==
  {"BROKER_ACKNOWLEDGED", "BROKER_PARTIAL_FILL_REPORTED",
   "BROKER_FILL_REPORTED", "BROKER_CANCELLATION_CONFIRMED",
   "BROKER_REJECTED", "BROKER_EXPIRED"}

\* What validate_scenario_spec accepts: steps that start the run, are in
\* order, end in nothing terminal but the last, name rows of the table, share
\* no key unless they verify a repetition, and speak for the right actor.
Executable(scenario) ==
  LET steps == scenario.steps
      indices == DOMAIN steps
  IN  /\ scenario.environment = "PAPER"
      /\ steps # <<>> /\ steps[1].event = "START_QUALIFICATION"
      /\ \A i \in indices :
           /\ steps[i].sequence = i
           /\ i < Len(steps) => steps[i].destination \notin TerminalStates
           /\ steps[i].effects # {} => steps[i].plan # {}
           /\ steps[i].id \in {row.id : row \in Rows} \cup {0}
           /\ ~steps[i].repeats =>
                \A j \in 1 .. (i - 1) : steps[j].key # steps[i].key
           /\ steps[i].actor = "BROKER" =>
                steps[i].event \notin {"OPERATOR_APPROVED", "OPERATOR_REJECTED"}
           /\ steps[i].actor = "OPERATOR" => steps[i].event \notin BrokerTruth
      /\ scenario.state = "QUALIFIED" => scenario.result = "PASSED"
      /\ scenario.state = "DISQUALIFIED" => scenario.result = "FAILED"

CommandOf(step) ==
  [event |-> step.event, id |-> step.key, key |-> step.key,
   payload |-> step.payload, guards |-> step.guards,
   expected |-> step.expected, recovered |-> "same"]

\* Mutant: only where the run stands is held against the step.
AsExpectedByState(step, decision) ==
  /\ decision.after.state = step.destination
  /\ decision.after.result = step.result
  /\ decision.after.revision = step.revision

\* An answer that bears out the step.
AsExpected(step, decision) ==
  /\ decision.kind = step.kind
  /\ decision.id = step.id
  /\ decision.after.state = step.destination
  /\ decision.after.result = step.result
  /\ decision.after.revision = step.revision
  /\ PlanKinds(decision) = step.plan
  /\ decision.effects = step.effects
  /\ Reconciling(decision) = step.reconciling
  /\ step.kind = "rejected" => decision.code = step.code

Ends(scenario, run) ==
  run.state = scenario.state /\ run.result = scenario.result
=============================================================================
