---------------------- MODULE QualificationTransitions ----------------------
(***************************************************************************)
(* The accepted transition table of a Paper qualification run, its         *)
(* thirty-five rows, and the pure decision of one command against one run. *)
(***************************************************************************)
EXTENDS Naturals, FiniteSets

States ==
  {"NOT_STARTED", "PRECHECK_PENDING", "PRECHECK_FAILED", "READY_FOR_APPROVAL",
   "APPROVAL_PENDING", "APPROVED", "SUBMISSION_PENDING", "SUBMITTED",
   "ACKNOWLEDGED", "PARTIALLY_FILLED", "FILLED", "CANCELLATION_REQUESTED",
   "CANCELLED", "REJECTED", "EXPIRED", "UNRESOLVED",
   "RECONCILIATION_REQUIRED", "QUALIFIED", "DISQUALIFIED", "ABORTED"}

TerminalStates == {"QUALIFIED", "DISQUALIFIED", "ABORTED"}
ActiveStates == States \ TerminalStates
Results == {"PENDING", "PASSED", "FAILED", "ABORTED", "INCONCLUSIVE"}

Row(id, sources, event, destination, guards, effects, result) ==
  [id |-> id, sources |-> sources, event |-> event,
   destination |-> destination, guards |-> guards, effects |-> effects,
   result |-> result]

\* A row from one state to another that leaves the result PENDING.
Step(id, source, event, destination, guards, effects) ==
  Row(id, {source}, event, destination, guards, effects, "PENDING")

PrecheckRows ==
  {Step(1, "NOT_STARTED", "START_QUALIFICATION", "PRECHECK_PENDING",
        {"SCENARIO_AUTHORIZED", "PAPER_ENVIRONMENT"}, {}),
   Step(2, "PRECHECK_PENDING", "PRECHECKS_PASSED", "READY_FOR_APPROVAL",
        {"PAPER_ENVIRONMENT", "BROKER_SUPPORTED", "CONFIGURATION_VALID",
         "CREDENTIALS_AVAILABLE", "EVIDENCE_AVAILABLE"}, {}),
   Row(3, {"PRECHECK_PENDING"}, "PRECHECKS_FAILED", "PRECHECK_FAILED",
       {"EVIDENCE_AVAILABLE"}, {"BLOCK"}, "INCONCLUSIVE"),
   Step(4, "PRECHECK_FAILED", "START_QUALIFICATION", "PRECHECK_PENDING",
        {"SCENARIO_AUTHORIZED", "PAPER_ENVIRONMENT"}, {})}

ApprovalRows ==
  {Step(5, "READY_FOR_APPROVAL", "APPROVAL_REQUESTED", "APPROVAL_PENDING",
        {"APPROVAL_SURFACE_AVAILABLE", "EMERGENCY_STOP_INACTIVE"},
        {"REQUEST_APPROVAL"}),
   Step(6, "APPROVAL_PENDING", "OPERATOR_APPROVED", "APPROVED",
        {"OPERATOR_APPROVAL_VALID", "PLAN_CURRENT", "EVIDENCE_AVAILABLE"},
        {"RECORD_APPROVAL"}),
   Row(7, {"APPROVAL_PENDING"}, "OPERATOR_REJECTED", "REJECTED",
       {"OPERATOR_REJECTION_CAPTURED"}, {"BLOCK"}, "FAILED"),
   Row(8, {"READY_FOR_APPROVAL"}, "OPERATOR_REJECTED", "REJECTED",
       {"OPERATOR_REJECTION_CAPTURED"}, {"BLOCK"}, "FAILED"),
   Step(9, "APPROVED", "SUBMISSION_STARTED", "SUBMISSION_PENDING",
        {"APPROVAL_NOT_EXPIRED", "NO_DUPLICATE_KEY",
         "EMERGENCY_STOP_INACTIVE"}, {"PREPARE_SUBMISSION"}),
   Step(10, "SUBMISSION_PENDING", "BROKER_REQUEST_SENT", "SUBMITTED",
        {"BROKER_CAPABILITY_AVAILABLE", "NO_DUPLICATE_KEY",
         "PAPER_ENVIRONMENT"}, {"SEND"})}

BrokerRows ==
  {Step(11, "SUBMITTED", "BROKER_ACKNOWLEDGED", "ACKNOWLEDGED",
        {"BROKER_RESPONSE_MATCHES"}, {"RECORD_REFERENCE"}),
   Step(12, "ACKNOWLEDGED", "BROKER_PARTIAL_FILL_REPORTED",
        "PARTIALLY_FILLED", {"PARTIAL_FILL_VALID"}, {"RECORD_LIFECYCLE"}),
   Step(13, "ACKNOWLEDGED", "BROKER_FILL_REPORTED", "FILLED",
        {"FULL_FILL_EVIDENCE"}, {"RECORD_LIFECYCLE"}),
   Step(14, "PARTIALLY_FILLED", "BROKER_FILL_REPORTED", "FILLED",
        {"FULL_FILL_EVIDENCE"}, {"RECORD_LIFECYCLE"}),
   Step(15, "ACKNOWLEDGED", "CANCELLATION_REQUESTED",
        "CANCELLATION_REQUESTED",
        {"CANCELLATION_SUPPORTED", "NO_TERMINAL_BROKER_STATE",
         "EMERGENCY_STOP_INACTIVE"}, {"CANCEL"}),
   Step(16, "PARTIALLY_FILLED", "CANCELLATION_REQUESTED",
        "CANCELLATION_REQUESTED",
        {"CANCELLATION_SUPPORTED", "EMERGENCY_STOP_INACTIVE"}, {"CANCEL"}),
   Step(17, "CANCELLATION_REQUESTED", "BROKER_CANCELLATION_CONFIRMED",
        "CANCELLED", {"CANCELLATION_CONFIRMATION_MATCHES"},
        {"RECORD_LIFECYCLE"})}

BrokerEndRows ==
  {Step(18, "SUBMITTED", "BROKER_REJECTED", "REJECTED",
        {"BROKER_REJECTION_MATCHES"}, {"RECORD_LIFECYCLE"}),
   Step(19, "ACKNOWLEDGED", "BROKER_REJECTED", "REJECTED",
        {"BROKER_REJECTION_MATCHES"}, {"RECORD_LIFECYCLE"}),
   Step(20, "SUBMITTED", "BROKER_EXPIRED", "EXPIRED",
        {"BROKER_EXPIRATION_MATCHES"}, {"RECORD_LIFECYCLE"}),
   Step(21, "ACKNOWLEDGED", "BROKER_EXPIRED", "EXPIRED",
        {"BROKER_EXPIRATION_MATCHES"}, {"RECORD_LIFECYCLE"}),
   Row(22, {"SUBMITTED"}, "TIMEOUT_DETECTED", "UNRESOLVED",
       {"BROKER_OUTCOME_UNKNOWN"}, {"BLOCK"}, "INCONCLUSIVE"),
   Row(23, {"SUBMISSION_PENDING"}, "TIMEOUT_DETECTED", "UNRESOLVED",
       {"BROKER_SEND_UNCERTAIN"}, {"BLOCK"}, "INCONCLUSIVE")}

ReconciliationRows ==
  {Row(24, {"UNRESOLVED"}, "RECONCILIATION_STARTED",
       "RECONCILIATION_REQUIRED", {"READ_ONLY_RECONCILIATION_AVAILABLE"},
       {"RECONCILE"}, "INCONCLUSIVE"),
   Step(25, "RECONCILIATION_REQUIRED", "RECONCILIATION_RESOLVED",
        "ACKNOWLEDGED", {"BROKER_TRUTH_FOUND", "EVIDENCE_AVAILABLE"},
        {"RECORD_REFERENCE"}),
   Step(26, "RECONCILIATION_REQUIRED", "RECONCILIATION_RESOLVED",
        "CANCELLED", {"BROKER_PROVES_CANCELLATION", "EVIDENCE_AVAILABLE"},
        {"RECORD_LIFECYCLE"}),
   Step(27, "RECONCILIATION_REQUIRED", "RECONCILIATION_RESOLVED", "REJECTED",
        {"BROKER_PROVES_REJECTION_OR_NO_ORDER", "EVIDENCE_AVAILABLE"},
        {"RECORD_LIFECYCLE"}),
   Row(28, {"RECONCILIATION_REQUIRED"}, "QUALIFICATION_CRITERIA_FAILED",
       "DISQUALIFIED", {"RECONCILIATION_FAILED_OR_EVIDENCE_INCOMPLETE"},
       {"FINALIZE"}, "FAILED")}

Met(id, source, requirement) ==
  Row(id, {source}, "QUALIFICATION_CRITERIA_MET", "QUALIFIED",
      {requirement, "CRITERIA_EVIDENCE_COMPLETE"}, {"FINALIZE"}, "PASSED")

ClosingRows ==
  {Met(29, "ACKNOWLEDGED", "SCENARIO_REQUIRES_ACK_ONLY"),
   Met(30, "CANCELLED", "SCENARIO_REQUIRES_CANCELLATION_CLEANUP"),
   Met(31, "FILLED", "SCENARIO_REQUIRES_FILL"),
   Met(32, "REJECTED", "SCENARIO_REQUIRES_REJECTION"),
   Row(33, ActiveStates \ {"UNRESOLVED", "RECONCILIATION_REQUIRED"},
       "QUALIFICATION_CRITERIA_FAILED", "DISQUALIFIED", {"CRITERIA_FAILED"},
       {"FINALIZE"}, "FAILED"),
   Row(34, ActiveStates, "ABORT_REQUESTED", "ABORTED",
       {"ACTOR_AUTHORIZED_TO_ABORT", "NO_UNSAFE_BROKER_EFFECT_IN_PROGRESS"},
       {"BLOCK"}, "ABORTED")}

\* The one row whose destination and result come from the run it is taken in.
RestartRow ==
  Row(35, ActiveStates, "PROCESS_RESTARTED", "recovered",
      {"DURABLE_STATE_AND_EVIDENCE_VERIFIED"}, {"RESUME"}, "kept")

Rows ==
  PrecheckRows \cup ApprovalRows \cup BrokerRows \cup BrokerEndRows
    \cup ReconciliationRows \cup ClosingRows \cup {RestartRow}
-----------------------------------------------------------------------------
(***************************************************************************)
(* A run is [state, result, revision].  A command names an event, a key, a *)
(* payload, the guards its caller holds to be satisfied, the revision it   *)
(* expects and the state a restart recovered ("same" when it names none).  *)
(***************************************************************************)
Candidates(state, event) ==
  {row \in Rows : row.event = event /\ state \in row.sources}

Matches(state, command) ==
  {row \in Candidates(state, command.event) : row.guards \subseteq command.guards}

Destination(row, run, command) ==
  IF row = RestartRow
  THEN IF command.recovered = "same" THEN run.state ELSE command.recovered
  ELSE row.destination

ResultAfter(row, run) == IF row = RestartRow THEN run.result ELSE row.result

After(row, run, command) ==
  [state |-> Destination(row, run, command),
   result |-> ResultAfter(row, run),
   revision |-> run.revision + 1]

Fingerprint(command) == <<command.event, command.payload>>

\* What a decision says: its kind, the code of the answer, the row it took,
\* the run it found, the run it leads to, and the effects it proposes.
Decided(kind, code, id, before, after, effects) ==
  [kind |-> kind, code |-> code, id |-> id, before |-> before,
   after |-> after, effects |-> effects]

Rejected(code, run) == Decided("rejected", code, 0, run, run, {})

Accepted(row, run, command) ==
  Decided("accepted", "ACCEPTED", row.id, run, After(row, run, command),
          row.effects)

\* A repeated key is answered from its record, whatever revision and guards
\* the repetition states, with the run as it was loaded and no effects.
Replayed(prior, run, command) ==
  IF prior.fingerprint # Fingerprint(command)
  THEN Rejected("IDEMPOTENCY_CONFLICT", run)
  ELSE Decided("replayed", "REPLAYED", prior.id, run, run, {})

\* The row whose guards are all satisfied, else the only candidate.
Taken(run, command) ==
  LET candidates == Candidates(run.state, command.event)
      matches == Matches(run.state, command)
  IN  IF Cardinality(matches) = 1 THEN CHOOSE row \in matches : TRUE
      ELSE IF matches = {} /\ Cardinality(candidates) = 1
      THEN CHOOSE row \in candidates : TRUE
      ELSE Row(0, {}, "none", "none", {}, {}, "none")

NotTaken(run, command) ==
  CASE Matches(run.state, command) # {} -> "AMBIGUOUS_TRANSITION"
    [] Candidates(run.state, command.event) = {} -> "INVALID_TRANSITION"
    [] OTHER -> "GUARD_DISAMBIGUATION_FAILED"

\* The code names one of the missing guards, the first in the set's order.
Missing(row, command) == row.guards \ command.guards

Decide(run, command, prior) ==
  LET row == Taken(run, command)
  IN  IF prior.id # 0 THEN Replayed(prior, run, command)
      ELSE IF run.revision # command.expected
      THEN Rejected("STALE_REVISION", run)
      ELSE IF run.state \in TerminalStates
      THEN Rejected("TERMINAL_STATE", run)
      ELSE IF row.id = 0 THEN Rejected(NotTaken(run, command), run)
      ELSE IF Missing(row, command) # {}
      THEN Rejected(CHOOSE guard \in Missing(row, command) : TRUE, run)
      ELSE Accepted(row, run, command)

\* What the execution plan of an answer calls for.
Reconciling(decision) ==
  decision.kind # "rejected" /\ decision.after.state = "RECONCILIATION_REQUIRED"

EffectKinds ==
  {<<"REQUEST_APPROVAL", "OPERATOR_ACTION_REQUIRED">>,
   <<"SEND", "BROKER_ACTION_PROPOSED">>,
   <<"CANCEL", "BROKER_ACTION_PROPOSED">>,
   <<"RECORD_REFERENCE", "BROKER_OBSERVATION_REQUIRED">>,
   <<"RECORD_LIFECYCLE", "BROKER_OBSERVATION_REQUIRED">>,
   <<"RECONCILE", "RECONCILIATION_REQUIRED">>,
   <<"FINALIZE", "QUALIFICATION_FINALIZATION_PROPOSED">>,
   <<"BLOCK", "CONSEQUENTIAL_ACTION_BLOCKED">>}

PlanKinds(decision) ==
  LET named == {pair[2] : pair \in {p \in EffectKinds :
                                     p[1] \in decision.effects}}
  IN  IF decision.kind = "rejected" THEN {"CONSEQUENTIAL_ACTION_BLOCKED"}
      ELSE IF Reconciling(decision) THEN {"RECONCILIATION_REQUIRED"}
      ELSE IF named = {} THEN {"NO_EXTERNAL_ACTION_REQUIRED"} ELSE named
=============================================================================
