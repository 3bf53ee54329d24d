------------------------ MODULE LifecycleTransitions ------------------------
(***************************************************************************)
(* The accepted transition table of a paper execution: its states, its     *)
(* inputs and its thirty rows.                                             *)
(***************************************************************************)
States ==
  {"CREATED", "ELIGIBILITY_EVALUATED", "INELIGIBLE", "APPROVAL_CONFIRMED",
   "IDEMPOTENCY_RESERVED", "READY_FOR_DISPATCH", "DISPATCH_PENDING",
   "DISPATCHED", "BROKER_ACKNOWLEDGED", "PARTIALLY_FILLED", "FILLED",
   "CANCEL_REQUESTED", "CANCEL_PENDING", "CANCELLED", "REPLACE_REQUESTED",
   "REPLACE_PENDING", "REPLACED", "BROKER_REJECTED", "OUTCOME_UNKNOWN",
   "RECONCILIATION_REQUIRED", "FAILED_TERMINAL", "ABORTED_BEFORE_DISPATCH"}

TerminalStates ==
  {"INELIGIBLE", "ABORTED_BEFORE_DISPATCH", "BROKER_REJECTED", "REPLACED",
   "FILLED", "CANCELLED", "FAILED_TERMINAL"}

RecoveryStates ==
  {"BROKER_ACKNOWLEDGED", "PARTIALLY_FILLED", "FILLED", "CANCELLED",
   "BROKER_REJECTED", "FAILED_TERMINAL", "RECONCILIATION_REQUIRED"}

Observations ==
  {"OBSERVE_BROKER_ACKNOWLEDGEMENT", "OBSERVE_BROKER_REJECTION",
   "OBSERVE_PARTIAL_FILL", "OBSERVE_FILL",
   "OBSERVE_CANCELLATION_CONFIRMATION", "OBSERVE_REPLACEMENT_CONFIRMATION"}

Commands ==
  {"CREATE_AGGREGATE", "RECORD_ELIGIBILITY", "RECORD_INELIGIBLE",
   "RECORD_INDETERMINATE", "RECORD_APPROVAL",
   "RECORD_IDEMPOTENCY_RESERVATION", "PREPARE_DISPATCH",
   "RECORD_DISPATCH_PENDING", "RECORD_DISPATCH", "MARK_OUTCOME_UNKNOWN",
   "REQUEST_CANCELLATION", "RECORD_CANCELLATION_PENDING",
   "REQUEST_REPLACEMENT", "RECORD_REPLACEMENT_PENDING",
   "REQUIRE_RECONCILIATION", "ABORT_BEFORE_DISPATCH", "FAIL_TERMINALLY"}

Inputs == Commands \cup Observations \cup {"RECORD_RECONCILIATION_RESULT"}

Transition(id, sources, input, destination) ==
  [id |-> id, sources |-> sources, input |-> input,
   destination |-> destination]

PreDispatchSpecs ==
  {Transition("PX-TRN-001", {"CREATED"}, "CREATE_AGGREGATE", "CREATED"),
   Transition("PX-TRN-002", {"CREATED"}, "RECORD_ELIGIBILITY",
              "ELIGIBILITY_EVALUATED"),
   Transition("PX-TRN-003", {"ELIGIBILITY_EVALUATED"}, "RECORD_INELIGIBLE",
              "INELIGIBLE"),
   Transition("PX-TRN-004", {"ELIGIBILITY_EVALUATED"}, "RECORD_INDETERMINATE",
              "INELIGIBLE"),
   Transition("PX-TRN-005", {"ELIGIBILITY_EVALUATED"}, "RECORD_APPROVAL",
              "APPROVAL_CONFIRMED"),
   Transition("PX-TRN-006", {"APPROVAL_CONFIRMED"},
              "RECORD_IDEMPOTENCY_RESERVATION",
              "IDEMPOTENCY_RESERVED"),
   Transition("PX-TRN-007", {"IDEMPOTENCY_RESERVED"}, "PREPARE_DISPATCH",
              "READY_FOR_DISPATCH"),
   Transition("PX-TRN-008", {"READY_FOR_DISPATCH"}, "RECORD_DISPATCH_PENDING",
              "DISPATCH_PENDING"),
   Transition("PX-TRN-009", {"DISPATCH_PENDING"}, "RECORD_DISPATCH",
              "DISPATCHED")}

BrokerSpecs ==
  {Transition("PX-TRN-010", {"DISPATCHED"}, "OBSERVE_BROKER_ACKNOWLEDGEMENT",
              "BROKER_ACKNOWLEDGED"),
   Transition("PX-TRN-011", {"DISPATCHED"}, "OBSERVE_BROKER_REJECTION",
              "BROKER_REJECTED"),
   Transition("PX-TRN-012", {"DISPATCHED"}, "MARK_OUTCOME_UNKNOWN",
              "OUTCOME_UNKNOWN"),
   Transition("PX-TRN-013", {"BROKER_ACKNOWLEDGED"}, "OBSERVE_PARTIAL_FILL",
              "PARTIALLY_FILLED"),
   Transition("PX-TRN-014", {"BROKER_ACKNOWLEDGED"}, "OBSERVE_FILL", "FILLED"),
   Transition("PX-TRN-015", {"PARTIALLY_FILLED"}, "OBSERVE_PARTIAL_FILL",
              "PARTIALLY_FILLED"),
   Transition("PX-TRN-016", {"PARTIALLY_FILLED"}, "OBSERVE_FILL", "FILLED"),
   Transition("PX-TRN-017", {"BROKER_ACKNOWLEDGED", "PARTIALLY_FILLED"},
              "REQUEST_CANCELLATION", "CANCEL_REQUESTED"),
   Transition("PX-TRN-018", {"CANCEL_REQUESTED"},
              "RECORD_CANCELLATION_PENDING",
              "CANCEL_PENDING"),
   Transition("PX-TRN-019", {"CANCEL_PENDING"},
              "OBSERVE_CANCELLATION_CONFIRMATION",
              "CANCELLED"),
   Transition("PX-TRN-020", {"CANCEL_PENDING"}, "OBSERVE_FILL", "FILLED"),
   Transition("PX-TRN-021", {"BROKER_ACKNOWLEDGED", "PARTIALLY_FILLED"},
              "REQUEST_REPLACEMENT", "REPLACE_REQUESTED"),
   Transition("PX-TRN-022", {"REPLACE_REQUESTED"},
              "RECORD_REPLACEMENT_PENDING",
              "REPLACE_PENDING"),
   Transition("PX-TRN-023", {"REPLACE_PENDING"},
              "OBSERVE_REPLACEMENT_CONFIRMATION",
              "REPLACED"),
   Transition("PX-TRN-024", {"REPLACE_PENDING"}, "OBSERVE_FILL", "FILLED")}

RecoverySpecs ==
  {Transition("PX-TRN-025", {"OUTCOME_UNKNOWN"}, "REQUIRE_RECONCILIATION",
              "RECONCILIATION_REQUIRED"),
   Transition("PX-TRN-026", {"RECONCILIATION_REQUIRED"},
              "RECORD_RECONCILIATION_RESULT", "BROKER_ACKNOWLEDGED"),
   Transition("PX-TRN-027", {"RECONCILIATION_REQUIRED"},
              "RECORD_RECONCILIATION_RESULT", "PARTIALLY_FILLED"),
   Transition("PX-TRN-028", {"RECONCILIATION_REQUIRED"},
              "RECORD_RECONCILIATION_RESULT", "RECONCILIATION_REQUIRED"),
   Transition("PX-TRN-029", {"CREATED", "ELIGIBILITY_EVALUATED",
              "APPROVAL_CONFIRMED",
                   "IDEMPOTENCY_RESERVED", "READY_FOR_DISPATCH",
                   "DISPATCH_PENDING"},
              "ABORT_BEFORE_DISPATCH", "ABORTED_BEFORE_DISPATCH"),
   Transition("PX-TRN-030", States \ {"FAILED_TERMINAL"}, "FAIL_TERMINALLY",
              "FAILED_TERMINAL")}

TransitionSpecs == PreDispatchSpecs \cup BrokerSpecs \cup RecoverySpecs

\* The rows marked reconciliation_required.
\* Mutant: the row that requires reconciliation is not marked.
ReconcilingIdsWithoutEntry == {"PX-TRN-012", "PX-TRN-028"}

ReconcilingIds == {"PX-TRN-012", "PX-TRN-025", "PX-TRN-028"}

=============================================================================
