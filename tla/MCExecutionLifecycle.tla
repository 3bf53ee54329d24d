------------------------ MODULE MCExecutionLifecycle ------------------------
(***************************************************************************)
(* Instances of ExecutionLifecycle for TLC: every input from the creation  *)
(* of the aggregate, or those that follow the intake, two under way at a   *)
(* time.                                                                   *)
(***************************************************************************)
EXTENDS ExecutionLifecycle, TLC

MCAllInputs == Inputs

\* The inputs that follow the intake, but for aborting and giving up.
MCAfterIntake ==
  Observations \cup
    {"RECORD_DISPATCH", "MARK_OUTCOME_UNKNOWN", "REQUEST_CANCELLATION",
     "RECORD_CANCELLATION_PENDING", "REQUEST_REPLACEMENT",
     "RECORD_REPLACEMENT_PENDING", "REQUIRE_RECONCILIATION",
     "RECORD_RECONCILIATION_RESULT"}
=============================================================================
