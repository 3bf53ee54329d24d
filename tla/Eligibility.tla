----------------------------- MODULE Eligibility -----------------------------
(***************************************************************************)
(* The advisory eligibility of one paper command under a policy, at an     *)
(* instant: a verdict per criterion, and the decision they add up to.      *)
(*                                                                         *)
(* A command has an operation, the revision it expects, an approval (what  *)
(* it is bound to, from when and until when it holds) and a snapshot of    *)
(* the policy it was made under.  Commands that cannot be built are left   *)
(* out, and with them the criteria no command fails: its type, mode, key,  *)
(* identities, payload, intent and context.                                *)
(***************************************************************************)
EXTENDS Naturals, Functions

CONSTANT None   \* no value

Operations == {"SUBMIT", "CANCEL", "REPLACE"}

\* The flags of a policy a snapshot must carry too when the policy has them.
SnapshotFlags == {"paper", "approval", "revision", "idempotency"}

\* What only an external authority can clear.
ExternalClearances == {"market", "emergencyStop", "risk", "account"}

\* A policy that binds approvals, or lets them expire, asks for approval.
WellFormedPolicy(policy) ==
    /\ policy.operations \subseteq Operations /\ policy.operations # {}
    /\ policy.required \subseteq SnapshotFlags
    /\ policy.external \subseteq ExternalClearances
    /\ policy.binding \/ policy.unexpired => "approval" \in policy.required

\* An approval is given at an instant, and does not expire before.
WellFormedApproval(command) ==
    /\ command.from \in Nat
    /\ command.until # None => command.until \in Nat /\ command.from <= command.until

WellFormedCommand(command) ==
    /\ command.operation \in Operations
    /\ command.revision \in Nat
    /\ WellFormedApproval(command)

-----------------------------------------------------------------------------
Passes(holds) == IF holds THEN "PASS" ELSE "FAIL"

Resolved(holds) == IF holds THEN "PASS" ELSE "UNRESOLVED"

\* What an approval may be bound to.  The payload of a command contains its
\* approval, so that none is bound to the whole of it.
Bindings(command) ==
    {"aggregate"}
        \cup (IF command.operation = "SUBMIT" THEN {"intent"} ELSE {})
        \cup (IF command.operation = "REPLACE" THEN {"replacement"} ELSE {})

OperationAllowed(command, policy) ==
    Passes(command.operation \in policy.operations)

\* A submission is the first thing that happens to an execution.
OperationRevision(command, policy) ==
    Passes(policy.initialRevision /\ command.operation = "SUBMIT" => command.revision = 0)

ApprovalBinding(command, policy) ==
    Passes(policy.binding => command.bound \in Bindings(command))

\* Mutant: the approval still holds at the instant it expires.
ApprovalTimeInclusive(command, policy, at) ==
    IF policy.unexpired /\ at = None THEN "UNRESOLVED"
    ELSE Passes(policy.unexpired =>
                    /\ command.from <= at
                    /\ command.until # None => at <= command.until)

\* The approval holds from the instant it was given, and no longer at the
\* instant it expires; without an instant the question stays open.
ApprovalTime(command, policy, at) ==
    IF policy.unexpired /\ at = None THEN "UNRESOLVED"
    ELSE Passes(policy.unexpired =>
                    /\ command.from <= at
                    /\ command.until # None => at < command.until)

PolicySnapshot(command, policy) ==
    Passes(policy.snapshot =>
               /\ command.operation \in command.snapshot.operations
               /\ policy.required \subseteq command.snapshot.required)

\* Whether a key is used consistently cannot be told from one command.
IdempotencyConsistency(policy) == Resolved(~ policy.keyConsistency)

\* Nor can the service clear what it has no authority over.
External(clearance, policy) == Resolved(clearance \notin policy.external)

Criteria(command, policy, at) ==
    [OPERATION_ALLOWED |-> OperationAllowed(command, policy),
     OPERATION_REVISION_COMPATIBLE |-> OperationRevision(command, policy),
     APPROVAL_BINDING_VALID |-> ApprovalBinding(command, policy),
     APPROVAL_TIME_VALID |-> ApprovalTime(command, policy, at),
     POLICY_SNAPSHOT_COMPATIBLE |-> PolicySnapshot(command, policy),
     IDEMPOTENCY_KEY_CONSISTENT |-> IdempotencyConsistency(policy),
     EXTERNAL_MARKET_CAPABILITY_STATUS |-> External("market", policy),
     EXTERNAL_EMERGENCY_STOP_STATUS |-> External("emergencyStop", policy),
     EXTERNAL_RISK_STATUS |-> External("risk", policy),
     EXTERNAL_ACCOUNT_STATUS |-> External("account", policy)]

Decisions == {"ELIGIBLE", "INELIGIBLE", "INDETERMINATE"}

\* One failure decides, whatever else is open; one open criterion leaves the
\* decision open.
Decision(criteria) ==
    IF "FAIL" \in Range(criteria) THEN "INELIGIBLE"
    ELSE IF "UNRESOLVED" \in Range(criteria) THEN "INDETERMINATE"
    ELSE "ELIGIBLE"

Evaluate(command, policy, at) == Decision(Criteria(command, policy, at))
=============================================================================
