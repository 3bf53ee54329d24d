----------------------------- MODULE PaperDryRun -----------------------------
(***************************************************************************)
(* A caller rehearses a command of a paper execution: execute of the dry   *)
(* run evaluates eligibility and walks the lifecycle in memory up to the   *)
(* point of dispatch, and changes nothing.                                 *)
(*                                                                         *)
(* The caller supplies everything: the lifecycle it holds, which it loaded *)
(* before or which an earlier rehearsal ended at, facts about the world    *)
(* that it read at some other time, the clock, and its last result for the *)
(* command if it still has it.                                             *)
(***************************************************************************)
EXTENDS Eligibility, Sequences, LifecycleTransitions

CONSTANTS
    DryRunCommands,  \* the commands one of which is rehearsed
    Policies,        \* the eligibility policies in use
    FactSets,        \* what a caller may state about the world
    Loadable,        \* the lifecycles the execution goes through meanwhile
    MaxClock         \* bound on the clock

Lifecycles == [state : States, revision : Nat]

\* What a caller states is confirmed, or is not; it may know of an earlier
\* command or key.
WellFormedFacts(facts) ==
    {facts.current, facts.paper, facts.approval, facts.reserved, facts.clearance,
     facts.prerequisites} \subseteq BOOLEAN

ASSUME DryRunAssumption ==
    /\ \A command \in DryRunCommands : WellFormedCommand(command)
    /\ \A policy \in Policies : WellFormedPolicy(policy)
    /\ \A facts \in FactSets : WellFormedFacts(facts)
    /\ Loadable \subseteq Lifecycles
    /\ MaxClock \in Nat

VARIABLES
    rehearsed,  \* the command
    clock,      \* the instant of the next evaluation
    held,       \* the lifecycle the caller holds
    kept,       \* the last result for the command, if the caller still has it
    given,      \* whether it is fresh: nothing happened since ("fresh"), or
                \* nothing since and it answered an earlier one ("presented")
    dispatched  \* how often the command was said to dispatch since the
                \* caller last lost its result

vars == <<rehearsed, clock, held, kept, given, dispatched>>

\* What identifies a request; the earlier result it presents does not.
Request(command, policy, facts, at, lifecycle) ==
    [command |-> command, policy |-> policy, facts |-> facts, at |-> at,
     lifecycle |-> lifecycle]

Result(request, outcome, failure, eligibility, final, rows) ==
    [request |-> request, outcome |-> outcome, failure |-> failure,
     eligibility |-> eligibility, final |-> final, rows |-> rows]

\* An answer that is no failure is receipted; a failure keeps its reason, and
\* the lifecycle it ended at.
Receipt(request, outcome, eligibility, final, rows) ==
    Result(request, outcome, None, eligibility, final, rows)

Failed(request, outcome, failure, eligibility, final) ==
    Result(request, outcome, failure, eligibility, final, << >>)

Requests ==
    [command : DryRunCommands, policy : Policies, facts : FactSets, at : 0 .. MaxClock,
     lifecycle : Lifecycles]

Outcomes ==
    {"WOULD_DISPATCH", "WOULD_REJECT", "WOULD_REQUIRE_EXTERNAL_EVIDENCE",
     "WOULD_REQUIRE_RECONCILIATION", "NO_ACTION_REPLAY"}

Failures ==
    {"COMMAND_CONFLICT", "IDEMPOTENCY_CONFLICT", "EXTERNAL_EVIDENCE_REQUIRED",
     "LIFECYCLE_TRANSITION_REJECTED", "COMMAND_INELIGIBLE", "STALE_REVISION",
     "RECONCILIATION_REQUIRED"}

Results ==
    [request : Requests, outcome : Outcomes, failure : Failures \cup {None},
     eligibility : Decisions \cup {None}, final : Lifecycles,
     rows : Seq({row.id : row \in TransitionSpecs})]

\* Why the lifecycle rejects an input it was offered; a caller's knowledge of an
\* earlier command or key is a reason too.
Rejections ==
    {"PAPER_MODE_NOT_CONFIRMED", "TERMINAL_STATE", "INVALID_LIFECYCLE_TRANSITION",
     "NOT_ELIGIBLE", "APPROVAL_INVALID", "IDEMPOTENCY_NOT_CONFIRMED",
     "EMERGENCY_STOP_ACTIVE", "EXTERNAL_PREREQUISITES_NOT_SATISFIED"}

ASSUME NoneAssumption ==
    /\ None \notin Nat
    /\ None \notin Results
    /\ None \notin Rejections

-----------------------------------------------------------------------------
(***************************************************************************)
(* The lifecycle, in memory.                                               *)
(***************************************************************************)

Path == <<"RECORD_ELIGIBILITY", "RECORD_APPROVAL", "RECORD_IDEMPOTENCY_RESERVATION",
          "PREPARE_DISPATCH">>

\* The fact an input of the path still waits for.
GuardFailure(input, eligibility, facts) ==
    CASE input = "RECORD_ELIGIBILITY" /\ eligibility # "ELIGIBLE" -> "NOT_ELIGIBLE"
      [] input = "RECORD_APPROVAL" /\ ~ facts.approval -> "APPROVAL_INVALID"
      [] input = "RECORD_IDEMPOTENCY_RESERVATION" /\ ~ facts.reserved -> "IDEMPOTENCY_NOT_CONFIRMED"
      [] input = "PREPARE_DISPATCH" /\ ~ facts.clearance -> "EMERGENCY_STOP_ACTIVE"
      [] input = "PREPARE_DISPATCH" /\ ~ facts.prerequisites -> "EXTERNAL_PREREQUISITES_NOT_SATISFIED"
      [] OTHER -> None

RowsFor(lifecycle, input) ==
    {row \in TransitionSpecs : row.input = input /\ lifecycle.state \in row.sources}

\* Why the lifecycle rejects an input, or None: what the caller knows of
\* earlier commands and keys comes first, then the state, then the guards.
Rejection(lifecycle, input, eligibility, facts) ==
    IF facts.prior # None THEN facts.prior
    ELSE IF ~ facts.paper THEN "PAPER_MODE_NOT_CONFIRMED"
    ELSE IF lifecycle.state \in TerminalStates THEN "TERMINAL_STATE"
    ELSE IF RowsFor(lifecycle, input) = {} THEN "INVALID_LIFECYCLE_TRANSITION"
    ELSE GuardFailure(input, eligibility, facts)

\* The walk along the path stops for good at the first input rejected.
Advanced(walk, input, eligibility, facts) ==
    LET rejection == Rejection(walk.lifecycle, input, eligibility, facts)
    IN  IF walk.rejection # None THEN walk
        ELSE IF rejection # None THEN [walk EXCEPT !.rejection = rejection]
        ELSE LET row == CHOOSE row \in RowsFor(walk.lifecycle, input) : TRUE
             IN  [lifecycle |-> [state |-> row.destination, revision |-> walk.lifecycle.revision + 1],
                  rows |-> Append(walk.rows, row.id), rejection |-> None]

Standing(lifecycle) == [lifecycle |-> lifecycle, rows |-> << >>, rejection |-> None]

\* The walk of a command that is eligible, an input of the path after another.
Walk(lifecycle, facts) ==
    LET Then(walk, n) == Advanced(walk, Path[n], "ELIGIBLE", facts)
    IN  Then(Then(Then(Then(Standing(lifecycle), 1), 2), 3), 4)

-----------------------------------------------------------------------------
(***************************************************************************)
(* The executor.                                                           *)
(***************************************************************************)

FailureReason(rejection) ==
    CASE rejection \in {"COMMAND_CONFLICT", "IDEMPOTENCY_CONFLICT"} -> rejection
      [] rejection \in {"IDEMPOTENCY_NOT_CONFIRMED", "EMERGENCY_STOP_ACTIVE",
                        "EXTERNAL_PREREQUISITES_NOT_SATISFIED"} -> "EXTERNAL_EVIDENCE_REQUIRED"
      [] OTHER -> "LIFECYCLE_TRANSITION_REJECTED"

\* The result of a rejection ends where the walk stopped, without its rows.
LifecycleRejection(request, walk) ==
    LET failure == FailureReason(walk.rejection)
    IN  Failed(request,
               IF failure = "EXTERNAL_EVIDENCE_REQUIRED" THEN "WOULD_REQUIRE_EXTERNAL_EVIDENCE"
               ELSE "WOULD_REJECT",
               failure, "ELIGIBLE", walk.lifecycle)

Eligible(request) ==
    LET walk == Walk(request.lifecycle, request.facts)
    IN  IF walk.rejection # None THEN LifecycleRejection(request, walk)
        ELSE Receipt(request, "WOULD_DISPATCH", "ELIGIBLE", walk.lifecycle, walk.rows)

\* A decision that is not eligibility is recorded by a lifecycle that waits
\* for it, and only reported for any other.
EligibilityRecorded(request, input, decision) ==
    LET before == Standing(request.lifecycle)
    IN  IF before.lifecycle.state # "ELIGIBILITY_EVALUATED" THEN before
        ELSE Advanced(before, input, decision, request.facts)

Ineligible(request) ==
    LET walk == EligibilityRecorded(request, "RECORD_INELIGIBLE", "INELIGIBLE")
    IN  Result(request, "WOULD_REJECT", "COMMAND_INELIGIBLE", "INELIGIBLE",
               walk.lifecycle, walk.rows)

Indeterminate(request) ==
    LET walk == EligibilityRecorded(request, "RECORD_INDETERMINATE", "INDETERMINATE")
    IN  Result(request, "WOULD_REQUIRE_EXTERNAL_EVIDENCE", "EXTERNAL_EVIDENCE_REQUIRED",
               "INDETERMINATE", walk.lifecycle, walk.rows)

\* Mutant: another request for the command is rehearsed as a new one.
ReplayOrConflictOfRequest(request, prior) ==
    IF prior = None THEN None
    ELSE IF prior.request = request
    THEN Receipt(request, "NO_ACTION_REPLAY", prior.eligibility, request.lifecycle, << >>)
    ELSE None

\* A command that was answered before is answered by that: the same request
\* is a replay, and any other a conflict, whatever the earlier answer was.
ReplayOrConflict(request, prior) ==
    IF prior = None THEN None
    ELSE IF prior.request = request
    THEN Receipt(request, "NO_ACTION_REPLAY", prior.eligibility, request.lifecycle, << >>)
    ELSE Failed(request, "WOULD_REJECT", "COMMAND_CONFLICT", None, request.lifecycle)

\* What execute answers to a request that presents an earlier result.
Execute(request, prior) ==
    LET earlier  == ReplayOrConflict(request, prior)
        decision == Evaluate(request.command, request.policy, request.at)
    IN  CASE earlier # None -> earlier
          [] earlier = None /\ ~ request.facts.current ->
                Failed(request, "WOULD_REJECT", "STALE_REVISION", None, request.lifecycle)
          [] earlier = None /\ request.facts.current
                /\ request.lifecycle.state \in {"OUTCOME_UNKNOWN", "RECONCILIATION_REQUIRED"} ->
                Failed(request, "WOULD_REQUIRE_RECONCILIATION", "RECONCILIATION_REQUIRED", None,
                       request.lifecycle)
          [] OTHER ->
                CASE decision = "INELIGIBLE" -> Ineligible(request)
                  [] decision = "INDETERMINATE" -> Indeterminate(request)
                  [] decision = "ELIGIBLE" -> Eligible(request)

-----------------------------------------------------------------------------
Init ==
    /\ rehearsed \in DryRunCommands
    /\ clock = 0
    /\ held = [state |-> "CREATED", revision |-> 0]
    /\ kept = None
    /\ given = "nothing"
    /\ dispatched = 0

Tick ==
    /\ clock < MaxClock
    /\ clock' = clock + 1
    /\ given' = "nothing"
    /\ UNCHANGED <<rehearsed, held, kept, dispatched>>

\* The caller loads the execution again, which others took further.
Reload ==
    /\ held' \in {lifecycle \in Loadable : lifecycle.revision > held.revision}
    /\ given' = "nothing"
    /\ UNCHANGED <<rehearsed, clock, kept, dispatched>>

Rehearse ==
    /\ \E policy \in Policies, facts \in FactSets :
           kept' = Execute(Request(rehearsed, policy, facts, clock, held), kept)
    /\ given' = IF kept = None THEN "fresh" ELSE "presented"
    /\ dispatched' = IF kept'.outcome = "WOULD_DISPATCH" THEN dispatched + 1 ELSE dispatched
    /\ UNCHANGED <<rehearsed, clock, held>>

\* The caller goes on from where the last rehearsal ended.
Adopt ==
    /\ given # "nothing"
    /\ held' = kept.final
    /\ given' = "nothing"
    /\ UNCHANGED <<rehearsed, clock, kept, dispatched>>

\* A caller that restarts has its result no more; nothing stores it.
Lose ==
    /\ kept' = None
    /\ dispatched' = 0
    /\ given' = "nothing"
    /\ UNCHANGED <<rehearsed, clock, held>>

Next == Tick \/ Reload \/ Rehearse \/ Adopt \/ Lose

Spec == Init /\ [][Next]_vars

-----------------------------------------------------------------------------
(***************************************************************************)
(* Properties.                                                             *)
(***************************************************************************)

\* Every gate at once: nothing of the command was done before, the revision
\* is the one expected, the policy asks for nothing that is open or missing,
\* and each fact the path waits for is there.
Earned(request) ==
    LET command == request.command
        policy  == request.policy
        facts   == request.facts
    IN  /\ request.lifecycle.state = "CREATED"
        /\ facts.current /\ facts.paper /\ facts.prior = None
        /\ facts.approval /\ facts.reserved /\ facts.clearance /\ facts.prerequisites
        /\ command.operation \in policy.operations
        /\ policy.external = {} /\ ~ policy.keyConsistency
        /\ policy.initialRevision => command.operation # "SUBMIT" \/ command.revision = 0
        /\ policy.binding => command.bound \in Bindings(command)
        /\ policy.unexpired => command.from <= request.at
                               /\ (command.until = None \/ request.at < command.until)
        /\ policy.snapshot => command.operation \in command.snapshot.operations
                              /\ policy.required \subseteq command.snapshot.required

\* The claim of a dispatch, at the same instant, takes the approval too: it
\* accepts an approval up to and at its expiry.
ClaimTakesApproval(request) ==
    request.command.until = None \/ request.command.until >= request.at

\* A rehearsal says that it would dispatch exactly if every gate holds at once
\* and no earlier result for the command is presented, and then it ends ready
\* for dispatch, four revisions on.  Where approvals expire, it never promises
\* what the claim would refuse for its approval at that instant.  In particular
\* a lifecycle that a rehearsal left part of the way, and its caller adopted,
\* dispatches no more, however the facts improve.
DispatchIsEarned ==
    given # "nothing" =>
        LET request == kept.request
        IN  /\ kept.outcome = "WOULD_DISPATCH" <=> given = "fresh" /\ Earned(request)
            /\ kept.outcome = "WOULD_DISPATCH" =>
                   /\ kept.final = [state |-> "READY_FOR_DISPATCH",
                                    revision |-> request.lifecycle.revision + Len(Path)]
                   /\ request.policy.unexpired => ClaimTakesApproval(request)

\* A caller that presents its last result for a command is told at most once
\* that the command would dispatch, whatever it rehearses in between, with
\* other facts, under other policies, at other times and revisions.
DispatchedOnce == dispatched <= 1

\* The types, and that a caller who knows its result to be fresh has one.
TypeOK ==
    /\ rehearsed \in DryRunCommands
    /\ clock \in 0 .. MaxClock
    /\ held \in Lifecycles
    /\ kept \in Results \cup {None}
    /\ given \in {"nothing", "fresh", "presented"}
    /\ dispatched \in Nat
    /\ given # "nothing" => kept # None

\* The inductive invariant: a caller without a result was told nothing.
IInv ==
    /\ TypeOK
    /\ DispatchIsEarned
    /\ DispatchedOnce
    /\ kept = None => dispatched = 0
=============================================================================
