-------------------------- MODULE ShadowObservation --------------------------
(***************************************************************************)
(* The shadow integration of Paper qualification.  An observer puts what   *)
(* the legacy path decided, and a runtime request, through the boundary:   *)
(* the facade has the service execute the request, the shadow compares the *)
(* two decisions, the validation harness accumulates the results and the   *)
(* readiness assessment judges the sum.  Observers run beside each other   *)
(* and beside the runtime, whose own observations move the same runs.      *)
(***************************************************************************)
EXTENDS QualificationTransitions

CONSTANTS Observers,        \* the threads that evaluate or deliver
          Runs,             \* the qualification runs
          Offered,          \* the evaluations observers may ask for
          Deliveries,       \* the observations the runtime may deliver
          Stored,           \* what the repository may hold at the start
          Described,        \* the orders a facade may put in its action
          Policy,           \* the readiness policy
          MaxObservations,  \* how many results are recorded
          MaxFaults         \* how many port calls fail

Absent == [state |-> "none", result |-> "PENDING", revision |-> 0]
Fresh == [state |-> "NOT_STARTED", result |-> "PENDING", revision |-> 0]
NoRecord == [id |-> 0, fingerprint |-> <<"none", "none">>]

\* What an observer asks for, and what the legacy path decided beside it.
Nothing ==
  [shadow |-> FALSE, run |-> "none", key |-> "none", kind |-> "none",
   guards |-> {}, expected |-> 0, shares |-> 0, legacy |-> "NO_ACTION",
   approved |-> "unstated", replays |-> FALSE]

Asked == Offered \cup Deliveries
Keys == {request.key : request \in Asked}

ASSUME ObservationAssumption ==
  /\ \A request \in Asked :
       DOMAIN request = DOMAIN Nothing /\ request.run \in Runs
  /\ Stored \subseteq
       [Runs -> {Absent} \cup
                  [state : States, result : Results, revision : Nat]]
  /\ \A limit \in {"conflicts", "errors", "invalid", "incomparable", "mismatches"} :
       Policy[limit] \in Nat
  /\ MaxObservations \in Nat /\ MaxFaults \in Nat

VARIABLES
  runs,          \* the run repository
  records,       \* the command record of each run and key
  calls,         \* what each observer is doing
  observations,  \* how often the harness holds each observation
  moves,         \* history: the moves the evaluations made
  faults         \* how many port calls failed so far

vars == <<runs, records, calls, observations, moves, faults>>
-----------------------------------------------------------------------------
(***************************************************************************)
(* Translation.                                                            *)
(***************************************************************************)
\* The event an observation of the runtime stands for: a cancellation the
\* broker refused is a timeout, an inconclusive reconciliation a failure.
ObservationEvents ==
  [BROKER_REQUEST_ACKNOWLEDGED |-> "BROKER_ACKNOWLEDGED",
   BROKER_REQUEST_REJECTED |-> "BROKER_REJECTED",
   BROKER_REQUEST_OUTCOME_UNCERTAIN |-> "TIMEOUT_DETECTED",
   CANCELLATION_CONFIRMED |-> "BROKER_CANCELLATION_CONFIRMED",
   CANCELLATION_REJECTED |-> "TIMEOUT_DETECTED",
   PARTIAL_FILL_OBSERVED |-> "BROKER_PARTIAL_FILL_REPORTED",
   COMPLETE_FILL_OBSERVED |-> "BROKER_FILL_REPORTED",
   RECONCILIATION_RESOLVED |-> "RECONCILIATION_RESOLVED",
   RECONCILIATION_INCONCLUSIVE |-> "QUALIFICATION_CRITERIA_FAILED"]

\* An evaluation translates only orders of one share; none is an order too.
Translatable(request) == request.shares \in {0, 1}

\* The command a request becomes.  The state a restart recovered is not
\* among what the translation passes on.
CommandOf(request) ==
  [event |-> IF request.shadow THEN request.kind
             ELSE ObservationEvents[request.kind],
   key |-> request.key, payload |-> <<request.kind, request.shares>>,
   guards |-> request.guards, expected |-> request.expected,
   recovered |-> "same"]

\* The one action the proposed effects amount to.
ActionOf ==
  [BLOCK |-> "BLOCK_CONSEQUENTIAL_ACTION",
   SEND |-> "REQUEST_BROKER_SUBMISSION",
   PREPARE_SUBMISSION |-> "PREPARE_BROKER_SUBMISSION",
   CANCEL |-> "REQUEST_BROKER_CANCELLATION",
   RECONCILE |-> "START_RECONCILIATION",
   FINALIZE |-> "FINALIZE_WITHOUT_EXTERNAL_EFFECT",
   RESUME |-> "unsupported"]

\* A rejected command proposes no effect, so it calls for no action either.
ActionFor(decision) ==
  IF decision.effects \cap DOMAIN ActionOf = {}
  THEN "NO_RUNTIME_ACTION_REQUIRED"
  ELSE ActionOf[CHOOSE effect \in decision.effects : effect \in DOMAIN ActionOf]

\* The facade answers only if the run stood where the request expects it and
\* the plan can be described as an action.
FacadeAnswers(request, decision) ==
  /\ decision.before.revision = request.expected
  /\ ActionFor(decision) # "unsupported"
-----------------------------------------------------------------------------
(***************************************************************************)
(* The comparison of the two decisions.                                    *)
(***************************************************************************)
Acceptable ==
  [NO_ACTION |-> {"NO_RUNTIME_ACTION_REQUIRED",
                  "FINALIZE_WITHOUT_EXTERNAL_EFFECT"},
   PROCEED |-> {"PREPARE_BROKER_SUBMISSION", "REQUEST_BROKER_SUBMISSION",
                "NO_RUNTIME_ACTION_REQUIRED"},
   REQUEST_SUBMISSION |-> {"REQUEST_BROKER_SUBMISSION"},
   REQUEST_CANCELLATION |-> {"REQUEST_BROKER_CANCELLATION"},
   REQUEST_RECONCILIATION |-> {"START_RECONCILIATION"},
   BLOCK |-> {"BLOCK_CONSEQUENTIAL_ACTION"},
   ABORT |-> {"BLOCK_CONSEQUENTIAL_ACTION"},
   EMERGENCY_STOP |-> {"BLOCK_CONSEQUENTIAL_ACTION"}]

Proceeding == {"PROCEED", "REQUEST_SUBMISSION"}

ActionMismatch(legacy, action) ==
  IF action \in Acceptable[legacy] THEN {}
  ELSE IF legacy \in Proceeding /\ action = "BLOCK_CONSEQUENTIAL_ACTION"
  THEN {"LEGACY_PROCEEDS_QUALIFICATION_BLOCKS"}
  ELSE IF legacy = "BLOCK" THEN {"LEGACY_BLOCKS_QUALIFICATION_PROCEEDS"}
  ELSE IF legacy = "REQUEST_CANCELLATION" THEN {"CANCELLATION_MISMATCH"}
  ELSE IF legacy = "REQUEST_RECONCILIATION" THEN {"RECONCILIATION_MISMATCH"}
  ELSE IF legacy = "EMERGENCY_STOP" THEN {"EMERGENCY_STOP_MISMATCH"}
  ELSE {"ACTION_KIND_MISMATCH"}

\* Where the legacy path proceeded, its order is compared with the one in the
\* action of the facade; 0 is no order.
OrderMismatch(request, order) ==
  IF request.legacy \notin Proceeding THEN {}
  ELSE IF request.shares = 0 \/ order = 0
  THEN {"INSUFFICIENT_COMPARISON_FACTS"}
  ELSE IF request.shares = order THEN {} ELSE {"ORDER_INTENT_MISMATCH"}

ApprovalMismatch(request, action) ==
  IF request.approved # (IF action = "BLOCK_CONSEQUENTIAL_ACTION" THEN "yes"
                         ELSE "no")
  THEN {} ELSE {"APPROVAL_MISMATCH"}

ReplayMismatch(request, decision) ==
  IF request.replays = (decision.kind = "replayed") THEN {}
  ELSE {"REPLAY_MISMATCH"}

ResultMismatch(legacy, result) ==
  IF result = "INCONCLUSIVE" THEN {"INSUFFICIENT_COMPARISON_FACTS"}
  ELSE IF legacy = "BLOCK" /\ result = "PASSED" THEN {"TERMINAL_RESULT_MISMATCH"}
  ELSE {}

Mismatches(request, decision, order) ==
  LET action == ActionFor(decision)
  IN  ActionMismatch(request.legacy, action)
        \cup OrderMismatch(request, order)
        \cup ApprovalMismatch(request, action)
        \cup ReplayMismatch(request, decision)
        \cup ResultMismatch(request.legacy, decision.after.result)

StatusFor(mismatches, result) ==
  IF mismatches = {} THEN "MATCH"
  ELSE IF mismatches = {"REPLAY_MISMATCH"}
  THEN "MATCH_WITH_NONCONSEQUENTIAL_DIFFERENCE"
  ELSE IF mismatches = {"INSUFFICIENT_COMPARISON_FACTS"}
            \/ result = "INCONCLUSIVE"
  THEN "INCOMPARABLE" ELSE "MISMATCH"

\* What a result says, and what its fingerprint is taken of.
Compared(request, decision, order) ==
  LET mismatches == Mismatches(request, decision, order)
  IN  [status |-> StatusFor(mismatches, decision.after.result),
       mismatches |-> mismatches, previous |-> decision.before.revision,
       next |-> decision.after.revision, id |-> decision.id,
       action |-> ActionFor(decision), run |-> decision.after,
       replayed |-> decision.kind = "replayed"]

\* A failure of the facade names no reason and no revision it left.
QualificationError(request) ==
  [status |-> "QUALIFICATION_ERROR", mismatches |-> {"IDENTITY_MISMATCH"},
   previous |-> request.expected, next |-> request.expected, id |-> 0,
   action |-> "none", run |-> Absent, replayed |-> FALSE]

\* The shipped facade describes actions without an order (Described = {0});
\* the runner takes any facade, and its tests give it one that names orders.
Outcome(request, decision, order) ==
  IF FacadeAnswers(request, decision)
  THEN Compared(request, decision, order)
  ELSE QualificationError(request)
-----------------------------------------------------------------------------
(***************************************************************************)
(* The validation harness and the readiness assessment.                    *)
(***************************************************************************)
\* What the identity of an observation is derived from: not the guards, the
\* approval or the replay marker.
Identity(request) ==
  <<request.run, request.key, request.kind, request.expected, request.legacy,
    request.shares>>

\* What of S is held, each observation as often as it was recorded.
Copies(held, S) == UNION {{o} \X (1 .. held[o]) : o \in S}
Count(S) == Cardinality(Copies(observations, S))
Held == {o \in DOMAIN observations : observations[o] > 0}
Groups == {o.identity : o \in Held}
Group(identity) == {o \in Held : o.identity = identity}
Fingerprints(identity) == {o.outcome : o \in Group(identity)}

\* A result continues from the revision its request expects.
Continuous(request, outcome) ==
  /\ outcome.previous = request.expected
  /\ outcome.next >= outcome.previous

\* A result that does not, or whose identity is held with other fingerprints
\* only, is recorded as invalid; its fingerprint still tells what it was.
Classified(request, outcome) ==
  [identity |-> Identity(request), outcome |-> outcome,
   class |-> IF /\ Continuous(request, outcome)
                /\ \/ Fingerprints(Identity(request)) \subseteq {outcome}
                   \/ outcome \in Fingerprints(Identity(request))
             THEN outcome.status ELSE "INVALID_SHADOW_INPUT"]

OfClass(class) == Count({o \in Held : o.class = class})
Total == Count(Held)
\* All but the first of each identity and fingerprint.
Replays == Total - Cardinality({<<o.identity, o.outcome>> : o \in Held})
Repeatable ==
  {identity \in Groups : /\ Count(Group(identity)) > 1
                         /\ Cardinality(Fingerprints(identity)) = 1}
Conflicting ==
  {identity \in Groups : Cardinality(Fingerprints(identity)) > 1}
Seen == UNION {o.outcome.mismatches : o \in Held}

EvidenceSuffices ==
  /\ Total >= Policy.total
  /\ Cardinality(Groups) >= Policy.unique
  /\ Cardinality(Repeatable) >= Policy.repeatable
  /\ Policy.replay => Replays > 0

NothingExcludes ==
  /\ Cardinality(Conflicting) <= Policy.conflicts
  /\ OfClass("QUALIFICATION_ERROR") <= Policy.errors
  /\ OfClass("INVALID_SHADOW_INPUT") <= Policy.invalid
  /\ OfClass("INCOMPARABLE") <= Policy.incomparable
  /\ OfClass("MISMATCH") <= Policy.mismatches
  /\ Policy.matchRatio => OfClass("MATCH") = Total
  /\ Seen \cap Policy.prohibited = {}
  /\ Seen \subseteq Policy.allowed

Decision ==
  IF ~NothingExcludes THEN "NOT_READY"
  ELSE IF ~EvidenceSuffices THEN "INSUFFICIENT_EVIDENCE"
  ELSE "READY_FOR_NEXT_PHASE"
-----------------------------------------------------------------------------
Idle ==
  [at |-> "idle", request |-> Nothing, loaded |-> Absent,
   decision |-> Rejected("none", Absent),
   outcome |-> QualificationError(Nothing)]

Init ==
  /\ runs \in Stored
  /\ records = [address \in Runs \X Keys |-> NoRecord]
  /\ calls = [o \in Observers |-> Idle]
  /\ observations = [o \in {} |-> 0]
  /\ moves = {}
  /\ faults = 0

Room == Total + Cardinality({o \in Observers : calls[o].at # "idle"})
          < MaxObservations

\* An observer states a revision the run has or had.  A request that cannot
\* be translated comes back as an error, and leaves nothing to record.
Ask(o) ==
  /\ calls[o].at = "idle" /\ Room
  /\ \E request \in Asked :
       \E expected \in 0 .. runs[request.run].revision :
         /\ request.shadow => Translatable(request)
         /\ calls' = [calls EXCEPT
                        ![o].at = "asked",
                        ![o].request = [request EXCEPT !.expected = expected]]
  /\ UNCHANGED <<runs, records, observations, moves, faults>>

\* A call of the service is over: a delivery is done with, an evaluation has
\* its result.
Answered(o, outcome) ==
  calls' = [calls EXCEPT ![o] =
              IF calls[o].request.shadow
              THEN [Idle EXCEPT !.at = "answered",
                                !.request = calls[o].request,
                                !.outcome = outcome]
              ELSE Idle]

\* Mutant: an error of the service is passed on, and nothing is recorded.
FailedSilently(o) == calls' = [calls EXCEPT ![o] = Idle]

\* An error of the service is a result of the evaluation.
Failed(o) == Answered(o, QualificationError(calls[o].request))

\* A run that is not there can only be started, and one that is there and
\* stands where it would begin cannot be started over.
Load(o) ==
  LET request == calls[o].request
      run == runs[request.run]
      starts == CommandOf(request).event = "START_QUALIFICATION"
  IN  /\ calls[o].at = "asked"
      /\ IF \/ run = Absent /\ ~starts
            \/ run.state = "NOT_STARTED" /\ starts /\ request.expected = 0
         THEN Failed(o)
         ELSE calls' = [calls EXCEPT ![o].at = "loaded",
                                     ![o].loaded = IF run = Absent THEN Fresh
                                                   ELSE run]
      /\ UNCHANGED <<runs, records, observations, moves, faults>>

Consider(o) ==
  LET request == calls[o].request
      decision == Decide(calls[o].loaded, CommandOf(request),
                         records[<<request.run, request.key>>])
  IN  /\ calls[o].at = "loaded"
      /\ IF decision.kind = "accepted"
         THEN calls' = [calls EXCEPT ![o].at = "accepted",
                                     ![o].decision = decision]
         ELSE \E order \in Described :
                Answered(o, Outcome(request, decision, order))
      /\ UNCHANGED <<runs, records, observations, moves, faults>>

\* The evaluation moved its run: a history of what the observation did.
Moved(request, decision) ==
  [run |-> request.run, key |-> request.key, next |-> decision.after.revision]

\* Mutant: the run is stored over whatever revision the repository holds.
SaveOverAny(o) ==
  LET request == calls[o].request
      decision == calls[o].decision
  IN  /\ calls[o].at = "accepted"
      /\ runs' = [runs EXCEPT ![request.run] = decision.after]
      /\ calls' = [calls EXCEPT ![o].at = "saved"]
      /\ moves' = IF request.shadow
                  THEN moves \cup {Moved(request, decision)} ELSE moves
      /\ UNCHANGED <<records, observations, faults>>

Save(o) ==
  LET request == calls[o].request
      decision == calls[o].decision
  IN  /\ calls[o].at = "accepted"
      /\ IF runs[request.run].revision = decision.before.revision
         THEN /\ runs' = [runs EXCEPT ![request.run] = decision.after]
              /\ calls' = [calls EXCEPT ![o].at = "saved"]
              /\ moves' = IF request.shadow
                          THEN moves \cup {Moved(request, decision)}
                          ELSE moves
         ELSE /\ Failed(o)
              /\ UNCHANGED <<runs, moves>>
      /\ UNCHANGED <<records, observations, faults>>

RecordCommand(o) ==
  LET request == calls[o].request
      decision == calls[o].decision
  IN  /\ calls[o].at = "saved"
      /\ records' = [records EXCEPT
                       ![<<request.run, request.key>>] =
                          [id |-> decision.id,
                           fingerprint |-> Fingerprint(CommandOf(request))]]
      /\ \E order \in Described :
           Answered(o, Outcome(request, decision, order))
      /\ UNCHANGED <<runs, observations, moves, faults>>

\* A port of the service fails, and what was done before stays.
PortFails(o) ==
  /\ calls[o].at \in {"asked", "loaded", "accepted", "saved"}
  /\ faults < MaxFaults
  /\ faults' = faults + 1
  /\ Failed(o)
  /\ UNCHANGED <<runs, records, observations, moves>>

\* Mutant: a result replaces what was recorded under its identity.
RecordedOver(held, observation) ==
  [o \in {h \in DOMAIN held : h.identity # observation.identity}
          \cup {observation} |->
     IF o = observation THEN 1 ELSE held[o]]

Recorded(held, observation) ==
  [o \in DOMAIN held \cup {observation} |->
     (IF o \in DOMAIN held THEN held[o] ELSE 0)
       + (IF o = observation THEN 1 ELSE 0)]

\* The observer hands its result to the harness, once or again and again.
Record(o) ==
  /\ calls[o].at \in {"answered", "recorded"}
  /\ Total < MaxObservations
  /\ observations' =
       Recorded(observations,
                Classified(calls[o].request, calls[o].outcome))
  /\ calls' = [calls EXCEPT ![o].at = "recorded"]
  /\ UNCHANGED <<runs, records, moves, faults>>

Leave(o) ==
  /\ calls[o].at = "recorded"
  /\ calls' = [calls EXCEPT ![o] = Idle]
  /\ UNCHANGED <<runs, records, observations, moves, faults>>

Next ==
  \E o \in Observers :
    \/ Ask(o)
    \/ Load(o)
    \/ Consider(o)
    \/ Save(o)
    \/ RecordCommand(o)
    \/ PortFails(o)
    \/ Record(o)
    \/ Leave(o)

Spec == Init /\ [][Next]_vars
-----------------------------------------------------------------------------
\* "Ready" accounts for what the observation itself did to the runs: every
\* move an evaluation made, failed calls included, is there as a match.
ReadyAccountsForRuns ==
  /\ Decision = "READY_FOR_NEXT_PHASE"
  /\ \A o \in Observers : calls[o].at = "idle"
  => \A move \in moves :
       \E o \in Held :
         /\ o.class = "MATCH"
         /\ o.outcome.next = move.next
         /\ o.identity[1] = move.run /\ o.identity[2] = move.key

\* What is held as agreed, an action and not only that none is called for.
Agreed ==
  {o \in Held : /\ o.class = "MATCH"
               /\ o.outcome.action # "NO_RUNTIME_ACTION_REQUIRED"}

MoveOf(o) ==
  [run |-> o.identity[1], key |-> o.identity[2], next |-> o.outcome.next]

\* An action is agreed on only if the run made the move it stands for, under the
\* key of that evaluation and to the revision the result reports, and no move is
\* agreed on under two keys: of evaluations that decide from one revision, the
\* save lets one through, and the others are errors on record.
AgreedActionsAreMoves ==
  /\ \A o \in Agreed : MoveOf(o) \in moves
  /\ \A o, p \in Agreed :
       /\ MoveOf(o).run = MoveOf(p).run
       /\ MoveOf(o).next = MoveOf(p).next
       => MoveOf(o).key = MoveOf(p).key

\* No later evidence makes up for what excluded the next phase.
NotReadyIsFinal ==
  [][Decision = "NOT_READY" => Decision' = "NOT_READY"]_vars
-----------------------------------------------------------------------------
(***************************************************************************)
(* What the properties rest on.                                            *)
(***************************************************************************)
HeldOK ==
  /\ IsFiniteSet(DOMAIN observations)
  /\ observations \in [DOMAIN observations -> Nat \ {0}]

\* A result that agrees on an action is of a move that was made.
Earned(outcome, run, key) ==
  outcome.status = "MATCH" /\ outcome.action # "NO_RUNTIME_ACTION_REQUIRED"
    => [run |-> run, key |-> key, next |-> outcome.next] \in moves

\* What an evaluation was asked is of a run of the repository; what it decided
\* moves the run by one revision.
CallOK(o) ==
  LET request == calls[o].request
      decision == calls[o].decision
  IN  /\ DOMAIN calls[o] = {"at", "request", "loaded", "decision", "outcome"}
      /\ calls[o].at # "idle" => request.run \in Runs
      /\ calls[o].at \in {"accepted", "saved"} =>
           decision.after.revision = decision.before.revision + 1
      /\ calls[o].at = "saved" /\ request.shadow =>
           Moved(request, decision) \in moves
      /\ calls[o].at \in {"answered", "recorded"} =>
           Earned(calls[o].outcome, request.run, request.key)

\* The revisions of the runs are numbers, no move is beyond them, and no two
\* moves of a run lead to one revision.
RunsOK ==
  /\ DOMAIN runs = Runs
  /\ \A run \in Runs : runs[run].revision \in Nat
  /\ \A move \in moves : /\ move.run \in Runs
                         /\ move.next \in Nat
                         /\ move.next <= runs[move.run].revision
  /\ \A m, n \in moves : m.run = n.run /\ m.next = n.next => m.key = n.key

\* A move is on its way to be recorded, by the call that made it ...
Underway(move, o) ==
  /\ calls[o].request.shadow
  /\ calls[o].request.run = move.run /\ calls[o].request.key = move.key
  /\ \/ calls[o].at = "saved" /\ calls[o].decision.after.revision = move.next
     \/ /\ calls[o].at = "answered"
        /\ calls[o].outcome.status = "MATCH" => calls[o].outcome.next = move.next

\* ... or was recorded, as a match or as something else.
OnRecord(move, o) ==
  /\ o.identity[1] = move.run /\ o.identity[2] = move.key
  /\ o.class = "MATCH" => o.outcome.next = move.next

MovesAreKept ==
  \A move \in moves :
    \/ \E o \in Observers : Underway(move, o)
    \/ \E o \in Held : OnRecord(move, o)

\* The inductive invariant.
IInv ==
  /\ HeldOK
  /\ DOMAIN calls = Observers
  /\ \A o \in Observers : CallOK(o)
  /\ RunsOK
  /\ \A o \in Held :
       o.class = "MATCH" => /\ o.outcome.status = "MATCH"
                            /\ Earned(o.outcome, o.identity[1], o.identity[2])
  /\ MovesAreKept
=============================================================================
