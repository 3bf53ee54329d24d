--------------------------- MODULE PaperSubmission ---------------------------
(***************************************************************************)
(* The durable one-shot paper dispatch protocol: transactional intake of a *)
(* submit command, election of one worker by an append-only claim, the     *)
(* final authorization that linearizes with the emergency stop, the call   *)
(* of the one-shot boundary, and the atomic recording of its outcome.      *)
(*                                                                         *)
(* Each action is one SQLite transaction (BEGIN IMMEDIATE ... COMMIT) or   *)
(* one step outside any transaction, of one caller of                      *)
(* ControlledPaperSubmissionService.apply_once.  Callers are Workers: each *)
(* has its own connection, so their transactions serialize and everything  *)
(* between two transactions interleaves.                                   *)
(*                                                                         *)
(* A submit command owns one aggregate, one idempotency key and one        *)
(* approval, so all four are named by the command.                         *)
(***************************************************************************)
EXTENDS Integers, Sequences

CONSTANTS
  Workers,          \* concurrent callers of apply_once, one connection each
  Commands,         \* submit commands (and their aggregate, key and approval)
  Submissions,      \* submission identities a caller may name
  References,       \* broker order references the broker may return
  Requests,         \* ControlledSubmissionRequests callers may present
  InvalidOrders,    \* commands whose payload ControlledPaperOrder refuses
  ApprovalExpiry,   \* last instant at which each command's approval is valid
  ControlSettings,  \* rows the operator may write into the dispatch control
  MaxGeneration,    \* bound on the control generation
  MaxClock,         \* bound on the clock
  Interruptions,    \* may a caller crash, or raise out of apply_once?
  StorageFaults,    \* may the recording transaction raise (busy, disk)?
  None              \* no row, no value (SQL NULL)

ControlFlags ==
  [enabled : BOOLEAN, emergencyStop : BOOLEAN, legacyAuthority : BOOLEAN]

ASSUME RequestsAssumption ==
  Requests \subseteq
    [submission : Submissions, command : Commands, key : Commands]

ASSUME ApprovalAssumption ==
  /\ InvalidOrders \subseteq Commands
  /\ ApprovalExpiry \in [Commands -> Nat]

ASSUME ControlAssumption ==
  /\ ControlSettings \subseteq ControlFlags
  /\ MaxGeneration \in Nat
  /\ MaxClock \in Nat

ASSUME FaultsAssumption == Interruptions \in BOOLEAN /\ StorageFaults \in BOOLEAN

Claim == [submission : Submissions, generation : Nat, revision : Nat]

Resolution ==
  [status : {"PRE_EFFECT_BLOCKED", "ACKNOWLEDGED", "BROKER_REJECTED",
             "OUTCOME_UNKNOWN", "BROKER_REFERENCE_CONFLICT"},
   reference : References \cup {None},
   owner : Commands \cup {None}]

Answer ==
  [status : {"BLOCKED", "IDENTITY_CONFLICT", "EXACT_REPLAY", "ACKNOWLEDGED",
             "BROKER_REJECTED", "PRE_DISPATCH_FAILURE", "OUTCOME_UNKNOWN"},
   command : Commands,
   token : BOOLEAN,        \* does the result carry the claim token?
   reference : References \cup {None}]

ASSUME NoneAssumption ==
  /\ None \notin Commands
  /\ None \notin References
  /\ None \notin Requests
  /\ None \notin Claim
  /\ None \notin Resolution
  /\ None \notin Answer
  /\ None \notin Nat

VARIABLES
  \* Durable state: the SQLite tables.
  control,          \* execution_dispatch_controls, one row
  aggregates,       \* execution_aggregates
  journal,          \* execution_transitions
  claims,           \* execution_dispatch_claims, by command
  authorizations,   \* execution_dispatch_authorizations: control generation
  resolutions,      \* execution_dispatch_resolutions
  brokerReferences, \* execution_broker_references: owning command
  \* The environment.
  clock,
  broker,           \* what the broker knows of each command's order
  effects,          \* how many times the broker took each command's order
  raised,           \* history: commands whose recording transaction raised
  \* Process memory of each worker.
  pc,
  request,
  now,              \* the instant read by _acquire, used by both transactions
  outcome,          \* the resolution the worker is about to record
  answer,           \* what the last call returned to its caller
  \* History.
  permitted         \* generations whose control row permitted dispatch

durable == <<control, aggregates, journal, claims, authorizations, resolutions,
             brokerReferences, permitted>>
environment == <<clock, broker, effects, raised>>
memory == <<pc, request, now, outcome, answer>>
vars == <<durable, environment, memory>>

(***************************************************************************)
(* The lifecycle edges each writer appends to the journal.                 *)
(***************************************************************************)
Edge(transition, source, destination) ==
  [transition |-> transition, source |-> source, destination |-> destination]

IntakeChain ==
  << Edge("PX-TRN-002", "CREATED", "ELIGIBILITY_EVALUATED"),
     Edge("PX-TRN-005", "ELIGIBILITY_EVALUATED", "APPROVAL_CONFIRMED"),
     Edge("PX-TRN-006", "APPROVAL_CONFIRMED", "IDEMPOTENCY_RESERVED"),
     Edge("PX-TRN-007", "IDEMPOTENCY_RESERVED", "READY_FOR_DISPATCH"),
     Edge("PX-TRN-008", "READY_FOR_DISPATCH", "DISPATCH_PENDING") >>

Dispatched == Edge("PX-TRN-009", "DISPATCH_PENDING", "DISPATCHED")

OutcomeEdges(status) ==
  CASE status = "PRE_EFFECT_BLOCKED" ->
         << Edge("PX-TRN-029", "DISPATCH_PENDING", "ABORTED_BEFORE_DISPATCH") >>
    [] status = "ACKNOWLEDGED" ->
         << Dispatched, Edge("PX-TRN-010", "DISPATCHED", "BROKER_ACKNOWLEDGED") >>
    [] status = "BROKER_REJECTED" ->
         << Dispatched, Edge("PX-TRN-011", "DISPATCHED", "BROKER_REJECTED") >>
    [] OTHER ->
         << Dispatched, Edge("PX-TRN-012", "DISPATCHED", "OUTCOME_UNKNOWN") >>

\* The journal rows of a chain of edges that leaves revision `first` of c.
ChainRows(c, first, edges) ==
  {[command |-> c, revision |-> first + i, edge |-> edges[i]] :
     i \in DOMAIN edges}

\* execution_transitions refuses a second row for a revision of an aggregate,
\* and a second row for a transition identity of an aggregate.
Appendable(rows) ==
  \A row \in rows, old \in journal :
    old.command = row.command =>
      /\ old.revision # row.revision
      /\ old.edge.transition # row.edge.transition

(***************************************************************************)
(* Conditions the transactions read.                                       *)
(***************************************************************************)
Permits(row) == row.enabled /\ ~row.emergencyStop /\ ~row.legacyAuthority

ApprovalValid(c, instant) == instant <= ApprovalExpiry[c]

\* The claims an attempt collides with: same command, key or submission.
Colliding(r) ==
  {c \in Commands :
     /\ claims[c] # None
     /\ \/ c = r.command
        \/ c = r.key
        \/ claims[c].submission = r.submission}

IsReplayOf(r, c) ==
  r.command = c /\ r.key = c /\ claims[c].submission = r.submission

\* Command, aggregate, approval and reservation rows all exist.
AuthorityComplete(r) ==
  aggregates[r.command].state # "ABSENT" /\ aggregates[r.key].state # "ABSENT"

Claimable(r) ==
  /\ Colliding(r) = {}
  /\ Permits(control)
  /\ AuthorityComplete(r)
  /\ aggregates[r.command].state = "DISPATCH_PENDING"

IdentityExact(r, instant) ==
  r.key = r.command /\ ApprovalValid(r.command, instant)

\* Mutant: the second transaction trusts the control read by the first.
FinalGuardIgnoringControl(c, instant) ==
  /\ claims[c] # None
  /\ aggregates[c].state = "DISPATCH_PENDING"
  /\ aggregates[c].revision = claims[c].revision
  /\ ApprovalValid(c, instant)
  /\ authorizations[c] = None

FinalGuard(c, instant) ==
  /\ claims[c] # None
  /\ Permits(control)
  /\ control.generation = claims[c].generation
  /\ aggregates[c].state = "DISPATCH_PENDING"
  /\ aggregates[c].revision = claims[c].revision
  /\ ApprovalValid(c, instant)
  /\ authorizations[c] = None

OutcomeStartValid(c) ==
  /\ claims[c] # None
  /\ authorizations[c] = claims[c].generation
  /\ control.generation = claims[c].generation
  /\ Permits(control)
  /\ aggregates[c].state = "DISPATCH_PENDING"
  /\ aggregates[c].revision = claims[c].revision
  /\ ApprovalValid(c, clock)
  /\ resolutions[c] = None

\* register refuses a reference some command owns already, and a second
\* active reference of one aggregate.
OwnsReference(c) == \E ref \in References : brokerReferences[ref] = c

\* Mutant: the reference of another command is taken over.
ReferenceFreeIgnoringOwner(c, ref) == ref # None => ~OwnsReference(c)

ReferenceFree(c, ref) ==
  ref # None => brokerReferences[ref] = None /\ ~OwnsReference(c)

\* The owner reported with DUPLICATE_BROKER_REFERENCE.
ReportedOwner(c, ref) ==
  IF brokerReferences[ref] # None THEN brokerReferences[ref] ELSE c

\* Mutant: the comparison of owner and claimant is inverted.
ConflictOwnerIsClaimant(c, o) ==
  o.owner # None /\ brokerReferences[o.reference] = o.owner /\ o.owner = c

ConflictOwnerIsCurrent(c, o) ==
  /\ o.owner # None
  /\ brokerReferences[o.reference] = o.owner
  /\ o.owner # c

----------------------------------------------------------------------------
(***************************************************************************)
(* Initial state: the migrated database, its control row fail-closed.      *)
(***************************************************************************)
Init ==
  /\ control = [enabled |-> FALSE, emergencyStop |-> TRUE,
                legacyAuthority |-> TRUE, generation |-> 1]
  /\ aggregates = [c \in Commands |->
                     [state |-> "ABSENT", revision |-> 0, reference |-> None]]
  /\ journal = {}
  /\ claims = [c \in Commands |-> None]
  /\ authorizations = [c \in Commands |-> None]
  /\ resolutions = [c \in Commands |-> None]
  /\ brokerReferences = [ref \in References |-> None]
  /\ clock = 0
  /\ broker = [c \in Commands |-> [state |-> "UNSENT", reference |-> None]]
  /\ effects = [c \in Commands |-> 0]
  /\ raised = {}
  /\ pc = [w \in Workers |-> "idle"]
  /\ request = [w \in Workers |-> None]
  /\ now = [w \in Workers |-> 0]
  /\ outcome = [w \in Workers |-> None]
  /\ answer = [w \in Workers |-> None]
  /\ permitted = {}

(***************************************************************************)
(* The operator and the clock.                                             *)
(***************************************************************************)
\* TransactionalExecutionIntakeService.intake, the accepting path: one
\* transaction creates the aggregate and walks it to DISPATCH_PENDING.
Intake(c) ==
  /\ aggregates[c].state = "ABSENT"
  /\ aggregates' = [aggregates EXCEPT ![c] =
                      [state |-> "DISPATCH_PENDING",
                       revision |-> Len(IntakeChain),
                       reference |-> None]]
  /\ journal' = journal \cup ChainRows(c, 0, IntakeChain)
  /\ UNCHANGED <<control, claims, authorizations, resolutions,
                 brokerReferences, permitted, environment, memory>>

\* dispatch_control.save with the generation it read: the compare-and-swap
\* writes the next generation; a stale writer changes nothing.
SaveControl(setting) ==
  /\ control.generation < MaxGeneration
  /\ control' = [enabled |-> setting.enabled,
                 emergencyStop |-> setting.emergencyStop,
                 legacyAuthority |-> setting.legacyAuthority,
                 generation |-> control.generation + 1]
  /\ permitted' = IF Permits(setting)
                    THEN permitted \cup {control.generation + 1}
                    ELSE permitted
  /\ UNCHANGED <<aggregates, journal, claims, authorizations, resolutions,
                 brokerReferences, environment, memory>>

Tick ==
  /\ clock < MaxClock
  /\ clock' = clock + 1
  /\ UNCHANGED <<durable, broker, effects, raised, memory>>

(***************************************************************************)
(* apply_once, first transaction: the claim.                               *)
(***************************************************************************)
\* Mutant: the outcome of the call stays behind in the worker.
ReplyKeepingOutcome(w, status, token, ref) ==
  /\ pc' = [pc EXCEPT ![w] = "idle"]
  /\ answer' = [answer EXCEPT ![w] =
                  [status |-> status, command |-> request[w].command,
                   token |-> token, reference |-> ref]]
  /\ request' = [request EXCEPT ![w] = None]
  /\ now' = [now EXCEPT ![w] = 0]
  /\ UNCHANGED outcome

\* The call ends and its result reaches the caller.
Reply(w, status, token, ref) ==
  /\ pc' = [pc EXCEPT ![w] = "idle"]
  /\ answer' = [answer EXCEPT ![w] =
                  [status |-> status, command |-> request[w].command,
                   token |-> token, reference |-> ref]]
  /\ request' = [request EXCEPT ![w] = None]
  /\ outcome' = [outcome EXCEPT ![w] = None]
  /\ now' = [now EXCEPT ![w] = 0]

\* _acquire reads the clock once, before the first transaction begins.
Start(w, r) ==
  /\ pc[w] = "idle"
  /\ pc' = [pc EXCEPT ![w] = "acquire"]
  /\ request' = [request EXCEPT ![w] = r]
  /\ now' = [now EXCEPT ![w] = clock]
  /\ answer' = [answer EXCEPT ![w] = None]
  /\ UNCHANGED <<durable, environment, outcome>>

AcquireExisting(w) ==
  /\ pc[w] = "acquire"
  /\ \E c \in Colliding(request[w]) :
       IF IsReplayOf(request[w], c)
         THEN /\ pc' = [pc EXCEPT ![w] = "replay"]
              /\ UNCHANGED <<request, now, outcome, answer>>
         ELSE Reply(w, "IDENTITY_CONFLICT", FALSE, None)
  /\ UNCHANGED <<durable, environment>>

AcquireBlocked(w) ==
  /\ pc[w] = "acquire"
  /\ Colliding(request[w]) = {}
  /\ ~Claimable(request[w])
  /\ Reply(w, "BLOCKED", FALSE, None)
  /\ UNCHANGED <<durable, environment>>

AcquireMismatch(w) ==
  /\ pc[w] = "acquire"
  /\ Claimable(request[w])
  /\ ~IdentityExact(request[w], now[w])
  /\ Reply(w, "IDENTITY_CONFLICT", FALSE, None)
  /\ UNCHANGED <<durable, environment>>

\* The insert commits; the winner grant stays in this worker's memory only.
AcquireClaim(w) ==
  LET c == request[w].command IN
  /\ pc[w] = "acquire"
  /\ Claimable(request[w])
  /\ IdentityExact(request[w], now[w])
  /\ claims' = [claims EXCEPT ![c] =
                  [submission |-> request[w].submission,
                   generation |-> control.generation,
                   revision |-> aggregates[c].revision]]
  /\ pc' = [pc EXCEPT ![w] = "authorize"]
  /\ UNCHANGED <<control, aggregates, journal, authorizations, resolutions,
                 brokerReferences, permitted, environment, request, now,
                 outcome, answer>>

(***************************************************************************)
(* Second transaction: the final guard, linearized with the stop.          *)
(***************************************************************************)
Authorize(w) ==
  LET c == request[w].command IN
  /\ pc[w] = "authorize"
  /\ FinalGuard(c, now[w])
  /\ authorizations' = [authorizations EXCEPT ![c] = control.generation]
  /\ pc' = [pc EXCEPT ![w] = "dispatch"]
  /\ UNCHANGED <<control, aggregates, journal, claims, resolutions,
                 brokerReferences, permitted, environment, request, now,
                 outcome, answer>>

AuthorizeRefused(w) ==
  /\ pc[w] = "authorize"
  /\ ~FinalGuard(request[w].command, now[w])
  /\ Reply(w, "BLOCKED", FALSE, None)
  /\ UNCHANGED <<durable, environment>>

(***************************************************************************)
(* Outside any transaction: the order and the one-shot boundary.           *)
(***************************************************************************)
\* The worker has normalized what it observed and goes on to record it.
Conclude(w, status, ref) ==
  /\ pc' = [pc EXCEPT ![w] = "record"]
  /\ outcome' = [outcome EXCEPT ![w] =
                   [status |-> status, reference |-> ref, owner |-> None]]
  /\ UNCHANGED <<request, now, answer>>

\* ControlledPaperOrder.from_claim raises: INVALID_DURABLE_ORDER.
RejectOrder(w) ==
  /\ pc[w] = "dispatch"
  /\ request[w].command \in InvalidOrders
  /\ Conclude(w, "PRE_EFFECT_BLOCKED", None)
  /\ UNCHANGED <<durable, environment>>

\* The boundary is called; from here the order may reach the broker.
Dispatch(w) ==
  /\ pc[w] = "dispatch"
  /\ request[w].command \notin InvalidOrders
  /\ broker' = [broker EXCEPT ![request[w].command] =
                  [state |-> "IN_FLIGHT", reference |-> None]]
  /\ pc' = [pc EXCEPT ![w] = "await"]
  /\ UNCHANGED <<durable, clock, effects, raised, request, now, outcome, answer>>

\* The broker takes an order in flight, however late, and answers with a
\* reference, which need not be one it never used before.
BrokerReceives(c, verdict, ref) ==
  /\ broker[c].state = "IN_FLIGHT"
  /\ broker' = [broker EXCEPT ![c] = [state |-> verdict, reference |-> ref]]
  /\ effects' = [effects EXCEPT ![c] = @ + 1]
  /\ UNCHANGED <<durable, clock, raised, memory>>

\* A PaperDispatchObservation: the broker accepted or rejected the order.
ReturnObservation(w) ==
  LET c == request[w].command IN
  /\ pc[w] = "await"
  /\ broker[c].state \in {"ACCEPTED", "REJECTED"}
  /\ Conclude(w, IF broker[c].state = "ACCEPTED"
                   THEN "ACKNOWLEDGED" ELSE "BROKER_REJECTED",
              broker[c].reference)
  /\ UNCHANGED <<durable, environment>>

\* Mutant: an unknown outcome is retried.
ReturnUnknownRetrying(w) ==
  /\ pc[w] = "await"
  /\ pc' = [pc EXCEPT ![w] = "dispatch"]
  /\ UNCHANGED <<durable, environment, request, now, outcome, answer>>

\* Mutant: an unknown outcome is taken for a failure before dispatch.
ReturnUnknownAsBlocked(w) ==
  /\ pc[w] = "await"
  /\ Conclude(w, "PRE_EFFECT_BLOCKED", None)
  /\ UNCHANGED <<durable, environment>>

\* Mutant: an unknown outcome is answered and not recorded.
ReturnUnknownUnrecorded(w) ==
  /\ pc[w] = "await"
  /\ Reply(w, "OUTCOME_UNKNOWN", TRUE, None)
  /\ UNCHANGED <<durable, environment>>

\* The boundary raises, reports POSSIBLE_POST_DISPATCH or returns a value
\* that is not of this submission: the order may still be in flight.
ReturnUnknown(w) ==
  /\ pc[w] = "await"
  /\ Conclude(w, "OUTCOME_UNKNOWN", None)
  /\ UNCHANGED <<durable, environment>>

\* A PaperDispatchFailure of phase PRE_DISPATCH: the order never left.
ReturnPreDispatch(w) ==
  LET c == request[w].command IN
  /\ pc[w] = "await"
  /\ broker[c].state = "IN_FLIGHT"
  /\ broker' = [broker EXCEPT ![c] =
                  [state |-> "WITHDRAWN", reference |-> None]]
  /\ Conclude(w, "PRE_EFFECT_BLOCKED", None)
  /\ UNCHANGED <<durable, clock, effects, raised>>

(***************************************************************************)
(* Third transaction: record_dispatch_outcome.                             *)
(***************************************************************************)
\* The write set of one outcome commits as a whole.
CommitOutcome(c, o) ==
  LET edges == OutcomeEdges(o.status)
      rows  == ChainRows(c, aggregates[c].revision, edges)
  IN  /\ Appendable(rows)
      /\ journal' = journal \cup rows
      /\ aggregates' = [aggregates EXCEPT ![c] =
                          [state |-> edges[Len(edges)].destination,
                           revision |-> @.revision + Len(edges),
                           reference |-> o.reference]]
      /\ resolutions' = [resolutions EXCEPT ![c] = o]

RecordedAnswer(w) ==
  LET o == outcome[w] IN
  IF o.status # "PRE_EFFECT_BLOCKED"
    THEN Reply(w, IF o.status = "BROKER_REFERENCE_CONFLICT"
                    THEN "OUTCOME_UNKNOWN" ELSE o.status,
               TRUE, o.reference)
  ELSE IF request[w].command \in InvalidOrders
    THEN Reply(w, "BLOCKED", FALSE, None)
    ELSE Reply(w, "PRE_DISPATCH_FAILURE", TRUE, None)

\* Mutant: the normalized result is returned though it was not recorded.
UnrecordedAnswerAsObserved(w) ==
  LET o == outcome[w] IN
  IF o.status \in {"ACKNOWLEDGED", "BROKER_REJECTED"}
    THEN Reply(w, o.status, TRUE, o.reference)
    ELSE Reply(w, "OUTCOME_UNKNOWN", TRUE, o.reference)

\* DURABLE_RECORDING_FAILED, or a conflict that could not be recorded; the
\* result of recording an invalid order is ignored.
UnrecordedAnswer(w) ==
  IF request[w].command \in InvalidOrders
    THEN Reply(w, "BLOCKED", FALSE, None)
    ELSE Reply(w, "OUTCOME_UNKNOWN", TRUE, outcome[w].reference)

Record(w) ==
  LET c == request[w].command
      o == outcome[w]
  IN  /\ pc[w] = "record"
      /\ OutcomeStartValid(c)
      /\ ReferenceFree(c, o.reference)
      /\ CommitOutcome(c, o)
      /\ brokerReferences' =
           [ref \in References |->
              IF ref = o.reference THEN c ELSE brokerReferences[ref]]
      /\ RecordedAnswer(w)
      /\ UNCHANGED <<control, claims, authorizations, permitted, environment>>

\* The reference has another owner: the transaction rolls back and a second
\* attempt will record the conflict instead.
FindConflict(w) ==
  LET c == request[w].command
      o == outcome[w]
  IN  /\ pc[w] = "record"
      /\ OutcomeStartValid(c)
      /\ ~ReferenceFree(c, o.reference)
      /\ pc' = [pc EXCEPT ![w] = "conflict"]
      /\ outcome' = [outcome EXCEPT ![w] =
                       [status |-> "BROKER_REFERENCE_CONFLICT",
                        reference |-> o.reference,
                        owner |-> ReportedOwner(c, o.reference)]]
      /\ UNCHANGED <<durable, environment, request, now, answer>>

RecordConflict(w) ==
  LET c == request[w].command
      o == outcome[w]
  IN  /\ pc[w] = "conflict"
      /\ OutcomeStartValid(c)
      /\ ConflictOwnerIsCurrent(c, o)
      /\ CommitOutcome(c, o)
      /\ RecordedAnswer(w)
      /\ UNCHANGED <<control, claims, authorizations, brokerReferences,
                     permitted, environment>>

\* The authoritative start of the write set is no longer valid: rolled back.
RecordRefused(w) ==
  /\ \/ pc[w] = "record" /\ ~OutcomeStartValid(request[w].command)
     \/ /\ pc[w] = "conflict"
        /\ ~(/\ OutcomeStartValid(request[w].command)
             /\ ConflictOwnerIsCurrent(request[w].command, outcome[w]))
  /\ UnrecordedAnswer(w)
  /\ UNCHANGED <<durable, environment>>

\* The transaction raises; _record_resolution swallows the exception.
RecordFails(w) ==
  /\ StorageFaults
  /\ pc[w] \in {"record", "conflict"}
  /\ raised' = raised \cup {request[w].command}
  /\ UnrecordedAnswer(w)
  /\ UNCHANGED <<durable, clock, broker, effects>>

(***************************************************************************)
(* Replay of a claimed command, and interruption.                          *)
(***************************************************************************)
Replay(w) ==
  LET r == resolutions[request[w].command] IN
  /\ pc[w] = "replay"
  /\ IF r = None
       THEN Reply(w, "BLOCKED", TRUE, None)
     ELSE IF r.status = "PRE_EFFECT_BLOCKED"
       THEN Reply(w, "EXACT_REPLAY", TRUE, None)
     ELSE IF r.status \in {"ACKNOWLEDGED", "BROKER_REJECTED"}
       THEN Reply(w, r.status, TRUE, r.reference)
       ELSE Reply(w, "OUTCOME_UNKNOWN", TRUE, r.reference)
  /\ UNCHANGED <<durable, environment>>

\* The process dies, or a transaction other than the recording one raises
\* out of apply_once: memory, and with it the winner grant, is lost.
Interrupt(w) ==
  /\ Interruptions
  /\ pc[w] # "idle"
  /\ pc' = [pc EXCEPT ![w] = "idle"]
  /\ request' = [request EXCEPT ![w] = None]
  /\ now' = [now EXCEPT ![w] = 0]
  /\ outcome' = [outcome EXCEPT ![w] = None]
  /\ UNCHANGED <<durable, environment, answer>>

----------------------------------------------------------------------------
ApplyOnce(w) ==
  \/ AcquireExisting(w)
  \/ AcquireBlocked(w)
  \/ AcquireMismatch(w)
  \/ AcquireClaim(w)
  \/ Authorize(w)
  \/ AuthorizeRefused(w)
  \/ RejectOrder(w)
  \/ Dispatch(w)
  \/ ReturnObservation(w)
  \/ ReturnUnknown(w)
  \/ ReturnPreDispatch(w)
  \/ Record(w)
  \/ FindConflict(w)
  \/ RecordConflict(w)
  \/ RecordRefused(w)
  \/ RecordFails(w)
  \/ Replay(w)

Broker(c) ==
  \E verdict \in {"ACCEPTED", "REJECTED"}, ref \in References :
    BrokerReceives(c, verdict, ref)

Next ==
  \/ \E c \in Commands : Intake(c) \/ Broker(c)
  \/ \E setting \in ControlSettings : SaveControl(setting)
  \/ Tick
  \/ \E w \in Workers : ApplyOnce(w) \/ Interrupt(w)
  \/ \E w \in Workers, r \in Requests : Start(w, r)

Spec == Init /\ [][Next]_vars

\* A call that has begun runs: each of its steps is straight-line code, and
\* the one-shot boundary returns or raises.
FairSpec == Spec /\ \A w \in Workers : WF_vars(ApplyOnce(w))
----------------------------------------------------------------------------
(***************************************************************************)
(* Properties.                                                             *)
(***************************************************************************)
AggregateStates ==
  {"ABSENT", "DISPATCH_PENDING", "BROKER_ACKNOWLEDGED", "BROKER_REJECTED",
   "OUTCOME_UNKNOWN", "ABORTED_BEFORE_DISPATCH"}

BrokerStates ==
  {"UNSENT", "IN_FLIGHT", "WITHDRAWN", "ACCEPTED", "REJECTED"}

Steps ==
  {"idle", "acquire", "authorize", "dispatch", "await", "record", "conflict",
   "replay"}

\* The states in which a worker acts as the elected owner of its command.
Owning == {"authorize", "dispatch", "await", "record", "conflict"}

DurableTypeOK ==
  /\ control \in [enabled : BOOLEAN, emergencyStop : BOOLEAN,
                  legacyAuthority : BOOLEAN, generation : Nat]
  /\ aggregates \in [Commands -> [state : AggregateStates, revision : Nat,
                                  reference : References \cup {None}]]
  /\ \A row \in journal : row.command \in Commands /\ row.revision \in Nat
  /\ claims \in [Commands -> Claim \cup {None}]
  /\ authorizations \in [Commands -> Nat \cup {None}]
  /\ resolutions \in [Commands -> Resolution \cup {None}]
  /\ brokerReferences \in [References -> Commands \cup {None}]
  /\ permitted \subseteq Nat

EnvironmentTypeOK ==
  /\ clock \in Nat
  /\ broker \in [Commands -> [state : BrokerStates,
                              reference : References \cup {None}]]
  /\ effects \in [Commands -> Nat]
  /\ raised \subseteq Commands

MemoryTypeOK ==
  /\ pc \in [Workers -> Steps]
  /\ request \in [Workers -> Requests \cup {None}]
  /\ now \in [Workers -> Nat]
  /\ outcome \in [Workers -> Resolution \cup {None}]
  /\ answer \in [Workers -> Answer \cup {None}]
  /\ \A w \in Workers : request[w] = None <=> pc[w] = "idle"
  /\ \A w \in Workers : outcome[w] # None <=> pc[w] \in {"record", "conflict"}

\* Every variable keeps its type; a worker holds a request exactly while a
\* call runs and an outcome exactly while it records one.
TypeOK == DurableTypeOK /\ EnvironmentTypeOK /\ MemoryTypeOK

\* The broker takes each command's order at most once, whatever workers
\* race, crash, replay or retry, and however late the order arrives
\* (ADR-009: claims elect exactly one in-process effect authority).
AtMostOneEffect == \A c \in Commands : effects[c] <= 1

\* An order is only ever on its way to the broker, or taken by it, under a
\* durable authorization of the claim's own control generation, and that
\* generation permitted dispatch: a stop committed before the final guard
\* prevents the effect, even when an enabled control follows it.
EffectUnderPermit ==
  \A c \in Commands :
    (effects[c] > 0 \/ broker[c].state # "UNSENT") =>
      /\ claims[c] # None
      /\ authorizations[c] = claims[c].generation
      /\ authorizations[c] \in permitted

\* An outcome agrees with what the broker did, and will go on doing so.
Truthful(c, o) ==
  /\ o.status = "ACKNOWLEDGED" =>
       broker[c] = [state |-> "ACCEPTED", reference |-> o.reference]
  /\ o.status = "BROKER_REJECTED" =>
       broker[c] = [state |-> "REJECTED", reference |-> o.reference]
  /\ o.status = "PRE_EFFECT_BLOCKED" =>
       effects[c] = 0 /\ broker[c].state \in {"UNSENT", "WITHDRAWN"}
  /\ o.status = "BROKER_REFERENCE_CONFLICT" =>
       /\ broker[c].state \in {"ACCEPTED", "REJECTED"}
       /\ broker[c].reference = o.reference
  /\ o.status = "OUTCOME_UNKNOWN" =>
       broker[c].state \in {"IN_FLIGHT", "ACCEPTED", "REJECTED"}
  /\ o.status \in {"PRE_EFFECT_BLOCKED", "OUTCOME_UNKNOWN"} =>
       o.reference = None

\* What is durably recorded of an outcome is what the broker did: an
\* acknowledgement or rejection carries the broker's own verdict and
\* reference, and a pre-effect block is recorded only for an order that the
\* broker never takes, then or later.
VerdictIsTruthful ==
  \A c \in Commands : resolutions[c] # None => Truthful(c, resolutions[c])

\* check_dispatch_claim_bindings, run at start-up, would pass at any crash
\* point: a claim is backed by an accepted command, by a generation the
\* control has reached, and an unresolved claim still finds its aggregate
\* pending at the claimed revision; no two claims share a submission.
ClaimBindings ==
  \A c \in Commands :
    claims[c] # None =>
      /\ aggregates[c].state # "ABSENT"
      /\ claims[c].generation <= control.generation
      /\ resolutions[c] = None =>
           /\ aggregates[c].state = "DISPATCH_PENDING"
           /\ aggregates[c].revision = claims[c].revision
      /\ \A d \in Commands \ {c} :
           claims[d] # None => claims[d].submission # claims[c].submission

\* check_dispatch_outcome_bindings, run at start-up, would pass at any crash
\* point: a resolution belongs to an authorized claim, the journal holds
\* exactly the chain of its status from the claimed revision on, the
\* aggregate is where the chain ends, and the reference it carries is owned
\* by this command, or for a conflict by the other command it names.
OutcomeBindings ==
  \A c \in Commands :
    /\ authorizations[c] # None =>
         claims[c] # None /\ authorizations[c] = claims[c].generation
    /\ resolutions[c] # None =>
         LET r     == resolutions[c]
             edges == OutcomeEdges(r.status)
         IN  /\ authorizations[c] # None
             /\ {row \in journal :
                   row.command = c /\ row.revision > claims[c].revision}
                  = ChainRows(c, claims[c].revision, edges)
             /\ aggregates[c] = [state |-> edges[Len(edges)].destination,
                                 revision |-> claims[c].revision + Len(edges),
                                 reference |-> r.reference]
             /\ r.status # "BROKER_REFERENCE_CONFLICT" =>
                  \A ref \in References :
                    brokerReferences[ref] = c <=> ref = r.reference
             /\ r.status = "BROKER_REFERENCE_CONFLICT" =>
                  r.owner # c /\ brokerReferences[r.reference] = r.owner

\* The integrity checks of a start-up find nothing, whenever the process is
\* started again: neither in the claims nor in the outcomes.
StartupChecksPass == ClaimBindings /\ OutcomeBindings

\* What is durable when an answer is given: its verdict and reference, or that
\* the broker never takes the order; for an unknown outcome, an authorization.
Backed(a) ==
  LET r == resolutions[a.command] IN
  /\ a.status \in {"ACKNOWLEDGED", "BROKER_REJECTED"} =>
       r # None /\ r.status = a.status /\ r.reference = a.reference
  /\ a.status \in {"PRE_DISPATCH_FAILURE", "EXACT_REPLAY"} =>
       r # None /\ r.status = "PRE_EFFECT_BLOCKED"
  /\ a.status = "OUTCOME_UNKNOWN" => authorizations[a.command] # None

\* A definite answer is durable before it is given: whatever a caller was
\* told last, a later replay would tell the same.
AnswersAreDurable ==
  \A w \in Workers : answer[w] # None => Backed(answer[w])

\* Outcome evidence is lost for three reasons only.  When a caller was told that
\* an outcome is unknown and no resolution of the command is durable (ADR-009:
\* "After the effect returns or raises, a third short transaction atomically
\* records the append-only resolution"), the recording transaction raised, or
\* the control moved on since the claim, or the approval ran out: never a
\* replay, a rival, a crash or a clash of references by itself.
LossHasCause ==
  \A w \in Workers :
    LET c == answer[w].command IN
    /\ answer[w] # None
    /\ answer[w].status = "OUTCOME_UNKNOWN"
    /\ resolutions[c] = None
    => \/ c \in raised
       \/ control.generation # claims[c].generation
       \/ ~ApprovalValid(c, clock)

\* An authorized command is eventually resolved, if nothing interrupts its
\* worker and nobody moves the control.
AuthorizedIsResolved ==
  \A c \in Commands : authorizations[c] # None ~> resolutions[c] # None

(***************************************************************************)
(* The inductive invariant behind the safety properties.                   *)
(***************************************************************************)
\* At most one worker acts as owner of a command, on an unresolved claim.
Elected ==
  /\ \A w \in Workers :
       pc[w] \in Owning =>
         /\ claims[request[w].command] # None
         /\ resolutions[request[w].command] = None
  /\ \A v, w \in Workers :
       /\ pc[v] \in Owning
       /\ pc[w] \in Owning
       /\ request[v].command = request[w].command
       => v = w

\* How far the owner of a command has come, and what the tables and the
\* broker show of it.
OwnerPhase ==
  \A w \in Workers :
    LET c == request[w].command IN
    /\ pc[w] = "authorize" => authorizations[c] = None
    /\ pc[w] \in Owning \ {"authorize"} => authorizations[c] # None
    /\ pc[w] = "dispatch" => broker[c].state = "UNSENT"
    /\ pc[w] = "await" => broker[c].state \in {"IN_FLIGHT", "ACCEPTED", "REJECTED"}
    /\ pc[w] \in {"record", "conflict"} => Truthful(c, outcome[w])

\* Claim, authorization, resolution and effect follow one another, under a
\* generation that permitted dispatch.
Ledger ==
  /\ Permits(control) => control.generation \in permitted
  /\ \A c \in Commands :
       /\ claims[c] = None => authorizations[c] = None
       /\ authorizations[c] = None =>
            resolutions[c] = None /\ broker[c].state = "UNSENT"
       /\ authorizations[c] # None =>
            /\ authorizations[c] = claims[c].generation
            /\ authorizations[c] \in permitted
       /\ broker[c].state \in {"ACCEPTED", "REJECTED"} => effects[c] = 1
       /\ broker[c].state \notin {"ACCEPTED", "REJECTED"} => effects[c] = 0

IInv == TypeOK /\ Elected /\ OwnerPhase /\ Ledger /\ VerdictIsTruthful

\* The journal of a command ends at its aggregate, a command owns no reference
\* before its outcome is recorded, and a recorded conflict names both sides.
Registered ==
  /\ \A row \in journal : row.revision <= aggregates[row.command].revision
  /\ \A c \in Commands : aggregates[c].state = "ABSENT" => aggregates[c].revision = 0
  /\ \A c \in Commands :
       IF resolutions[c] = None THEN ~OwnsReference(c)
       ELSE resolutions[c].status = "BROKER_REFERENCE_CONFLICT" =>
              /\ resolutions[c].reference \in References
              /\ resolutions[c].owner \in Commands

\* A conflict is recorded by the second attempt and never by the first.
Attempted ==
  \A w \in Workers :
    /\ pc[w] = "record" => outcome[w].status # "BROKER_REFERENCE_CONFLICT"
    /\ pc[w] = "conflict" =>
         /\ outcome[w].status = "BROKER_REFERENCE_CONFLICT"
         /\ outcome[w].reference \in References

\* What the integrity checks of a start-up rest on.
BindingsInv == IInv /\ StartupChecksPass /\ Registered /\ Attempted

\* A generation of the control permits dispatch for as long as it is in force,
\* and the owner that a conflict names stays the owner.
Steady ==
  /\ \A generation \in permitted : generation <= control.generation
  /\ control.generation \in permitted => Permits(control)
  /\ \A w \in Workers :
       pc[w] = "conflict" =>
         /\ outcome[w].owner # None
         /\ outcome[w].owner # request[w].command
         /\ brokerReferences[outcome[w].reference] = outcome[w].owner

\* What the reasons of a lost outcome rest on.
RecordedInv == BindingsInv /\ Steady /\ LossHasCause

(***************************************************************************)
(* The protocol implements one-shot dispatch.                              *)
(***************************************************************************)
OneShot ==
  INSTANCE OneShotDispatch WITH
    open    <- Permits(control),
    granted <- {c \in Commands : authorizations[c] # None},
    order   <- [c \in Commands |-> broker[c].state],
    verdict <- [c \in Commands |->
                  IF resolutions[c] = None THEN "NONE"
                  ELSE resolutions[c].status]

\* Every behaviour of the protocol is a behaviour of one-shot dispatch.
ImplementsOneShot == OneShot!Spec

=============================================================================
