------------------------- MODULE TransactionalIntake -------------------------
(***************************************************************************)
(* Intake of paper commands, dispatch claims and operator control through  *)
(* the execution unit of work, over its two adapters.                      *)
(*                                                                         *)
(* "snapshot" is the process-local adapter: a unit copies the shared state *)
(* field by field and WITHOUT the lock when it is made, stages its writes  *)
(* on the copy, and takes the lock to commit; the commit validates the     *)
(* staged writes against the latest state and then assigns the fields one  *)
(* by one.  "immediate" is the SQLite adapter: BEGIN IMMEDIATE excludes    *)
(* every other unit until the commit, which is one step, or the crash.     *)
(*                                                                         *)
(* A caller performs one job: the intake of a request, the dispatch of a   *)
(* command (claim, authorization and outcome, a unit each) or a change of  *)
(* the dispatch control.  A retry is one more caller with the same job.    *)
(***************************************************************************)
EXTENDS Naturals, Sequences, FiniteSets, Functions

CONSTANTS
    Callers,        \* threads or processes, one job each
    Requests,       \* intake requests: command, key, aggregate, payload, approval
    Attempts,       \* dispatch attempts: submission, command, key
    Isolations,     \* the adapters considered
    Prior,          \* the requests that may be durable before the callers start
    None            \* no record

VARIABLES
    store,      \* the shared records, by collection
    lock,       \* the caller that holds the commit lock or the write transaction
    isolation,  \* the adapter in use
    at,         \* where each caller is in its unit
    job,        \* what each caller does
    unit,       \* the unit of the job that is under way
    view,       \* the copy the unit works on, then the state it publishes
    writes,     \* what the unit has staged
    answer      \* what the caller was told

vars == <<store, lock, isolation, at, job, unit, view, writes, answer>>

Commands == {r.command : r \in Requests}
Keys == {r.key : r \in Requests}
Aggregates == {r.aggregate : r \in Requests}
Approvals == {r.approval : r \in Requests}
Payloads == {r.payload : r \in Requests}

\* A command identity is of one immutable envelope (PaperExecutionCommandId), and
\* a caller that takes it for another gives another payload. The intake compares
\* payloads only: it does not check the rest of the envelope.
ASSUME IntakeAssumption ==
    /\ \A a \in Attempts : \E r \in Requests : a.command = r.command /\ a.key = r.key
    /\ \A r, s \in Requests :
           r.command = s.command /\ r.payload = s.payload => r = s
    /\ Isolations \subseteq {"snapshot", "immediate"}
    /\ Prior \subseteq Requests
    /\ IsFiniteSet(Callers)

\* What callers do, the units they do it in, where they are in a unit, and what
\* they are told.
Jobs ==
    [kind : {"intake"}, request : Requests]
        \cup {[kind |-> "dispatch", command |-> a.command, key |-> a.key,
                submission |-> a.submission] : a \in Attempts}
        \cup [kind : {"control"}, permits : BOOLEAN]

Phases == {"idle", "begin", "open", "staged", "publishing", "done"}
UnitKinds == {"intake", "control", "claim", "authorize", "outcome"}
Answers == {"ACCEPTED_FOR_DISPATCH", "EXACT_REPLAY", "LOGICAL_REPLAY", "COMMAND_CONFLICT",
            "IDEMPOTENCY_CONFLICT", "STALE_REVISION", "TRANSACTION_ABORTED", "SAVED",
            "ALREADY_CLAIMED", "STOPPED", "BLOCKED", "IDENTITY_CONFLICT", "RECORDED",
            "UNRECORDED", "BUSY", "CRASHED"}

-----------------------------------------------------------------------------
(***************************************************************************)
(* The records.                                                            *)
(***************************************************************************)

\* The collections in the order in which a snapshot copies them and a commit
\* replaces them.
Fields == <<"aggregates", "commands", "reservations", "journal", "approvals",
            "control", "claims", "authorizations", "resolutions">>

\* The rows of the initial chain, CREATED to DISPATCH_PENDING.
InitialChain == <<"PX-TRN-002", "PX-TRN-005", "PX-TRN-006", "PX-TRN-007", "PX-TRN-008">>

\* The rows of a dispatch whose broker acknowledged the order.
OutcomeChain == <<"PX-TRN-009", "PX-TRN-010">>

CommandRecord(r) ==
    [aggregate |-> r.aggregate, key |-> r.key, payload |-> r.payload, approval |-> r.approval]

ReservationRecord(r) ==
    [command |-> r.command, aggregate |-> r.aggregate, payload |-> r.payload]

\* An approval is bound to the payload it was given for.
ApprovalRecord(r) == r.payload

AggregateRecord(state, revision, command) ==
    [state |-> state, revision |-> revision, command |-> command]

Entries(rows, command) == [i \in 1 .. Len(rows) |-> [row |-> rows[i], command |-> command]]

ControlRecord(generation, permits) == [generation |-> generation, permits |-> permits]

CommandRecords ==
    [aggregate : Aggregates, key : Keys, payload : Payloads, approval : Approvals]
ReservationRecords == [command : Commands, aggregate : Aggregates, payload : Payloads]
AggregateRecords ==
    [state : {"DISPATCH_PENDING", "BROKER_ACKNOWLEDGED"}, revision : Nat, command : Commands]
EntryRecords == [row : Range(InitialChain) \cup Range(OutcomeChain), command : Commands]
ControlRecords == [generation : Nat, permits : BOOLEAN]
Claims ==
    [submission : {a.submission : a \in Attempts}, command : Commands, key : Keys,
     aggregate : Aggregates, payload : Payloads, approval : Approvals,
     revision : Nat, generation : Nat]

\* What each collection may hold.
Collections ==
    [aggregates     |-> [Aggregates -> AggregateRecords \cup {None}],
     commands       |-> [Commands -> CommandRecords \cup {None}],
     reservations   |-> [Keys -> ReservationRecords \cup {None}],
     journal        |-> [Aggregates -> Seq(EntryRecords)],
     approvals      |-> [Approvals -> Payloads \cup {None}],
     control        |-> ControlRecords,
     claims         |-> SUBSET Claims,
     authorizations |-> SUBSET Claims,
     resolutions    |-> SUBSET Claims]

\* What a unit stages for each collection.
AggregateWrites == [id : Aggregates, over : Nat \cup {None}, record : AggregateRecords]
CommandWrites == [id : Commands, record : CommandRecords]
ReservationWrites == [id : Keys, record : ReservationRecords]
JournalWrites == [id : Aggregates, after : Nat, entries : Seq(EntryRecords)]
ApprovalWrites == [id : Approvals, record : Payloads]

\* No record, and no name or answer, is the absence of one.
ASSUME NoneAssumption ==
    /\ None \notin Callers
    /\ None \notin Nat
    /\ None \notin Payloads
    /\ None \notin Requests
    /\ None \notin AggregateRecords
    /\ None \notin CommandRecords
    /\ None \notin ReservationRecords
    /\ None \notin ControlRecords
    /\ None \notin Claims
    /\ None \notin AggregateWrites
    /\ None \notin CommandWrites
    /\ None \notin ReservationWrites
    /\ None \notin JournalWrites
    /\ None \notin ApprovalWrites
    /\ None \notin UnitKinds
    /\ None \notin Answers
    /\ None \notin Jobs

EmptyStore ==
    [aggregates     |-> [a \in Aggregates |-> None],
     commands       |-> [c \in Commands |-> None],
     reservations   |-> [k \in Keys |-> None],
     journal        |-> [a \in Aggregates |-> << >>],
     approvals      |-> [p \in Approvals |-> None],
     control        |-> ControlRecord(1, TRUE),
     claims         |-> {},
     authorizations |-> {},
     resolutions    |-> {}]

\* Of some collections, the one that is copied or replaced next.
IsNext(f, collections) ==
    \E i \in DOMAIN Fields :
        Fields[i] = f /\ \A n \in 1 .. (i - 1) : Fields[n] \notin collections

\* A unit that has copied, or staged, nothing.
Nothing == [f \in Range(Fields) |-> None]

\* The collections a kind of unit reads; a unit copies them all, and the rest
\* of its copy is never looked at.
Reads(kind) ==
    CASE kind = "intake"    -> {"aggregates", "commands", "reservations", "journal", "approvals"}
      [] kind = "control"   -> {"control"}
      [] kind = "claim"     -> {"aggregates", "commands", "reservations", "approvals",
                                "control", "claims"}
      [] kind = "authorize" -> Range(Fields) \ {"journal", "resolutions"}
      [] kind = "outcome"   -> Range(Fields)

-----------------------------------------------------------------------------
(***************************************************************************)
(* Validation at commit.                                                   *)
(***************************************************************************)

\* Mutant: a guard that forgets which control the claim was granted under.
ValidAnyGeneration(claim, s) ==
    LET command == s.commands[claim.command]
        aggregate == s.aggregates[claim.aggregate]
        reservation == s.reservations[claim.key]
    IN  /\ s.control.permits
        /\ command # None
        /\ command.payload = claim.payload
        /\ aggregate # None
        /\ aggregate.state = "DISPATCH_PENDING"
        /\ aggregate.revision = claim.revision
        /\ reservation # None
        /\ reservation.command = claim.command
        /\ s.approvals[claim.approval] = claim.payload

\* Every durable fact the claim was granted on still holds.
ValidLatestClaim(claim, s) ==
    LET command == s.commands[claim.command]
        aggregate == s.aggregates[claim.aggregate]
        reservation == s.reservations[claim.key]
        approval == s.approvals[claim.approval]
    IN  /\ s.control.permits
        /\ s.control.generation = claim.generation
        /\ command # None
        /\ command.aggregate = claim.aggregate
        /\ command.key = claim.key
        /\ command.payload = claim.payload
        /\ command.approval = claim.approval
        /\ aggregate # None
        /\ aggregate.state = "DISPATCH_PENDING"
        /\ aggregate.revision = claim.revision
        /\ reservation # None
        /\ reservation.command = claim.command
        /\ reservation.aggregate = claim.aggregate
        /\ approval = claim.payload

\* The claim is authorized and open, and its aggregate is where the claim left it.
ValidLatestOutcome(claim, s) ==
    /\ claim \in s.claims
    /\ ValidLatestClaim(claim, s)
    /\ claim \in s.authorizations
    /\ claim \notin s.resolutions

\* A stored command with another payload; the same payload is a silent replay.
CommandClash(s, w) ==
    /\ w.commands # None
    /\ s.commands[w.commands.id] # None
    /\ s.commands[w.commands.id].payload # w.commands.record.payload

\* A reservation for another operation; the same operation is a silent replay.
ReservationClash(s, w) ==
    /\ w.reservations # None
    /\ s.reservations[w.reservations.id] # None
    /\ s.reservations[w.reservations.id].payload # w.reservations.record.payload

StoredRevision(s, a) == IF s.aggregates[a] = None THEN None ELSE s.aggregates[a].revision

\* The aggregate is not at the revision the first save of the unit replaces.
AggregateClash(s, w) ==
    /\ w.aggregates # None
    /\ StoredRevision(s, w.aggregates.id) # w.aggregates.over

\* A revision, or a row, of the journal of the aggregate is owned by another entry.
JournalClash(s, w) ==
    /\ w.journal # None
    /\ LET stored == s.journal[w.journal.id] IN
       \E i \in DOMAIN w.journal.entries :
           LET revision == w.journal.after + i IN
           \/ revision \in DOMAIN stored /\ stored[revision] # w.journal.entries[i]
           \/ \E n \in DOMAIN stored \ {revision} : stored[n].row = w.journal.entries[i].row

ApprovalClash(s, w) ==
    /\ w.approvals # None
    /\ s.approvals[w.approvals.id] \notin {None, w.approvals.record}

\* Mutant: a commit that trusts the generation the unit read.
ControlTrusted(s, w) == FALSE

\* The control was saved by another operator since the unit read it.
ControlClash(s, w) ==
    /\ w.control # None
    /\ w.control.generation # s.control.generation + 1

\* Two claims that may not both exist.
SameAuthority(x, y) ==
    x.submission = y.submission \/ x.command = y.command \/ x.key = y.key

\* Mutant: a commit that trusts the search for claims the unit made on its copy.
ClaimUnsearched(s, w) == w.claims # None /\ ~ ValidLatestClaim(w.claims, s)

\* The claim is not valid any more, or another excludes it.
ClaimClash(s, w) ==
    /\ w.claims # None
    /\ \/ ~ ValidLatestClaim(w.claims, s)
       \/ \E claim \in s.claims : SameAuthority(claim, w.claims)

AuthorizationClash(s, w) ==
    /\ w.authorizations # None
    /\ \/ w.authorizations \notin s.claims
       \/ ~ ValidLatestClaim(w.authorizations, s)
       \/ w.authorizations \in s.authorizations

OutcomeClash(s, w) == w.resolutions # None /\ ~ ValidLatestOutcome(w.resolutions, s)

\* The commit finds a conflict.
Conflict(s, w) ==
    \/ CommandClash(s, w)
    \/ ReservationClash(s, w)
    \/ AggregateClash(s, w)
    \/ JournalClash(s, w)
    \/ ApprovalClash(s, w)
    \/ ControlClash(s, w)
    \/ ClaimClash(s, w)
    \/ AuthorizationClash(s, w)
    \/ OutcomeClash(s, w)

\* A keyed collection with the staged record, unless its key is taken.
WithNew(stored, w) ==
    IF w = None THEN stored
    ELSE IF stored[w.id] # None THEN stored
    ELSE [stored EXCEPT ![w.id] = w.record]

\* The state a commit without a conflict produces.
Applied(s, w) ==
    [aggregates     |-> IF w.aggregates = None THEN s.aggregates
                        ELSE [s.aggregates EXCEPT ![w.aggregates.id] = w.aggregates.record],
     commands       |-> WithNew(s.commands, w.commands),
     reservations   |-> WithNew(s.reservations, w.reservations),
     journal        |-> IF w.journal = None THEN s.journal
                        ELSE [s.journal EXCEPT ![w.journal.id] = @ \o w.journal.entries],
     approvals      |-> WithNew(s.approvals, w.approvals),
     control        |-> IF w.control = None THEN s.control ELSE w.control,
     claims         |-> s.claims \cup ({w.claims} \ {None}),
     authorizations |-> s.authorizations \cup ({w.authorizations} \ {None}),
     resolutions    |-> s.resolutions \cup ({w.resolutions} \ {None})]

-----------------------------------------------------------------------------
(***************************************************************************)
(* What each service stages on its copy, or why it rolls back.             *)
(***************************************************************************)

\* The registration of a command: an identity is bound to one payload for good.
CommandRefusal(v, r) ==
    IF v.commands[r.command] = None THEN None
    ELSE IF v.commands[r.command].payload = r.payload THEN "EXACT_REPLAY"
    ELSE "COMMAND_CONFLICT"

\* The reservation of a key for one logical operation.
ReservationRefusal(v, r) ==
    IF v.reservations[r.key] = None THEN None
    ELSE IF v.reservations[r.key].payload = r.payload THEN "LOGICAL_REPLAY"
    ELSE "IDEMPOTENCY_CONFLICT"

\* Intake creates its aggregate, at revision zero.
AggregateRefusal(v, r) == IF v.aggregates[r.aggregate] = None THEN None ELSE "STALE_REVISION"

\* No row of the initial chain may be in the journal, not even an equal one.
JournalRefusal(v, r) ==
    IF \A n \in DOMAIN v.journal[r.aggregate] :
           v.journal[r.aggregate][n].row \notin Range(InitialChain)
    THEN None ELSE "TRANSACTION_ABORTED"

\* An approval may be on record already, for the same payload.
ApprovalRefusal(v, r) ==
    IF v.approvals[r.approval] \in {None, ApprovalRecord(r)} THEN None ELSE "COMMAND_CONFLICT"

\* The first of a sequence of refusals, if there is any.
FirstRefusal(refusals) ==
    LET given == {i \in DOMAIN refusals : refusals[i] # None} IN
    IF given = {} THEN None
    ELSE refusals[CHOOSE i \in given : \A n \in given : i <= n]

\* Mutant: an intake that does not look at what an existing approval is bound to.
RefusalWithoutApproval(v, r) ==
    FirstRefusal(<<CommandRefusal(v, r), ReservationRefusal(v, r),
                   AggregateRefusal(v, r), JournalRefusal(v, r)>>)

\* The first step of the intake that is refused names the answer.
IntakeRefusal(v, r) ==
    FirstRefusal(<<CommandRefusal(v, r), ReservationRefusal(v, r), AggregateRefusal(v, r),
                   JournalRefusal(v, r), ApprovalRefusal(v, r)>>)

\* The whole handoff: the command, its reservation, the approval, the initial
\* chain and the aggregate the chain ends in.
IntakeWrites(v, r) ==
    [Nothing EXCEPT
        !.aggregates = [id |-> r.aggregate, over |-> None,
                        record |-> AggregateRecord("DISPATCH_PENDING", Len(InitialChain), r.command)],
        !.commands = [id |-> r.command, record |-> CommandRecord(r)],
        !.reservations = [id |-> r.key, record |-> ReservationRecord(r)],
        !.journal = [id |-> r.aggregate, after |-> 0, entries |-> Entries(InitialChain, r.command)],
        !.approvals = IF v.approvals[r.approval] = None
                      THEN [id |-> r.approval, record |-> ApprovalRecord(r)] ELSE None]

\* The claim an attempt is granted from the records of its command.
ClaimOf(v, attempt) ==
    LET command == v.commands[attempt.command] IN
    [submission |-> attempt.submission, command |-> attempt.command, key |-> attempt.key,
     aggregate |-> command.aggregate, payload |-> command.payload, approval |-> command.approval,
     revision |-> v.aggregates[command.aggregate].revision, generation |-> v.control.generation]

ClaimRefusal(v, attempt) ==
    LET command == v.commands[attempt.command]
        reservation == v.reservations[attempt.key]
    IN  IF \E claim \in v.claims : SameAuthority(claim, attempt)
        THEN IF \E claim \in v.claims :
                    /\ claim.submission = attempt.submission
                    /\ claim.command = attempt.command
                    /\ claim.key = attempt.key
             THEN "EXACT_REPLAY" ELSE "ALREADY_CLAIMED"
        ELSE IF ~ v.control.permits THEN "STOPPED"
        ELSE IF command = None THEN "BLOCKED"
        ELSE IF None \in {reservation, v.aggregates[command.aggregate], v.approvals[command.approval]}
        THEN "BLOCKED"
        ELSE IF v.aggregates[command.aggregate].state # "DISPATCH_PENDING" THEN "BLOCKED"
        ELSE IF \/ command.key # attempt.key
                \/ reservation.command # attempt.command
                \/ reservation.aggregate # command.aggregate
                \/ v.approvals[command.approval] # command.payload
        THEN "IDENTITY_CONFLICT"
        ELSE None

\* The claim of a caller that was granted one.
OwnClaim(v, attempt) ==
    CHOOSE claim \in v.claims : SameAuthority(claim, attempt)

AuthorizationRefusal(v, attempt) ==
    IF ValidLatestClaim(OwnClaim(v, attempt), v) THEN None ELSE "BLOCKED"

OutcomeRefusal(v, attempt) ==
    IF ValidLatestOutcome(OwnClaim(v, attempt), v) THEN None ELSE "UNRECORDED"

\* The outcome of a dispatch: the journal and the aggregate move by the rows of
\* the outcome, with the resolution of the claim.
Outcome(claim) ==
    [Nothing EXCEPT
        !.aggregates = [id |-> claim.aggregate, over |-> claim.revision,
                        record |-> AggregateRecord("BROKER_ACKNOWLEDGED",
                                       claim.revision + Len(OutcomeChain), claim.command)],
        !.journal = [id |-> claim.aggregate, after |-> claim.revision,
                     entries |-> Entries(OutcomeChain, claim.command)],
        !.resolutions = claim]

OutcomeWrites(v, attempt) == Outcome(OwnClaim(v, attempt))

Refusal(kind, v, j) ==
    CASE kind = "intake"    -> IntakeRefusal(v, j.request)
      [] kind = "control"   -> None
      [] kind = "claim"     -> ClaimRefusal(v, j)
      [] kind = "authorize" -> AuthorizationRefusal(v, j)
      [] kind = "outcome"   -> OutcomeRefusal(v, j)

Writes(kind, v, j) ==
    CASE kind = "intake"    -> IntakeWrites(v, j.request)
      [] kind = "control"   -> [Nothing EXCEPT !.control =
                                    ControlRecord(v.control.generation + 1, j.permits)]
      [] kind = "claim"     -> [Nothing EXCEPT !.claims = ClaimOf(v, j)]
      [] kind = "authorize" -> [Nothing EXCEPT !.authorizations = OwnClaim(v, j)]
      [] kind = "outcome"   -> OutcomeWrites(v, j)

\* What a caller is told when its commit is refused.
RefusedCommit(kind) ==
    CASE kind = "intake" -> "TRANSACTION_ABORTED"
      [] kind = "control" -> "STALE_REVISION"
      [] kind \in {"claim", "authorize"} -> "BLOCKED"
      [] kind = "outcome" -> "UNRECORDED"

-----------------------------------------------------------------------------
(***************************************************************************)
(* Steps.                                                                  *)
(***************************************************************************)

FirstUnit(j) == IF j.kind = "dispatch" THEN "claim" ELSE j.kind

Init ==
    /\ \E r \in Prior \cup {None} :
           store = IF r = None THEN EmptyStore ELSE Applied(EmptyStore, IntakeWrites(EmptyStore, r))
    /\ isolation \in Isolations
    /\ lock = None
    /\ at = [c \in Callers |-> "idle"]
    /\ job \in [Callers -> {None}]
    /\ unit = [c \in Callers |-> None]
    /\ view = [c \in Callers |-> Nothing]
    /\ writes = [c \in Callers |-> Nothing]
    /\ answer = [c \in Callers |-> None]

\* The caller is called.
Call(c, j) ==
    /\ at[c] = "idle"
    /\ job' = [job EXCEPT ![c] = j]
    /\ unit' = [unit EXCEPT ![c] = FirstUnit(j)]
    /\ at' = [at EXCEPT ![c] = "begin"]
    /\ UNCHANGED <<store, lock, isolation, view, writes, answer>>

\* The call ends with an answer; what is left of its unit is dropped.
End(c, what) ==
    /\ at' = [at EXCEPT ![c] = "done"]
    /\ view' = [view EXCEPT ![c] = Nothing]
    /\ writes' = [writes EXCEPT ![c] = Nothing]
    /\ answer' = [answer EXCEPT ![c] = what]

\* The collections the unit uses and has not copied.
Uncopied(c) == {f \in Reads(unit[c]) : view[c][f] = None}

\* A unit on the process-local adapter copies the next collection it uses.
CopyField(c) ==
    /\ isolation = "snapshot"
    /\ at[c] = "begin"
    /\ \E f \in Uncopied(c) :
           /\ IsNext(f, Uncopied(c))
           /\ view' = [view EXCEPT ![c][f] = store[f]]
           /\ at' = [at EXCEPT ![c] = IF Uncopied(c) = {f} THEN "open" ELSE "begin"]
    /\ UNCHANGED <<store, lock, isolation, job, unit, writes, answer>>

\* BEGIN IMMEDIATE: the write lock of the database, and the latest rows.
BeginImmediate(c) ==
    /\ isolation = "immediate"
    /\ at[c] = "begin"
    /\ lock = None
    /\ lock' = c
    /\ view' = [view EXCEPT ![c] = [f \in Range(Fields) |->
                                        IF f \in Reads(unit[c]) THEN store[f] ELSE None]]
    /\ at' = [at EXCEPT ![c] = "open"]
    /\ UNCHANGED <<store, isolation, job, unit, writes, answer>>

\* The database stays locked longer than the busy timeout.
Busy(c) ==
    /\ isolation = "immediate"
    /\ at[c] = "begin"
    /\ lock # None
    /\ End(c, "BUSY")
    /\ UNCHANGED <<store, lock, isolation, job, unit>>

\* Mutant: a rollback that keeps the write lock.
KeptLock(c) == lock

\* The lock after a unit that may hold it has ended.
Released(c) == IF lock = c THEN None ELSE lock

\* The service rolls its unit back and answers.
RollBack(c) ==
    /\ at[c] = "open"
    /\ Refusal(unit[c], view[c], job[c]) # None
    /\ End(c, Refusal(unit[c], view[c], job[c]))
    /\ lock' = Released(c)
    /\ UNCHANGED <<store, isolation, job, unit>>

\* The service stages every write of the unit on its copy.
Stage(c) ==
    /\ at[c] = "open"
    /\ Refusal(unit[c], view[c], job[c]) = None
    /\ writes' = [writes EXCEPT ![c] = Writes(unit[c], view[c], job[c])]
    /\ view' = [view EXCEPT ![c] = Nothing]
    /\ at' = [at EXCEPT ![c] = "staged"]
    /\ UNCHANGED <<store, lock, isolation, job, unit, answer>>

\* The commit takes the lock, validates the writes against the latest state and
\* finds a conflict: nothing is written.
RefuseCommit(c) ==
    /\ isolation = "snapshot"
    /\ at[c] = "staged"
    /\ lock = None
    /\ Conflict(store, writes[c])
    /\ End(c, RefusedCommit(unit[c]))
    /\ UNCHANGED <<store, lock, isolation, job, unit>>

\* The commit finds no conflict and starts to replace the shared collections.
Validate(c) ==
    /\ isolation = "snapshot"
    /\ at[c] = "staged"
    /\ lock = None
    /\ ~ Conflict(store, writes[c])
    /\ lock' = c
    /\ view' = [view EXCEPT ![c] = Applied(store, writes[c])]
    /\ at' = [at EXCEPT ![c] = "publishing"]
    /\ UNCHANGED <<store, isolation, job, unit, writes, answer>>

\* What a caller is told when the last commit of its job succeeds.
CommittedAnswer(kind) ==
    CASE kind = "intake"  -> "ACCEPTED_FOR_DISPATCH"
      [] kind = "control" -> "SAVED"
      [] kind = "outcome" -> "RECORDED"

\* A job goes on to its next unit, or ends.
Committed(c) ==
    IF unit[c] \in {"claim", "authorize"}
    THEN /\ unit' = [unit EXCEPT ![c] = IF @ = "claim" THEN "authorize" ELSE "outcome"]
         /\ at' = [at EXCEPT ![c] = "begin"]
         /\ view' = [view EXCEPT ![c] = Nothing]
         /\ writes' = [writes EXCEPT ![c] = Nothing]
         /\ UNCHANGED answer
    ELSE /\ End(c, CommittedAnswer(unit[c]))
         /\ UNCHANGED unit

\* The collections that are not replaced yet; replacing an unchanged one has
\* no effect.
Unpublished(c) == {f \in Range(Fields) : store[f] # view[c][f]}

\* One collection is replaced.
Publish(c) ==
    /\ at[c] = "publishing"
    /\ \E f \in Unpublished(c) :
           /\ IsNext(f, Unpublished(c))
           /\ Unpublished(c) # {f}
           /\ store' = [store EXCEPT ![f] = view[c][f]]
    /\ UNCHANGED <<lock, isolation, at, job, unit, view, writes, answer>>

\* The last one is, and the lock is released.
FinishPublishing(c) ==
    /\ at[c] = "publishing"
    /\ Cardinality(Unpublished(c)) = 1
    /\ store' = view[c]
    /\ lock' = None
    /\ Committed(c)
    /\ UNCHANGED <<isolation, job>>

\* COMMIT: every row of the transaction at once.
CommitImmediate(c) ==
    /\ isolation = "immediate"
    /\ at[c] = "staged"
    /\ store' = Applied(store, writes[c])
    /\ lock' = None
    /\ Committed(c)
    /\ UNCHANGED <<isolation, job>>

\* The process dies: an open transaction is lost, and so is every later unit.
Crash(c) ==
    /\ isolation = "immediate"
    /\ at[c] \in {"begin", "open", "staged"}
    /\ End(c, "CRASHED")
    /\ lock' = Released(c)
    /\ UNCHANGED <<store, isolation, job, unit>>

Next ==
    \E c \in Callers :
        \/ \E j \in Jobs : Call(c, j)
        \/ CopyField(c)
        \/ BeginImmediate(c)
        \/ Busy(c)
        \/ RollBack(c)
        \/ Stage(c)
        \/ RefuseCommit(c)
        \/ Validate(c)
        \/ Publish(c)
        \/ FinishPublishing(c)
        \/ CommitImmediate(c)
        \/ Crash(c)

Spec == Init /\ [][Next]_vars
-----------------------------------------------------------------------------
(***************************************************************************)
(* Properties.                                                             *)
(***************************************************************************)

\* Every variable has its type, and the lock is held exactly by the caller that
\* publishes or has a write transaction open.
TypeOK ==
    /\ isolation \in Isolations
    /\ lock \in Callers \cup {None}
    /\ at \in [Callers -> Phases]
    /\ job \in [Callers -> Jobs \cup {None}]
    /\ unit \in [Callers -> UnitKinds \cup {None}]
    /\ answer \in [Callers -> Answers \cup {None}]
    /\ store.control.generation \in 1 .. (1 + Cardinality(Callers))
    /\ store.authorizations \subseteq store.claims
    /\ store.resolutions \subseteq store.authorizations
    /\ \A c \in Callers :
           (lock = c) <=> (at[c] \in IF isolation = "immediate"
                                     THEN {"open", "staged"} ELSE {"publishing"})

Publishing == \E c \in Callers : at[c] = "publishing"

\* What the replay matrix promises of concurrent requests with one idempotency
\* key and one payload: one reservation wins and only the winner mutates, so
\* every durable command is the one its key was reserved for.
OneCommandPerKey ==
    ~ Publishing =>
        \A m \in Commands :
            store.commands[m] # None =>
                store.reservations[store.commands[m].key].command = m

\* The aggregate has an outcome on record.
Resolved(s, a) == \E claim \in s.resolutions : claim.aggregate = a

\* An aggregate has its command, the approval of that command's payload, and a
\* journal that ends at its revision; a command has its aggregate and its key.
Whole(s) ==
    /\ \A a \in Aggregates :
           LET aggregate == s.aggregates[a] IN
           IF aggregate = None THEN s.journal[a] = << >>
           ELSE /\ s.commands[aggregate.command] # None
                /\ s.commands[aggregate.command].aggregate = a
                /\ s.approvals[s.commands[aggregate.command].approval]
                       = s.commands[aggregate.command].payload
                /\ s.journal[a] = Entries(IF Resolved(s, a)
                                          THEN InitialChain \o OutcomeChain ELSE InitialChain,
                                          aggregate.command)
                /\ aggregate.revision = Len(s.journal[a])
    /\ \A m \in Commands :
           s.commands[m] # None =>
               /\ s.aggregates[s.commands[m].aggregate] # None
               /\ s.aggregates[s.commands[m].aggregate].command = m
               /\ s.reservations[s.commands[m].key] # None

\* Whenever no commit is being published, an aggregate is durable with the whole
\* of its handoff, under either adapter and whichever units were refused,
\* interrupted or crashed: the command that created it, an approval of that
\* command's payload, and a journal without gap or repetition, by that command
\* alone, that ends at the revision of the aggregate; and no command is durable
\* without its aggregate.  Under the SQLite adapter its key is also its own.
AcceptedIsWhole ==
    /\ isolation = "immediate" => OneCommandPerKey
    /\ ~ Publishing => Whole(store)

\* What an intake was told is true of the shared records from then on, although
\* its copy may have been taken in the middle of another commit: an acceptance
\* and a replay name a durable command or reservation with the payload of the
\* request, a conflict one with another payload, and an abort or a stale
\* revision is owed to a rival that owns an identity of the request.
IntakeAnswerHolds(c) ==
    LET r == job[c].request IN
    /\ answer[c] \in {"ACCEPTED_FOR_DISPATCH", "EXACT_REPLAY"} =>
           /\ store.commands[r.command] # None
           /\ store.commands[r.command].payload = r.payload
    /\ answer[c] = "ACCEPTED_FOR_DISPATCH" =>
           /\ store.aggregates[r.aggregate] # None
           /\ store.aggregates[r.aggregate].command = r.command
    /\ answer[c] = "LOGICAL_REPLAY" =>
           /\ store.reservations[r.key] # None
           /\ store.reservations[r.key].payload = r.payload
    /\ answer[c] = "COMMAND_CONFLICT" =>
           \/ store.commands[r.command] # None /\ store.commands[r.command].payload # r.payload
           \/ store.approvals[r.approval] \notin {None, r.payload}
    /\ answer[c] = "IDEMPOTENCY_CONFLICT" =>
           /\ store.reservations[r.key] # None
           /\ store.reservations[r.key].payload # r.payload
    /\ answer[c] = "STALE_REVISION" => store.aggregates[r.aggregate] # None
    /\ answer[c] = "TRANSACTION_ABORTED" =>
           \/ store.aggregates[r.aggregate] # None
           \/ store.commands[r.command] # None
           \/ store.reservations[r.key] # None
           \/ store.approvals[r.approval] # None

\* Of several callers with one command, one at most is told of its acceptance.
AcceptedOnce ==
    \A c, d \in Callers :
        /\ c # d
        /\ answer[c] = "ACCEPTED_FOR_DISPATCH"
        /\ answer[d] = "ACCEPTED_FOR_DISPATCH"
        => /\ job[c].request.command # job[d].request.command
           /\ job[c].request.aggregate # job[d].request.aggregate

\* The operators that were told their change is saved.
Saved == {c \in Callers : unit[c] = "control" /\ answer[c] = "SAVED"}

\* Answers to concurrent calls agree with each other and with the records: the
\* answers of intakes hold, and the generation of the dispatch control counts
\* the operators that were told their change is saved, so no two of them
\* replaced the same control.
AnswersHold ==
    /\ \A c \in Callers :
           answer[c] # None /\ job[c].kind = "intake" => IntakeAnswerHolds(c)
    /\ AcceptedOnce
    /\ ~ Publishing => store.control.generation = 1 + Cardinality(Saved)

\* A claim belongs to the command its key was reserved for, no key, command or
\* submission has two, and the aggregate a claim names stays where the claim
\* found it until the outcome of that claim is recorded.
ClaimsFollowReservations ==
    /\ \A claim \in store.claims :
           /\ store.reservations[claim.key].command = claim.command
           /\ store.reservations[claim.key].aggregate = claim.aggregate
           /\ ~ Publishing /\ claim \notin store.resolutions =>
                  /\ store.aggregates[claim.aggregate].state = "DISPATCH_PENDING"
                  /\ store.aggregates[claim.aggregate].revision = claim.revision
    /\ \A x, y \in store.claims : x # y => ~ SameAuthority(x, y)

\* An authorization or an outcome becomes durable only while the control the
\* claim was granted under is in force: a stop saved between the units of a
\* dispatch, in whatever order their commits take the lock, blocks both.
AuthorizedUnderControl ==
    [][\A claim \in (store'.authorizations \ store.authorizations)
                        \cup (store'.resolutions \ store.resolutions) :
          /\ store.control.permits
          /\ store.control.generation = claim.generation]_vars

-----------------------------------------------------------------------------
(***************************************************************************)
(* What the properties rest on.                                            *)
(***************************************************************************)

Stores ==
    [aggregates     : Collections.aggregates,
     commands       : Collections.commands,
     reservations   : Collections.reservations,
     journal        : Collections.journal,
     approvals      : Collections.approvals,
     control        : Collections.control,
     claims         : Collections.claims,
     authorizations : Collections.authorizations,
     resolutions    : Collections.resolutions]

\* What holds of the shared records at any time, in the middle of a commit too:
\* a command is as it was requested, a journal is of an aggregate, and a claim
\* is of the command that owns its key and excludes every other.
Coherent(s) ==
    /\ s \in Stores
    /\ \A m \in Commands :
           s.commands[m] # None =>
               \E r \in Requests : r.command = m /\ s.commands[m] = CommandRecord(r)
    /\ \A a \in Aggregates : s.journal[a] # << >> => s.aggregates[a] # None
    /\ \A claim \in s.claims :
           /\ s.commands[claim.command] # None
           /\ s.commands[claim.command].aggregate = claim.aggregate
           /\ s.reservations[claim.key] # None
           /\ s.reservations[claim.key].command = claim.command
           /\ s.reservations[claim.key].aggregate = claim.aggregate
    /\ \A x, y \in s.claims : x # y => ~ SameAuthority(x, y)
    /\ s.authorizations \subseteq s.claims
    /\ s.resolutions \subseteq s.authorizations
    /\ s.control.generation >= 1

\* What holds of them between two commits.
Settled(s) ==
    /\ Coherent(s)
    /\ Whole(s)
    /\ \A a \in Aggregates :
           s.aggregates[a] # None =>
               s.aggregates[a].state =
                   IF Resolved(s, a) THEN "BROKER_ACKNOWLEDGED" ELSE "DISPATCH_PENDING"
    /\ \A claim \in s.claims \ s.resolutions :
           /\ s.aggregates[claim.aggregate].state = "DISPATCH_PENDING"
           /\ s.aggregates[claim.aggregate].revision = claim.revision

\* How each collection may change: records are added and stay, an aggregate
\* stays with its command, a journal is not emptied.
RecordsGrow(x, y) == \A k \in DOMAIN x : x[k] # None => y[k] = x[k]
AggregatesGrow(x, y) ==
    \A a \in Aggregates : x[a] # None => y[a] # None /\ y[a].command = x[a].command
JournalGrows(x, y) == \A a \in Aggregates : x[a] # << >> => y[a] # << >>

Grows(x, y) ==
    /\ AggregatesGrow(x.aggregates, y.aggregates)
    /\ RecordsGrow(x.commands, y.commands)
    /\ RecordsGrow(x.reservations, y.reservations)
    /\ JournalGrows(x.journal, y.journal)
    /\ RecordsGrow(x.approvals, y.approvals)
    /\ x.claims \subseteq y.claims
    /\ x.authorizations \subseteq y.authorizations
    /\ x.resolutions \subseteq y.resolutions

\* A copy of a collection was so, and the shared one has only grown since.
IsCopy(f, x, s) ==
    /\ x \in Collections[f]
    /\ f = "aggregates" => AggregatesGrow(x, s.aggregates)
    /\ f = "journal" => JournalGrows(x, s.journal)
    /\ f \in {"commands", "reservations", "approvals"} => RecordsGrow(x, s[f])
    /\ f = "claims" => x \subseteq s.claims

\* The claim that was granted to a job is among the claims.
Owns(claims, j) ==
    \E claim \in claims :
        claim.submission = j.submission /\ claim.command = j.command /\ claim.key = j.key

\* A caller has a unit of its job, is told nothing before its end, and goes on
\* to authorize only a claim it was granted.
Units(j) == IF j.kind = "dispatch" THEN {"claim", "authorize", "outcome"} ELSE {j.kind}

Occupied(c) ==
    /\ at[c] = "idle" <=> job[c] = None
    /\ at[c] = "idle" => view[c] = Nothing /\ unit[c] = None
    /\ job[c] # None => unit[c] \in Units(job[c])
    /\ at[c] # "done" => answer[c] = None
    /\ answer[c] = "ACCEPTED_FOR_DISPATCH" => job[c].kind = "intake"
    /\ at[c] = "publishing" => isolation = "snapshot"
    /\ unit[c] \in {"authorize", "outcome"} => Owns(store.claims, job[c])

\* What a unit has copied is true, and under the write lock it is the latest.
Has(c, f) == view[c][f] # None \/ (at[c] = "open" /\ f \in Reads(unit[c]))

Copied(c) ==
    at[c] \in {"begin", "open"} =>
        /\ DOMAIN view[c] = Range(Fields)
        /\ \A f \in Range(Fields) : Has(c, f) => IsCopy(f, view[c][f], store)
        /\ unit[c] \in {"authorize", "outcome"} /\ Has(c, "claims") =>
               Owns(view[c].claims, job[c])
        /\ isolation = "immediate" /\ at[c] = "open" =>
               \A f \in Reads(unit[c]) : view[c][f] = store[f]

\* What a unit of each kind stages; s are the shared records.
IsStaged(kind, j, w, s) ==
    /\ kind = "intake" =>
           \/ w = IntakeWrites(EmptyStore, j.request)
           \/ /\ w = [IntakeWrites(EmptyStore, j.request) EXCEPT !.approvals = None]
              /\ s.approvals[j.request.approval] = j.request.payload
    /\ kind = "control" =>
           w.control \in ControlRecords /\ w = [Nothing EXCEPT !.control = w.control]
    /\ kind = "claim" =>
           /\ w.claims \in Claims /\ w = [Nothing EXCEPT !.claims = w.claims]
           /\ Owns({w.claims}, j)
    /\ kind = "authorize" =>
           /\ w.authorizations \in s.claims
           /\ w = [Nothing EXCEPT !.authorizations = w.authorizations]
    /\ kind = "outcome" =>
           w.resolutions \in s.claims /\ w = Outcome(w.resolutions)

\* And what a commit without conflict finds.
Fits(kind, j, w, s) ==
    /\ kind = "intake" =>
           /\ s.aggregates[j.request.aggregate] = None
           /\ s.commands[j.request.command] = None
           /\ s.approvals[j.request.approval] \in {None, j.request.payload}
    /\ kind = "control" => w.control.generation = s.control.generation + 1
    /\ kind = "claim" =>
           /\ ValidLatestClaim(w.claims, s)
           /\ \A claim \in s.claims : ~ SameAuthority(claim, w.claims)
    /\ kind = "authorize" => ValidLatestClaim(w.authorizations, s)
    /\ kind = "outcome" => ValidLatestOutcome(w.resolutions, s)

\* A unit that waits to commit; nothing can come between under the write lock.
Waiting(c) ==
    at[c] = "staged" =>
        /\ IsStaged(unit[c], job[c], writes[c], store)
        /\ isolation = "immediate" =>
               /\ Fits(unit[c], job[c], writes[c], store)
               /\ unit[c] = "intake" => store.reservations[job[c].request.key] = None

\* Records that c may publish: they are settled, extend what is there, and make
\* good what c will be told.
Ready(c, s) ==
    /\ Settled(s)
    /\ Grows(store, s)
    /\ store.control.generation <= s.control.generation
    /\ s.control.generation = 1 + Cardinality(Saved) + (IF unit[c] = "control" THEN 1 ELSE 0)
    /\ \A claim \in (s.authorizations \ store.authorizations)
                        \cup (s.resolutions \ store.resolutions) :
           /\ store.control = s.control
           /\ store.control.permits
           /\ store.control.generation = claim.generation
    /\ unit[c] = "claim" => Owns(s.claims, job[c])
    /\ unit[c] = "intake" =>
           LET r == job[c].request IN
           /\ s.commands[r.command] # None
           /\ s.commands[r.command].payload = r.payload
           /\ s.aggregates[r.aggregate] # None
           /\ s.aggregates[r.aggregate].command = r.command
           /\ \A d \in Callers :
                  answer[d] = "ACCEPTED_FOR_DISPATCH" =>
                      /\ job[d].request.command # r.command
                      /\ job[d].request.aggregate # r.aggregate

InPublication(c) == at[c] = "publishing" => Ready(c, view[c])

\* The inductive invariant.
IInv ==
    /\ TypeOK
    /\ DOMAIN view = Callers
    /\ DOMAIN writes = Callers
    /\ Coherent(store)
    /\ ~ Publishing => Settled(store)
    /\ isolation = "immediate" => OneCommandPerKey
    /\ AnswersHold
    /\ \A c \in Callers : Occupied(c) /\ Copied(c) /\ Waiting(c) /\ InPublication(c)
=============================================================================
