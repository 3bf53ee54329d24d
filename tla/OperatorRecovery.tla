-------------------------- MODULE OperatorRecovery --------------------------
(***************************************************************************)
(* Recovery of one paper execution whose outcome is unknown, by operators  *)
(* that work from processes of their own on one SQLite database.           *)
(*                                                                         *)
(* A process starts a runtime: it opens the database, applies the pending  *)
(* migrations, validates the schema and checks the durable bindings.  Then *)
(* it discovers the execution, records what reconciliation found, prepares *)
(* the recovery the operator approved (command, reservation, approval) and *)
(* executes it (journal entry and aggregate), a transaction each.  Every   *)
(* transaction is BEGIN IMMEDIATE ... COMMIT; a process may die between    *)
(* and inside them, and whoever restarts repeats the protocol.             *)
(***************************************************************************)
EXTENDS Naturals, Sequences, FiniteSets, SequencesExt, LifecycleTransitions

CONSTANTS
    Workers,        \* processes, one operator each
    Requests,       \* the recoveries operators ask for
    Origin,         \* the command that sent the order
    Versions,       \* the schema versions a database may be found at
    MaxCrashes,     \* bound on the processes that die
    None            \* no record

VARIABLES
    db,         \* the durable records
    lock,       \* the process that holds the write transaction
    run,        \* how far the runtime of each process has started
    schema,     \* what the migration runner of each process believes
    unit,       \* the transaction each process has open
    local,      \* the aggregate as each process loaded it
    progress,   \* how far each process is in the protocol
    job,        \* the recovery each process works on
    answer,     \* what the operator was told
    crashes     \* how many processes died

vars == <<db, lock, run, schema, unit, local, progress, job, answer, crashes>>

Outcomes == {"OPERATOR_ACTION_REQUIRED", "UNRESOLVED", "BROKER_AHEAD", "MISSING_AT_BROKER"}

\* A recovery is a command of its own, and the fingerprint of its evidence
\* covers the decision on it.
ASSUME RecoveryAssumption ==
    /\ \A r \in Requests :
           r.outcome \in Outcomes /\ r.destination \in States /\ r.command # Origin
    /\ \A r, s \in Requests : r.evidence = s.evidence => r.outcome = s.outcome
    /\ Versions \subseteq 0 .. 5
    /\ MaxCrashes \in Nat

-----------------------------------------------------------------------------
(***************************************************************************)
(* The records.                                                            *)
(***************************************************************************)

\* The migrations by the version they result in, applied in this order.
KnownMigrations == <<"v001", "v002", "v003", "v004", "v005">>

LastVersion == Len(KnownMigrations)

\* The revision of an aggregate whose dispatch ended in an unknown outcome.
BaseRevision == 7

Aggregate(state, revision, command) ==
    [state |-> state, revision |-> revision, command |-> command]

\* The identity of a comparison: the same evidence about the same revision of
\* the aggregate.
ReconciliationId(revision, evidence) == <<revision, evidence>>

\* What a comparison of the evidence of a request with the loaded aggregate
\* records.  Two outcomes leave the execution unresolved, and an outcome the
\* broker can prove asks no operator.
HistoryRecord(r, loaded) ==
    [id         |-> ReconciliationId(loaded.revision, r.evidence),
     revision   |-> loaded.revision,
     state      |-> loaded.state,
     outcome    |-> r.outcome,
     operator   |-> r.outcome # "BROKER_AHEAD",
     unresolved |-> r.outcome \in {"UNRESOLVED", "OPERATOR_ACTION_REQUIRED"},
     recorded   |-> r.recorded]

\* The payload binds the destination, and the history record by its fingerprint.
Payload(r, loaded) == [destination |-> r.destination, history |-> HistoryRecord(r, loaded)]

CommandRecord(r, loaded) ==
    [key |-> r.key, approval |-> r.approval, payload |-> Payload(r, loaded)]

LogicalOperation(payload) ==
    [destination |-> payload.destination, reconciliation |-> payload.history.id]

ReservationRecord(r, loaded) ==
    [command |-> r.command, logical |-> LogicalOperation(Payload(r, loaded))]

\* A recovery command can be built only from an unresolved comparison that
\* asks the operator, and only for a destination that resolves it.
Buildable(r, loaded) ==
    LET history == HistoryRecord(r, loaded) IN
    /\ history.operator
    /\ history.unresolved
    /\ r.destination \in RecoveryStates \ {"RECONCILIATION_REQUIRED"}

\* The lifecycle's decision on a reconciliation result: a transition for an
\* outcome the operator resolves, and a conflict on record for any other.
RecoveryEntry(r, loaded) ==
    LET resolved == r.outcome = "OPERATOR_ACTION_REQUIRED" IN
    [record |-> r.command, command |-> r.command,
     row |-> IF resolved THEN "PX-TRN-027" ELSE "PX-TRN-028",
     from |-> loaded.state,
     to |-> IF resolved THEN r.destination ELSE "RECONCILIATION_REQUIRED",
     revision |-> loaded.revision + 1]

\* The entry that asks for reconciliation; every process makes the same one.
RequireEntry(loaded) ==
    [record |-> Origin, command |-> Origin, row |-> "PX-TRN-025",
     from |-> loaded.state, to |-> "RECONCILIATION_REQUIRED",
     revision |-> loaded.revision + 1]

\* The states restart discovery accepts: an effect may have taken place.
ConsequentialStates ==
    {"CANCEL_PENDING", "DISPATCH_PENDING", "DISPATCHED", "OUTCOME_UNKNOWN",
     "PARTIALLY_FILLED", "RECONCILIATION_REQUIRED", "REPLACE_PENDING"}

\* The rows of the durable tables.
Recoveries == {r.command : r \in Requests}
Evidence == {r.evidence : r \in Requests}

Aggregates == [state : States, revision : Nat, command : Recoveries \cup {Origin}]

Histories ==
    [id : Nat \X Evidence, revision : Nat, state : States, outcome : Outcomes,
     operator : BOOLEAN, unresolved : BOOLEAN, recorded : {r.recorded : r \in Requests}]

Payloads == [destination : States, history : Histories]

CommandRecords ==
    [key : {r.key : r \in Requests}, approval : {r.approval : r \in Requests},
     payload : Payloads]

Reservations ==
    [command : Recoveries,
     logical : [destination : States, reconciliation : Nat \X Evidence]]

Entries ==
    [record : Recoveries \cup {Origin}, command : Recoveries \cup {Origin},
     row : {"PX-TRN-025", "PX-TRN-027", "PX-TRN-028"},
     from : States, to : States, revision : Nat]

Records ==
    [migrations   : Seq({"v001", "v002", "v003", "v004", "v005"}),
     aggregate    : Aggregates \cup {None},
     journal      : Seq(Entries),
     history      : SUBSET Histories,
     commands     : [Recoveries -> CommandRecords \cup {None}],
     reservations : [{r.key : r \in Requests} -> Reservations \cup {None}],
     approvals    : [{r.approval : r \in Requests} -> Payloads \cup {None}]]

Units == {"require", "history", "prepare", "execute"}

Conflicts ==
    {"COMMAND_CONFLICT", "IDEMPOTENCY_CONFLICT", "TRANSACTION_ABORTED",
     "STALE_REVISION", "ALREADY_TERMINAL"}

\* What an operator may be told.
Statuses == Conflicts \cup {"NOTHING_TO_RECOVER", "REFUSED", "ABANDONED", "SAVED"}

ASSUME NoneAssumption ==
    /\ None \notin Workers
    /\ None \notin Aggregates
    /\ None \notin CommandRecords
    /\ None \notin Reservations
    /\ None \notin Payloads
    /\ None \notin Units
    /\ None \notin Statuses

-----------------------------------------------------------------------------
(***************************************************************************)
(* What each repository answers.                                           *)
(***************************************************************************)

\* A command is its payload: key, approval and times may differ on a replay.
RegisterStatus(d, r, loaded) ==
    IF d.commands[r.command] = None THEN "CREATED"
    ELSE IF d.commands[r.command].payload = Payload(r, loaded) THEN "EXACT_REPLAY"
    ELSE "COMMAND_CONFLICT"

\* A key is one logical operation, whichever command it was reserved for.
ReserveStatus(d, r, loaded) ==
    IF d.reservations[r.key] = None THEN "CREATED"
    ELSE IF d.reservations[r.key].logical = LogicalOperation(Payload(r, loaded))
    THEN "LOGICAL_REPLAY" ELSE "IDEMPOTENCY_CONFLICT"

\* An approval is bound to one payload for good.
ApproveStatus(d, r, loaded) ==
    IF d.approvals[r.approval] = None THEN "CREATED"
    ELSE IF d.approvals[r.approval] = Payload(r, loaded) THEN "EXACT_REPLAY"
    ELSE "TRANSACTION_ABORTED"

\* A comparison is recorded once; the same one at another instant conflicts.
HistoryStatus(d, r, loaded) ==
    LET record == HistoryRecord(r, loaded) IN
    IF \A h \in d.history : h.id # record.id THEN "CREATED"
    ELSE IF record \in d.history THEN "EXACT_REPLAY" ELSE "TRANSACTION_ABORTED"

\* A record identity, a revision and a row are each owned by one journal entry.
AppendStatus(d, entry) ==
    LET entries == Range(d.journal) IN
    IF entry \in entries THEN "EXACT_REPLAY"
    ELSE IF \E e \in entries : \/ e.record = entry.record
                               \/ e.revision = entry.revision
                               \/ e.row = entry.row
    THEN "TRANSACTION_ABORTED" ELSE "APPENDED"

\* The save replaces the revision the process loaded, unless it is terminal.
SaveStatus(d, entry) ==
    IF d.aggregate.state \in TerminalStates THEN "ALREADY_TERMINAL"
    ELSE IF d.aggregate.revision # entry.revision - 1 THEN "STALE_REVISION"
    ELSE "SAVED"

\* What the calls of a transaction are answered, in their order.
Authorization(d, r, loaded) ==
    <<RegisterStatus(d, r, loaded), ReserveStatus(d, r, loaded), ApproveStatus(d, r, loaded)>>

Advance(d, entry) == <<AppendStatus(d, entry), SaveStatus(d, entry)>>

Answers(d, kind, r, loaded) ==
    CASE kind = "require" -> Advance(d, RequireEntry(loaded))
      [] kind = "history" -> <<HistoryStatus(d, r, loaded)>>
      [] kind = "prepare" -> Authorization(d, r, loaded)
      [] kind = "execute" -> Authorization(d, r, loaded) \o Advance(d, RecoveryEntry(r, loaded))

\* A transaction that reports the last conflict of its calls.
LastConflict(answers) ==
    LET given == SelectSeq(answers, LAMBDA s : s \in Conflicts) IN
    IF given = << >> THEN None ELSE given[Len(given)]

\* The first conflict is remembered, and dooms the transaction.
BlockingConflict(answers) ==
    LET conflicting == {i \in DOMAIN answers : answers[i] \in Conflicts} IN
    IF conflicting = {} THEN None
    ELSE answers[CHOOSE i \in conflicting : \A j \in conflicting : i <= j]

\* A worker that does not compare what the three calls were answered.
AnyStatuses(statuses) == TRUE

\* The worker goes on with a recovery that is wholly new or wholly durable.
AllNewOrAllReplayed(statuses) ==
    \/ \A i \in DOMAIN statuses : statuses[i] = "CREATED"
    \/ \A i \in DOMAIN statuses : statuses[i] # "CREATED"

\* The worker commits what it meant to write, and nothing else.
Acceptable(kind, answers) ==
    CASE kind = "prepare" -> AllNewOrAllReplayed(answers)
      [] kind = "execute" -> AllNewOrAllReplayed(SubSeq(answers, 1, 3))
      [] OTHER -> TRUE

WithAuthorization(d, r, loaded) ==
    [d EXCEPT !.commands[r.command] = IF @ = None THEN CommandRecord(r, loaded) ELSE @,
              !.reservations[r.key] = IF @ = None THEN ReservationRecord(r, loaded) ELSE @,
              !.approvals[r.approval] = IF @ = None THEN Payload(r, loaded) ELSE @]

\* An advance that saves the aggregate only when its state changes.
SavedOnChange(d, entry) ==
    [d EXCEPT !.journal = IF entry \in Range(@) THEN @ ELSE Append(@, entry),
              !.aggregate = IF entry.from = entry.to THEN @
                            ELSE Aggregate(entry.to, entry.revision, entry.command)]

\* The journal entry and the aggregate it leads to, in the same transaction.
WithAdvance(d, entry) ==
    [d EXCEPT !.journal = IF entry \in Range(@) THEN @ ELSE Append(@, entry),
              !.aggregate = Aggregate(entry.to, entry.revision, entry.command)]

Written(d, kind, r, loaded) ==
    CASE kind = "require" -> WithAdvance(d, RequireEntry(loaded))
      [] kind = "history" -> [d EXCEPT !.history = @ \cup {HistoryRecord(r, loaded)}]
      [] kind = "prepare" -> WithAuthorization(d, r, loaded)
      [] kind = "execute" -> WithAdvance(WithAuthorization(d, r, loaded), RecoveryEntry(r, loaded))

-----------------------------------------------------------------------------
(***************************************************************************)
(* What a start checks.                                                    *)
(***************************************************************************)

\* The schema is at the last version, and every migration was applied as known.
SchemaCurrent(d) == d.migrations = KnownMigrations

\* The aggregate does not trail its journal.
JournalNotAhead(d) ==
    \A i \in DOMAIN d.journal : d.aggregate.revision >= d.journal[i].revision

\* The reservation of the key is this command's, for the operation it states.
ReservationBound(d, c) ==
    LET reservation == d.reservations[d.commands[c].key] IN
    /\ reservation # None
    /\ reservation.command = c
    /\ reservation.logical = LogicalOperation(d.commands[c].payload)

\* The approval is for the payload of this command.
ApprovalBound(d, c) == d.approvals[d.commands[c].approval] = d.commands[c].payload

\* The comparison it rests on is on record, as it was, and needs an operator.
HistoryBound(d, c) ==
    LET history == d.commands[c].payload.history IN
    /\ history \in d.history
    /\ history.operator
    /\ history.unresolved

AuthorityBound(d) ==
    \A c \in DOMAIN d.commands :
        d.commands[c] # None =>
            ReservationBound(d, c) /\ ApprovalBound(d, c) /\ HistoryBound(d, c)

-----------------------------------------------------------------------------
(***************************************************************************)
(* Starting, migrating and stopping.                                       *)
(***************************************************************************)

EmptyRecords(version) ==
    [migrations   |-> SubSeq(KnownMigrations, 1, version),
     aggregate    |-> IF version < 4 THEN None ELSE Aggregate("OUTCOME_UNKNOWN", BaseRevision, Origin),
     journal      |-> << >>,
     history      |-> {},
     commands     |-> [c \in Recoveries |-> None],
     reservations |-> [k \in {r.key : r \in Requests} |-> None],
     approvals    |-> [a \in {r.approval : r \in Requests} |-> None]]

\* The version the migrations on record lead to.
AppliedVersion(d) == Len(d.migrations)

NoSchema == [known |-> 0, current |-> 0, next |-> 1]

Init ==
    /\ db \in {EmptyRecords(version) : version \in Versions}
    /\ lock = None
    /\ run = [w \in Workers |-> "down"]
    /\ schema = [w \in Workers |-> NoSchema]
    /\ unit = [w \in Workers |-> None]
    /\ local = [w \in Workers |-> None]
    /\ progress = [w \in Workers |-> "idle"]
    /\ job \in [Workers -> Requests]
    /\ answer = [w \in Workers |-> None]
    /\ crashes = 0

\* Open the database and look at the migrations it has, without a lock.
Start(w) ==
    /\ run[w] = "down"
    /\ answer[w] = None
    /\ LET version == AppliedVersion(db) IN
       schema' = [schema EXCEPT ![w] = [known |-> version, current |-> version, next |-> version + 1]]
    /\ run' = [run EXCEPT ![w] = "opened"]
    /\ UNCHANGED <<db, lock, unit, local, progress, job, answer, crashes>>

\* A start that fails closes its connection; nothing of it remains.
CloseFailedStart(w) ==
    /\ run' = [run EXCEPT ![w] = "down"]
    /\ schema' = [schema EXCEPT ![w] = NoSchema]
    /\ lock' = IF lock = w THEN None ELSE lock
    /\ UNCHANGED <<db, unit, local, progress, job, answer, crashes>>

\* The next migration the runner did not find applied takes the write lock.
BeginMigration(w) ==
    /\ run[w] = "opened"
    /\ schema[w].next <= LastVersion
    /\ schema[w].current = schema[w].next - 1
    /\ lock = None
    /\ lock' = w
    /\ run' = [run EXCEPT ![w] = "migrating"]
    /\ UNCHANGED <<db, schema, unit, local, progress, job, answer, crashes>>

\* Another process migrated past the runner, or holds the lock too long.
MigrationRefused(w) ==
    /\ run[w] = "opened"
    /\ schema[w].next <= LastVersion
    /\ \/ schema[w].current # schema[w].next - 1
       \/ lock # None
    /\ CloseFailedStart(w)

\* The identity of a migration is the key of the table that records it.
NotApplied(migration) == migration \notin Range(db.migrations)

\* The statements and the record of the migration are one transaction.
ApplyMigration(w) ==
    /\ run[w] = "migrating"
    /\ NotApplied(KnownMigrations[schema[w].next])
    /\ db' = [db EXCEPT !.migrations = Append(@, KnownMigrations[schema[w].next])]
    /\ lock' = None
    /\ run' = [run EXCEPT ![w] = "migrated"]
    /\ UNCHANGED <<schema, unit, local, progress, job, answer, crashes>>

\* Its statements fail because another process applied it first.
MigrationFails(w) ==
    /\ run[w] = "migrating"
    /\ ~ NotApplied(KnownMigrations[schema[w].next])
    /\ CloseFailedStart(w)

\* The runner looks at the version again, and not at what it found applied.
Reinspect(w) ==
    /\ run[w] = "migrated"
    /\ schema' = [schema EXCEPT ![w].current = AppliedVersion(db), ![w].next = @ + 1]
    /\ run' = [run EXCEPT ![w] = "opened"]
    /\ UNCHANGED <<db, lock, unit, local, progress, job, answer, crashes>>

\* The schema is validated first, on a snapshot of its own.  Of what it looks at
\* only the migrations are here: the bindings of dispatch claims and outcomes,
\* the control singleton and the ownership of broker references are about
\* dispatches, which no process of this module makes (for them PaperSubmission
\* has StartupChecksPass).
ValidateSchema(w) ==
    /\ run[w] = "opened"
    /\ schema[w].next > LastVersion
    /\ run' = [run EXCEPT ![w] = IF SchemaCurrent(db) THEN "validated" ELSE "refused"]
    /\ UNCHANGED <<db, lock, schema, unit, local, progress, job, answer, crashes>>

\* Then the bindings of the records; one violation refuses the start.  A record
\* is never altered in the model, so fingerprints match by construction; an
\* approval has neither kind nor times and is never revoked, as no caller revokes
\* one and each is issued by an operator for the moment it is used.
CheckRecords(w) ==
    /\ run[w] = "validated"
    /\ run' = [run EXCEPT ![w] = IF JournalNotAhead(db) /\ AuthorityBound(db) THEN "up" ELSE "refused"]
    /\ UNCHANGED <<db, lock, schema, unit, local, progress, job, answer, crashes>>

\* A process that dies with the write transaction still open in the database.
ReleasedOnlyByCommit(w) == lock

\* What a dead or closed process held; an open transaction is rolled back.
Released(w) == IF lock = w THEN None ELSE lock

Stop(w) ==
    /\ run[w] # "down"
    /\ crashes < MaxCrashes
    /\ crashes' = crashes + 1
    /\ lock' = Released(w)
    /\ run' = [run EXCEPT ![w] = "down"]
    /\ schema' = [schema EXCEPT ![w] = NoSchema]
    /\ unit' = [unit EXCEPT ![w] = None]
    /\ local' = [local EXCEPT ![w] = None]
    /\ progress' = [progress EXCEPT ![w] = "idle"]
    /\ UNCHANGED <<db, job, answer>>

-----------------------------------------------------------------------------
(***************************************************************************)
(* The protocol of a recovery.                                             *)
(***************************************************************************)

Idle(w) == run[w] = "up" /\ unit[w] = None /\ answer[w] = None

Tell(w, status) ==
    /\ answer' = [answer EXCEPT ![w] = status]
    /\ local' = [local EXCEPT ![w] = None]
    /\ progress' = [progress EXCEPT ![w] = "idle"]

\* Restart discovery and the load of the aggregate, a transaction that writes
\* nothing.  An execution that needs no recovery ends the work.
Discover(w) ==
    /\ Idle(w)
    /\ progress[w] = "idle"
    /\ lock = None
    /\ IF db.aggregate = None THEN Tell(w, "NOTHING_TO_RECOVER")
       ELSE IF db.aggregate.state \notin ConsequentialStates THEN Tell(w, "NOTHING_TO_RECOVER")
       ELSE /\ local' = [local EXCEPT ![w] = db.aggregate]
            /\ progress' = [progress EXCEPT ![w] = "observed"]
            /\ UNCHANGED answer
    /\ UNCHANGED <<db, lock, run, schema, unit, job, crashes>>

\* The transactions a process may open next.
NextUnits(w) ==
    CASE progress[w] = "observed" ->
            IF local[w].state = "OUTCOME_UNKNOWN" THEN {"require"}
            ELSE IF local[w].state = "RECONCILIATION_REQUIRED" THEN {"history"} ELSE {}
      [] progress[w] = "recorded" ->
            IF Buildable(job[w], local[w]) THEN {"prepare", "execute"} ELSE {}
      [] progress[w] = "prepared" -> {"execute"}
      [] OTHER -> {}

\* BEGIN IMMEDIATE; while another transaction is open it fails as busy, and
\* the process may try again.
BeginUnit(w) ==
    /\ Idle(w)
    /\ lock = None
    /\ \E kind \in NextUnits(w) : unit' = [unit EXCEPT ![w] = kind]
    /\ lock' = w
    /\ UNCHANGED <<db, run, schema, local, progress, job, answer, crashes>>

\* The lifecycle rejects the result, or the command cannot be built.
Refuse(w) ==
    /\ Idle(w)
    /\ progress[w] \in {"observed", "recorded"}
    /\ NextUnits(w) = {}
    /\ Tell(w, "REFUSED")
    /\ UNCHANGED <<db, lock, run, schema, unit, job, crashes>>

ProgressAfter(kind) ==
    CASE kind = "require" -> "idle"
      [] kind = "history" -> "recorded"
      [] kind = "prepare" -> "prepared"
      [] kind = "execute" -> "executed"

\* No call was blocked: the records become durable together.
Commit(w) ==
    /\ unit[w] # None
    /\ LET answers == Answers(db, unit[w], job[w], local[w]) IN
       BlockingConflict(answers) = None /\ Acceptable(unit[w], answers)
    /\ db' = Written(db, unit[w], job[w], local[w])
    /\ lock' = None
    /\ progress' = [progress EXCEPT ![w] = ProgressAfter(unit[w])]
    /\ local' = [local EXCEPT ![w] = IF unit[w] = "require" THEN None ELSE @]
    /\ unit' = [unit EXCEPT ![w] = None]
    /\ UNCHANGED <<run, schema, job, answer, crashes>>

\* A conflict rolls everything back and is reported.  A process that lost the
\* race to ask for reconciliation looks again.
RollBack(w) ==
    /\ unit[w] # None
    /\ LET answers == Answers(db, unit[w], job[w], local[w])
           conflict == BlockingConflict(answers)
       IN  /\ conflict # None \/ ~ Acceptable(unit[w], answers)
           /\ IF unit[w] = "require"
              THEN /\ local' = [local EXCEPT ![w] = None]
                   /\ progress' = [progress EXCEPT ![w] = "idle"]
                   /\ UNCHANGED answer
              ELSE Tell(w, IF conflict = None THEN "ABANDONED" ELSE conflict)
    /\ lock' = None
    /\ unit' = [unit EXCEPT ![w] = None]
    /\ UNCHANGED <<db, run, schema, job, crashes>>

\* The operator learns of a recovery after it is durable, unless the process
\* dies in between.
Report(w) ==
    /\ Idle(w)
    /\ progress[w] = "executed"
    /\ Tell(w, "SAVED")
    /\ UNCHANGED <<db, lock, run, schema, unit, job, crashes>>

Next ==
    \E w \in Workers :
        \/ Start(w) \/ BeginMigration(w) \/ MigrationRefused(w)
        \/ ApplyMigration(w) \/ MigrationFails(w) \/ Reinspect(w)
        \/ ValidateSchema(w) \/ CheckRecords(w) \/ Stop(w)
        \/ Discover(w) \/ BeginUnit(w) \/ Refuse(w)
        \/ Commit(w) \/ RollBack(w) \/ Report(w)

Spec == Init /\ [][Next]_vars

-----------------------------------------------------------------------------
(***************************************************************************)
(* Properties.                                                             *)
(***************************************************************************)

Runs == {"down", "opened", "migrating", "migrated", "validated", "up", "refused"}

\* The type invariant: the write transaction is held by the one process that
\* has one open, and what a process loaded lives as long as its work.
TypeOK ==
    /\ db \in Records
    /\ lock \in Workers \cup {None}
    /\ run \in [Workers -> Runs]
    /\ schema \in [Workers -> [known : 0 .. LastVersion, current : 0 .. LastVersion,
                               next : 1 .. LastVersion + 1]]
    /\ unit \in [Workers -> Units \cup {None}]
    /\ local \in [Workers -> Aggregates \cup {None}]
    /\ progress \in [Workers -> {"idle", "observed", "recorded", "prepared", "executed"}]
    /\ job \in [Workers -> Requests]
    /\ answer \in [Workers -> Statuses \cup {None}]
    /\ crashes \in 0 .. MaxCrashes
    /\ \A w \in Workers :
           /\ lock = w <=> unit[w] # None \/ run[w] = "migrating"
           /\ progress[w] = "idle" <=> local[w] = None
           /\ progress[w] # "idle" => run[w] = "up"

\* No start is refused over what recoveries left: whatever was prepared, executed,
\* lost or interrupted, in whatever order the processes started, migrated and
\* died, the migrations are on record once each, in order, and journal,
\* reconciliation history and recovery authority agree as CheckRecords asks.
\* One violating row would keep every process out.  A start whose migration
\* finds the database busy or fails is back down, not refused; the checks that
\* ValidateSchema and CheckRecords leave out are not part of this.
StartsPass ==
    /\ \A w \in Workers : run[w] # "refused"
    /\ IsPrefix(db.migrations, KnownMigrations)

\* The aggregate is where its journal ends, the journal is a chain without gap
\* from the unknown outcome, and every advance by an operator is by a durable
\* command, bound to a comparison with the very revision it advanced and, when
\* it resolved the execution, to the destination it reached.
RecoveryIsOwned ==
    db.aggregate # None =>
        /\ db.aggregate.revision = BaseRevision + Len(db.journal)
        /\ \A i \in DOMAIN db.journal :
               LET entry == db.journal[i] IN
               /\ entry.revision = BaseRevision + i
               /\ entry.from = IF i = 1 THEN "OUTCOME_UNKNOWN" ELSE db.journal[i - 1].to
               /\ i = Len(db.journal) => entry.to = db.aggregate.state
                                         /\ entry.command = db.aggregate.command
               /\ entry.command # Origin =>
                      LET command == db.commands[entry.command] IN
                      /\ command # None
                      /\ command.payload.history.revision = entry.revision - 1
                      /\ entry.row = "PX-TRN-027" => entry.to = command.payload.destination

AppliedBy(command) == {i \in DOMAIN db.journal : db.journal[i].command = command}

\* What an operator was told stays true: a recovery reported as saved is in the
\* journal under its command, once, and two operators with different commands
\* are not both told that theirs resolved the execution; a stale or terminal
\* answer means that this very recovery had been applied before, by an earlier
\* life of the process or by another worker; an abort or a command conflict
\* names a durable rival, a comparison, an advance or a use of the approval.
AnswersHold ==
    /\ \A w \in Workers :
           LET r == job[w] IN
           /\ answer[w] \in {"SAVED", "STALE_REVISION", "ALREADY_TERMINAL"} =>
                  Cardinality(AppliedBy(r.command)) = 1
           /\ answer[w] = "COMMAND_CONFLICT" => db.commands[r.command] # None
           /\ answer[w] = "TRANSACTION_ABORTED" =>
                  \/ \E h \in db.history : h.id[2] = r.evidence /\ h.recorded # r.recorded
                  \/ \E i \in DOMAIN db.journal : db.journal[i].command \notin {Origin, r.command}
                  \/ \E c \in Recoveries \ {r.command} :
                         db.commands[c] # None /\ db.commands[c].approval = r.approval
    /\ Cardinality({i \in DOMAIN db.journal : db.journal[i].row = "PX-TRN-027"}) <= 1
-----------------------------------------------------------------------------
(***************************************************************************)
(* The inductive invariant.                                                *)
(***************************************************************************)

\* The migrations on record are the first ones, in order.
MigrationsInOrder ==
    /\ Len(db.migrations) <= LastVersion
    /\ \A i \in DOMAIN db.migrations : db.migrations[i] = KnownMigrations[i]

\* The first entry, and an entry that advances as a command says.
AsksForReconciliation(entry) ==
    /\ entry.command = Origin /\ entry.record = Origin
    /\ entry.row = "PX-TRN-025" /\ entry.to = "RECONCILIATION_REQUIRED"

Recovers(entry, payload) ==
    LET resolved == payload.history.outcome = "OPERATOR_ACTION_REQUIRED" IN
    /\ entry.command # Origin /\ entry.record = entry.command
    /\ entry.from = "RECONCILIATION_REQUIRED"
    /\ entry.row = IF resolved THEN "PX-TRN-027" ELSE "PX-TRN-028"
    /\ entry.to = IF resolved THEN payload.destination ELSE "RECONCILIATION_REQUIRED"

\* The journal starts at the unknown outcome, and what follows is one advance
\* by each of several commands, by a row of its own.
JournalInv ==
    /\ db.aggregate = None => db.journal = << >>
    /\ db.aggregate # None /\ db.journal = << >> => db.aggregate.state = "OUTCOME_UNKNOWN"
    /\ RecoveryIsOwned
    /\ \A i \in DOMAIN db.journal :
           LET entry == db.journal[i] IN
           IF i = 1 THEN AsksForReconciliation(entry)
           ELSE Recovers(entry, db.commands[entry.command].payload)
    /\ \A i, j \in DOMAIN db.journal :
           db.journal[i].record = db.journal[j].record \/ db.journal[i].row = db.journal[j].row
               => i = j

\* A comparison is what some request found of an execution that waits for it.
HistoryInv ==
    \A h \in db.history :
        /\ h.state = "RECONCILIATION_REQUIRED"
        /\ \E r \in Requests : h = HistoryRecord(r, h)

\* A command, its reservation and its approval are on record together.
AuthorityInv ==
    /\ AuthorityBound(db)
    /\ \A k \in DOMAIN db.reservations :
           db.reservations[k] # None =>
               LET command == db.commands[db.reservations[k].command] IN
               command # None /\ command.key = k
    /\ \A a \in DOMAIN db.approvals :
           db.approvals[a] # None =>
               \E c \in Recoveries : /\ db.commands[c] # None
                                     /\ db.commands[c].approval = a
                                     /\ db.commands[c].payload = db.approvals[a]

\* A runner is never ahead of the migrations on record.
StartInv(w) ==
    /\ run[w] # "refused"
    /\ run[w] = "opened" => schema[w].next <= Len(db.migrations) + 1
    /\ run[w] = "migrating" => schema[w].next <= Len(db.migrations) + 1
                               /\ schema[w].next <= LastVersion
    /\ run[w] = "migrated" => schema[w].next <= Len(db.migrations)
    /\ run[w] \in {"validated", "up"} => Len(db.migrations) = LastVersion

\* What a process loaded is the aggregate at a revision it once had; what it
\* compared is on record, and what it executed in the journal.
WorkInv(w) ==
    /\ local[w] # None =>
           /\ db.aggregate # None
           /\ local[w].revision \in BaseRevision .. db.aggregate.revision
           /\ local[w].revision = db.aggregate.revision => local[w] = db.aggregate
           /\ local[w].revision = BaseRevision => local[w].state = "OUTCOME_UNKNOWN"
    /\ progress[w] \in {"recorded", "prepared", "executed"} =>
           /\ local[w].state = "RECONCILIATION_REQUIRED"
           /\ HistoryRecord(job[w], local[w]) \in db.history
    /\ progress[w] = "prepared" => Buildable(job[w], local[w])
    /\ progress[w] = "executed" => AppliedBy(job[w].command) # {}
    /\ unit[w] # None => run[w] = "up" /\ unit[w] \in NextUnits(w)

\* What a process told is on record.
AnswerInv(w) ==
    LET r == job[w] IN
    /\ answer[w] \in {"SAVED", "STALE_REVISION", "ALREADY_TERMINAL"} => AppliedBy(r.command) # {}
    /\ answer[w] = "COMMAND_CONFLICT" => db.commands[r.command] # None
    /\ answer[w] = "TRANSACTION_ABORTED" =>
           \/ \E h \in db.history : h.id[2] = r.evidence /\ h.recorded # r.recorded
           \/ \E i \in DOMAIN db.journal : db.journal[i].command \notin {Origin, r.command}
           \/ \E c \in Recoveries \ {r.command} :
                  db.commands[c] # None /\ db.commands[c].approval = r.approval

RecordsInv == MigrationsInOrder /\ JournalInv /\ HistoryInv /\ AuthorityInv

IInv == TypeOK /\ RecordsInv /\ \A w \in Workers : StartInv(w) /\ WorkInv(w) /\ AnswerInv(w)
=============================================================================
