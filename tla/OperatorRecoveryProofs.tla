----------------------- MODULE OperatorRecoveryProofs -----------------------
(***************************************************************************)
(* Theorems of OperatorRecovery for any number of processes, any requests  *)
(* of operators, any schema version the database is found at, and any      *)
(* number of processes that die.                                           *)
(***************************************************************************)
EXTENDS OperatorRecovery, FiniteSetTheorems, TLAPS

(***************************************************************************)
(* Types.                                                                  *)
(***************************************************************************)
\* There are five migrations, each known by its own name.
LEMMA FiveMigrations ==
  /\ LastVersion = 5
  /\ DOMAIN KnownMigrations = 1 .. 5
  /\ \A i \in 1 .. 5 :
         KnownMigrations[i] \in {"v001", "v002", "v003", "v004", "v005"}
  /\ \A i, j \in 1 .. 5 : KnownMigrations[i] = KnownMigrations[j] => i = j
BY DEF LastVersion, KnownMigrations

\* What a request contributes to a record.
LEMMA RequestParts ==
  ASSUME NEW r \in Requests
  PROVE  /\ r.command \in Recoveries
         /\ r.evidence \in Evidence
         /\ r.outcome \in Outcomes
         /\ r.destination \in States
         /\ r.command # Origin
         /\ r.key \in {q.key : q \in Requests}
         /\ r.approval \in {q.approval : q \in Requests}
         /\ r.recorded \in {q.recorded : q \in Requests}
BY RecoveryAssumption DEF Recoveries, Evidence

\* The records made of a request and of a loaded aggregate are typed.
LEMMA RecordTypes ==
  ASSUME NEW r \in Requests, NEW l \in Aggregates
  PROVE  /\ HistoryRecord(r, l) \in Histories
         /\ Payload(r, l) \in Payloads
         /\ CommandRecord(r, l) \in CommandRecords
         /\ ReservationRecord(r, l) \in Reservations
         /\ RecoveryEntry(r, l) \in Entries
         /\ RequireEntry(l) \in Entries
<1>1. HistoryRecord(r, l) \in Histories
  BY RequestParts DEF HistoryRecord, Histories, ReconciliationId, Aggregates
<1>2. Payload(r, l) \in Payloads
  BY <1>1, RequestParts DEF Payload, Payloads
<1>3. CommandRecord(r, l) \in CommandRecords
  BY <1>2, RequestParts DEF CommandRecord, CommandRecords
<1>4. ReservationRecord(r, l) \in Reservations
  BY <1>2, RequestParts
     DEF ReservationRecord, Reservations, LogicalOperation, Payload, HistoryRecord,
         ReconciliationId, Aggregates
<1>5. RecoveryEntry(r, l) \in Entries
  BY RequestParts DEF RecoveryEntry, Entries, Aggregates, States
<1>6. RequireEntry(l) \in Entries
  BY DEF RequireEntry, Entries, Aggregates, States
<1> QED BY <1>1, <1>2, <1>3, <1>4, <1>5, <1>6

\* The tables of a database.
LEMMA RecordFields ==
  ASSUME NEW d \in Records
  PROVE  /\ d.migrations \in Seq({"v001", "v002", "v003", "v004", "v005"})
         /\ Len(d.migrations) \in Nat
         /\ DOMAIN d.migrations = 1 .. Len(d.migrations)
         /\ d.aggregate \in Aggregates \cup {None}
         /\ d.journal \in Seq(Entries)
         /\ Len(d.journal) \in Nat
         /\ DOMAIN d.journal = 1 .. Len(d.journal)
         /\ d.history \subseteq Histories
         /\ d.commands \in [Recoveries -> CommandRecords \cup {None}]
         /\ d.reservations \in [{r.key : r \in Requests} -> Reservations \cup {None}]
         /\ d.approvals \in [{r.approval : r \in Requests} -> Payloads \cup {None}]
BY DEF Records

LEMMA InitType == Init => TypeOK
<1> SUFFICES ASSUME Init PROVE TypeOK
  OBVIOUS
<1>1. PICK version \in Versions : db = EmptyRecords(version)
  BY DEF Init
<1>2. SubSeq(KnownMigrations, 1, version) \in Seq({"v001", "v002", "v003", "v004", "v005"})
  BY RecoveryAssumption DEF KnownMigrations
<1>3. db \in Records
  BY <1>1, <1>2 DEF EmptyRecords, Records, Aggregate, Aggregates, States, BaseRevision
<1>4. MaxCrashes \in Nat
  BY RecoveryAssumption
<1> QED BY <1>3, <1>4, FiveMigrations, NoneAssumption DEF Init, TypeOK, Runs, NoSchema, Units, Statuses
-----------------------------------------------------------------------------
(***************************************************************************)
(* Every step keeps the types.                                             *)
(***************************************************************************)
\* Recording an authority, or an advance, keeps the records typed.
LEMMA AuthorizationType ==
  ASSUME NEW d \in Records, NEW r \in Requests, NEW l \in Aggregates
  PROVE  WithAuthorization(d, r, l) \in Records
<1>1. /\ CommandRecord(r, l) \in CommandRecords
      /\ ReservationRecord(r, l) \in Reservations
      /\ Payload(r, l) \in Payloads
  BY RecordTypes
<1> QED BY <1>1 DEF WithAuthorization, Records

LEMMA AdvanceType ==
  ASSUME NEW d \in Records, NEW entry \in Entries
  PROVE  WithAdvance(d, entry) \in Records
<1>1. Aggregate(entry.to, entry.revision, entry.command) \in Aggregates
  BY DEF Aggregate, Aggregates, Entries
<1>2. d.journal \in Seq(Entries)
  BY DEF Records
<1>3. Append(d.journal, entry) \in Seq(Entries)
  BY <1>2
<1> QED BY <1>1, <1>2, <1>3 DEF WithAdvance, Records

\* What a transaction writes is typed.
LEMMA WrittenType ==
  ASSUME NEW d \in Records, NEW r \in Requests, NEW l \in Aggregates, NEW kind \in Units
  PROVE  Written(d, kind, r, l) \in Records
<1>1. CASE kind = "require"
  BY <1>1, RecordTypes, AdvanceType DEF Written
<1>2. CASE kind = "history"
  BY <1>2, RecordTypes DEF Written, Records
<1>3. CASE kind = "prepare"
  BY <1>3, AuthorizationType DEF Written
<1>4. CASE kind = "execute"
  BY <1>4, AuthorizationType, AdvanceType, RecordTypes DEF Written
<1> QED BY <1>1, <1>2, <1>3, <1>4 DEF Units

\* Some answers of up to five have a first one of their kind.
LEMMA LeastIndex ==
  ASSUME NEW indices, indices \subseteq 1 .. 5, indices # {}
  PROVE  \E i \in indices : \A j \in indices : i <= j
<1>1. \A i \in indices : i = 1 \/ i = 2 \/ i = 3 \/ i = 4 \/ i = 5
  OBVIOUS
<1>2. CASE 1 \in indices
  BY <1>1, <1>2
<1>3. CASE 1 \notin indices /\ 2 \in indices
  BY <1>1, <1>3
<1>4. CASE {1, 2} \cap indices = {} /\ 3 \in indices
  BY <1>1, <1>4
<1>5. CASE {1, 2, 3} \cap indices = {} /\ 4 \in indices
  BY <1>1, <1>5
<1>6. CASE {1, 2, 3, 4} \cap indices = {} /\ 5 \in indices
  BY <1>1, <1>6
<1> QED BY <1>1, <1>2, <1>3, <1>4, <1>5, <1>6

\* What a transaction reports: no conflict if no call was answered by one, and
\* otherwise the first.
LEMMA FirstConflict ==
  ASSUME NEW answers, DOMAIN answers \subseteq 1 .. 5
  PROVE  \/ /\ BlockingConflict(answers) = None
            /\ \A i \in DOMAIN answers : answers[i] \notin Conflicts
         \/ \E i \in DOMAIN answers :
                /\ answers[i] = BlockingConflict(answers)
                /\ answers[i] \in Conflicts
                /\ \A j \in DOMAIN answers : answers[j] \in Conflicts => i <= j
<1> DEFINE conflicting == {i \in DOMAIN answers : answers[i] \in Conflicts}
<1>1. CASE conflicting = {}
  BY <1>1 DEF BlockingConflict
<1>2. CASE conflicting # {}
  <2>1. \E i \in conflicting : \A j \in conflicting : i <= j
    <3>1. conflicting \subseteq 1 .. 5
      OBVIOUS
    <3> HIDE DEF conflicting
    <3> QED BY <1>2, <3>1, LeastIndex
  <2> DEFINE first == CHOOSE i \in conflicting : \A j \in conflicting : i <= j
  <2>2. first \in conflicting /\ \A j \in conflicting : first <= j
    <3> HIDE DEF conflicting
    <3> QED BY <2>1
  <2>3. BlockingConflict(answers) = answers[first]
    BY <1>2 DEF BlockingConflict
  <2> HIDE DEF first
  <2> QED BY <2>2, <2>3
<1> QED BY <1>1, <1>2

\* A conflict a transaction reports is one of its answers.
LEMMA BlockingIsConflict ==
  ASSUME NEW answers, DOMAIN answers \subseteq 1 .. 5, BlockingConflict(answers) # None
  PROVE  BlockingConflict(answers) \in Conflicts
BY FirstConflict

\* The statuses of the calls of a transaction.
LEMMA AnswersDomain ==
  ASSUME NEW d, NEW r, NEW l, NEW kind \in Units
  PROVE  DOMAIN Answers(d, kind, r, l) \subseteq 1 .. 5
BY DEF Answers, Units, Authorization, Advance

\* A runner reads one of the versions there are.
LEMMA VersionType ==
  ASSUME TypeOK, MigrationsInOrder
  PROVE  AppliedVersion(db) \in 0 .. 5 /\ AppliedVersion(db) = Len(db.migrations)
<1>1. Len(db.migrations) \in Nat
  BY RecordFields DEF TypeOK
<1>2. Len(db.migrations) <= 5
  BY FiveMigrations DEF MigrationsInOrder
<1>3. \A n \in Nat : n <= 5 => n \in 0 .. 5
  OBVIOUS
<1> QED BY <1>1, <1>2, <1>3, Zenon DEF AppliedVersion

\* A start keeps the types: no runner counts past the last migration.
LEMMA StartTypes ==
  ASSUME IInv, NEW w \in Workers,
         \/ Start(w) \/ BeginMigration(w) \/ MigrationRefused(w)
         \/ ApplyMigration(w) \/ MigrationFails(w) \/ Reinspect(w)
         \/ ValidateSchema(w) \/ CheckRecords(w) \/ Stop(w)
  PROVE  TypeOK'
<1> USE NoneAssumption, FiveMigrations, RecoveryAssumption
<1>1. TypeOK /\ StartInv(w) /\ WorkInv(w) /\ MigrationsInOrder
  BY DEF IInv, RecordsInv
<1>2. AppliedVersion(db) \in 0 .. 5
  BY <1>1, VersionType
<1>3. progress[w] # "idle" => run[w] = "up"
  BY <1>1 DEF TypeOK
<1>4. unit[w] # None => run[w] = "up"
  BY <1>1 DEF WorkInv
<1>5. CASE Start(w)
  BY <1>1, <1>2, <1>5 DEF Start, TypeOK, Runs
<1>6. CASE BeginMigration(w)
  BY <1>1, <1>6 DEF BeginMigration, TypeOK, Runs
<1>7. CASE MigrationRefused(w)
  BY <1>1, <1>4, <1>7 DEF MigrationRefused, CloseFailedStart, NoSchema, TypeOK, Runs
<1>8. CASE ApplyMigration(w)
  <2>1. schema[w].next \in 1 .. 5
    BY <1>1, <1>8 DEF ApplyMigration, StartInv, TypeOK
  <2>2. db' \in Records
    <3> DEFINE migration == KnownMigrations[schema[w].next]
    <3>1. db' = [db EXCEPT !.migrations = Append(db.migrations, migration)]
      BY <1>8 DEF ApplyMigration
    <3>2. migration \in {"v001", "v002", "v003", "v004", "v005"}
      BY <2>1
    <3>3. db.migrations \in Seq({"v001", "v002", "v003", "v004", "v005"})
      BY <1>1, RecordFields DEF TypeOK
    <3> HIDE DEF migration
    <3>4. Append(db.migrations, migration) \in Seq({"v001", "v002", "v003", "v004", "v005"})
      BY <3>2, <3>3
    <3> QED BY <1>1, <3>1, <3>4 DEF TypeOK, Records
  <2> QED BY <1>1, <1>4, <1>8, <2>2 DEF ApplyMigration, TypeOK, Runs
<1>9. CASE MigrationFails(w)
  BY <1>1, <1>4, <1>9 DEF MigrationFails, CloseFailedStart, NoSchema, TypeOK, Runs
<1>10. CASE Reinspect(w)
  <2>1. schema[w].next \in 1 .. 5
    BY <1>1, <1>10 DEF Reinspect, StartInv, TypeOK, MigrationsInOrder, Records
  <2> QED BY <1>1, <1>2, <1>10, <2>1 DEF Reinspect, TypeOK, Runs
<1>11. CASE ValidateSchema(w)
  BY <1>1, <1>11 DEF ValidateSchema, TypeOK, Runs
<1>12. CASE CheckRecords(w)
  BY <1>1, <1>12 DEF CheckRecords, TypeOK, Runs
<1>13. CASE Stop(w)
  BY <1>1, <1>4, <1>13 DEF Stop, Released, NoSchema, TypeOK, Runs
<1> QED BY <1>5, <1>6, <1>7, <1>8, <1>9, <1>10, <1>11, <1>12, <1>13

\* So does a step of the protocol.
LEMMA ProtocolTypes ==
  ASSUME IInv, NEW w \in Workers,
         \/ Discover(w) \/ BeginUnit(w) \/ Refuse(w)
         \/ Commit(w) \/ RollBack(w) \/ Report(w)
  PROVE  TypeOK'
<1> USE NoneAssumption, FiveMigrations, RecoveryAssumption
<1>1. TypeOK /\ WorkInv(w)
  BY DEF IInv
<1>2. unit[w] # None => unit[w] \in Units /\ run[w] = "up" /\ local[w] \in Aggregates
  BY <1>1 DEF WorkInv, TypeOK, NextUnits
<1>3. CASE Discover(w)
  <2>1. db.aggregate \in Aggregates \cup {None}
    BY <1>1, RecordFields DEF TypeOK
  <2>2. UNCHANGED <<db, lock, run, schema, unit, job, crashes>> /\ run[w] = "up"
    BY <1>3 DEF Discover, Idle
  <2>3. CASE Tell(w, "NOTHING_TO_RECOVER")
    BY <1>1, <2>2, <2>3 DEF Tell, TypeOK, Statuses
  <2>4. CASE /\ local' = [local EXCEPT ![w] = db.aggregate]
             /\ progress' = [progress EXCEPT ![w] = "observed"]
             /\ UNCHANGED answer
             /\ db.aggregate # None
    BY <1>1, <2>1, <2>2, <2>4 DEF TypeOK
  <2> QED BY <1>3, <2>3, <2>4 DEF Discover
<1>4. CASE BeginUnit(w)
  <2>1. NextUnits(w) \subseteq Units
    BY DEF NextUnits, Units
  <2>2. PICK kind \in NextUnits(w) : unit' = [unit EXCEPT ![w] = kind]
    BY <1>4 DEF BeginUnit
  <2>3. kind \in Units
    BY <2>1
  <2> QED BY <1>1, <1>4, <2>2, <2>3 DEF BeginUnit, Idle, TypeOK
<1>5. CASE Refuse(w)
  BY <1>1, <1>5 DEF Refuse, Idle, Tell, TypeOK, Statuses
<1>6. CASE Commit(w)
  <2>1. db' \in Records
    BY <1>1, <1>2, <1>6, WrittenType DEF Commit, TypeOK
  <2>2. ProgressAfter(unit[w]) \in {"idle", "recorded", "prepared", "executed"}
    BY <1>2, <1>6 DEF Commit, ProgressAfter, Units
  <2>3. ProgressAfter(unit[w]) = "idle" <=> unit[w] = "require"
    BY <1>2, <1>6 DEF Commit, ProgressAfter, Units
  <2> QED BY <1>1, <1>2, <1>6, <2>1, <2>2, <2>3 DEF Commit, TypeOK
<1>7. CASE RollBack(w)
  <2>1. DOMAIN Answers(db, unit[w], job[w], local[w]) \subseteq 1 .. 5
    BY <1>2, <1>7, AnswersDomain DEF RollBack
  <2>2. LET conflict == BlockingConflict(Answers(db, unit[w], job[w], local[w]))
        IN  (IF conflict = None THEN "ABANDONED" ELSE conflict) \in Statuses
    BY <2>1, BlockingIsConflict DEF Statuses
  <2> QED BY <1>1, <1>2, <1>7, <2>2 DEF RollBack, Tell, TypeOK
<1>8. CASE Report(w)
  BY <1>1, <1>8 DEF Report, Idle, Tell, TypeOK, Statuses
<1> QED BY <1>3, <1>4, <1>5, <1>6, <1>7, <1>8
-----------------------------------------------------------------------------
(***************************************************************************)
(* The inductive invariant holds initially.                                *)
(***************************************************************************)
LEMMA InitInv == Init => IInv
<1> SUFFICES ASSUME Init PROVE IInv
  OBVIOUS
<1>1. TypeOK
  BY InitType
<1>2. PICK version \in Versions : db = EmptyRecords(version)
  BY DEF Init
<1>3. /\ db.migrations = SubSeq(KnownMigrations, 1, version)
      /\ db.journal = << >>
      /\ db.history = {}
      /\ db.commands = [c \in Recoveries |-> None]
      /\ db.reservations = [k \in {r.key : r \in Requests} |-> None]
      /\ db.approvals = [a \in {r.approval : r \in Requests} |-> None]
      /\ db.aggregate = IF version < 4 THEN None
                        ELSE Aggregate("OUTCOME_UNKNOWN", BaseRevision, Origin)
  BY <1>2 DEF EmptyRecords
<1>4. MigrationsInOrder
  <2>1. version \in 0 .. 5
    BY RecoveryAssumption
  <2> QED BY <1>3, <2>1 DEF MigrationsInOrder, LastVersion, KnownMigrations
<1>5. JournalInv
  <2>1. /\ DOMAIN db.journal = {}
        /\ Len(db.journal) = 0
    BY <1>3
  <2>2. db.aggregate # None =>
            db.aggregate.state = "OUTCOME_UNKNOWN" /\ db.aggregate.revision = BaseRevision
    BY <1>3 DEF Aggregate
  <2> QED BY <1>3, <2>1, <2>2 DEF JournalInv, RecoveryIsOwned, BaseRevision
<1>6. HistoryInv
  BY <1>3 DEF HistoryInv
<1>7. AuthorityInv
  BY <1>3 DEF AuthorityInv, AuthorityBound
<1>8. ASSUME NEW w \in Workers PROVE StartInv(w) /\ WorkInv(w) /\ AnswerInv(w)
  BY <1>8, NoneAssumption DEF Init, StartInv, WorkInv, AnswerInv, Statuses, Conflicts
<1> QED BY <1>1, <1>4, <1>5, <1>6, <1>7, <1>8 DEF IInv, RecordsInv

-----------------------------------------------------------------------------
(***************************************************************************)
(* What other processes keep.                                              *)
(***************************************************************************)
\* What the steps of one process leave of another.
Same(v) ==
  /\ run'[v] = run[v]
  /\ schema'[v] = schema[v]
  /\ unit'[v] = unit[v]
  /\ local'[v] = local[v]
  /\ progress'[v] = progress[v]
  /\ job'[v] = job[v]
  /\ answer'[v] = answer[v]

\* The records only grow, and an aggregate that changes takes a later revision.
Grown ==
  /\ Len(db.migrations) <= Len(db'.migrations)
  /\ db.history \subseteq db'.history
  /\ \A c \in Recoveries : db.commands[c] # None => db'.commands[c] = db.commands[c]
  /\ \A i \in DOMAIN db.journal :
         i \in DOMAIN db'.journal /\ db'.journal[i] = db.journal[i]
  /\ db.aggregate # None =>
         /\ db'.aggregate # None
         /\ \/ db'.aggregate = db.aggregate
            \/ db'.aggregate.revision > db.aggregate.revision

LEMMA UnchangedGrown == ASSUME TypeOK, UNCHANGED db PROVE Grown
<1>1. Len(db.migrations) \in Nat
  BY RecordFields DEF TypeOK
<1> QED BY <1>1 DEF Grown

LEMMA RecordsKept == ASSUME RecordsInv, UNCHANGED db PROVE RecordsInv'
<1>1. MigrationsInOrder'
  BY DEF RecordsInv, MigrationsInOrder
<1>2. JournalInv'
  BY DEF RecordsInv, JournalInv, RecoveryIsOwned
<1>3. HistoryInv'
  BY DEF RecordsInv, HistoryInv
<1>4. AuthorityInv'
  BY DEF RecordsInv, AuthorityInv, AuthorityBound, ReservationBound, ApprovalBound,
         HistoryBound
<1> QED BY <1>1, <1>2, <1>3, <1>4 DEF RecordsInv

\* A process whose own memory is unchanged keeps its invariants while the
\* records grow.
LEMMA StartKept ==
  ASSUME TypeOK, TypeOK', RecordsInv, RecordsInv', Grown,
         NEW v \in Workers, Same(v), StartInv(v)
  PROVE  StartInv(v)'
<1>1. /\ Len(db.migrations) \in Nat /\ Len(db'.migrations) \in Nat
      /\ Len(db.migrations) <= Len(db'.migrations)
      /\ Len(db'.migrations) <= LastVersion
      /\ schema[v].next \in 1 .. LastVersion + 1
  BY RecordFields DEF TypeOK, RecordsInv, MigrationsInOrder, Grown
<1>2. LastVersion = 5
  BY FiveMigrations
<1> DEFINE n == Len(db.migrations)
           m == Len(db'.migrations)
<1>3. n \in Nat /\ m \in Nat /\ n <= m /\ m <= 5 /\ schema[v].next \in 1 .. 6
  BY <1>1, <1>2
<1>4. /\ run'[v] = run[v]
      /\ schema'[v].next = schema[v].next
  BY DEF Same
<1>5. n = LastVersion => m = LastVersion
  <2> HIDE DEF n, m
  <2> QED BY <1>2, <1>3
<1>6. /\ schema[v].next <= n => schema[v].next <= m
      /\ schema[v].next <= n + 1 => schema[v].next <= m + 1
  <2> HIDE DEF n, m
  <2> QED BY <1>3
<1> QED BY <1>4, <1>5, <1>6, Zenon DEF StartInv

LEMMA LoadedKept ==
  ASSUME TypeOK, TypeOK', Grown, NEW v \in Workers, WorkInv(v), local[v] # None
  PROVE  /\ db'.aggregate # None
         /\ local[v].revision \in BaseRevision .. db'.aggregate.revision
         /\ local[v].revision = db'.aggregate.revision => local[v] = db'.aggregate
<1>1. db.aggregate # None /\ db'.aggregate # None
  BY DEF WorkInv, Grown
<1>2. /\ db.aggregate \in Aggregates /\ db'.aggregate \in Aggregates
      /\ local[v] \in Aggregates
  <2>1. db \in Records /\ db' \in Records /\ local[v] \in Aggregates \cup {None}
    BY DEF TypeOK
  <2> QED BY <1>1, <2>1, RecordFields
<1>3. /\ db.aggregate.revision \in Nat /\ db'.aggregate.revision \in Nat
      /\ local[v].revision \in Nat
  BY <1>2 DEF Aggregates
<1>4. /\ local[v].revision \in BaseRevision .. db.aggregate.revision
      /\ local[v].revision = db.aggregate.revision => local[v] = db.aggregate
      /\ BaseRevision \in Nat
  BY DEF WorkInv, BaseRevision
<1>5. db'.aggregate = db.aggregate \/ db'.aggregate.revision > db.aggregate.revision
  BY <1>1 DEF Grown
<1>6. CASE db'.aggregate = db.aggregate
  BY <1>1, <1>3, <1>4, <1>6
<1>7. CASE db'.aggregate.revision > db.aggregate.revision
  BY <1>1, <1>3, <1>4, <1>7
<1> QED BY <1>5, <1>6, <1>7

LEMMA WorkKept ==
  ASSUME TypeOK, TypeOK', Grown, NEW v \in Workers, Same(v), WorkInv(v)
  PROVE  WorkInv(v)'
<1>1. NextUnits(v)' = NextUnits(v)
  BY DEF NextUnits, Same
<1>2. AppliedBy(job[v].command) \subseteq AppliedBy(job[v].command)'
  BY DEF AppliedBy, Grown, Same
<1>3. local[v] # None =>
           /\ db'.aggregate # None
           /\ local[v].revision \in BaseRevision .. db'.aggregate.revision
           /\ local[v].revision = db'.aggregate.revision => local[v] = db'.aggregate
  BY LoadedKept
<1> QED BY <1>1, <1>2, <1>3 DEF WorkInv, Same, Grown, Buildable, HistoryRecord

LEMMA AnswerKept ==
  ASSUME TypeOK, Grown, NEW v \in Workers, Same(v), AnswerInv(v)
  PROVE  AnswerInv(v)'
<1>1. job[v].command \in Recoveries
  BY RequestParts DEF TypeOK
<1>2. AppliedBy(job[v].command) \subseteq AppliedBy(job[v].command)'
  BY DEF AppliedBy, Grown, Same
<1>3. /\ job'[v] = job[v]
      /\ answer'[v] = answer[v]
  BY DEF Same
<1> QED BY <1>1, <1>2, <1>3 DEF AnswerInv, Grown

\* A step of one process keeps the invariant if it keeps the process's part.
LEMMA StepKeeps ==
  ASSUME IInv, TypeOK', RecordsInv', Grown, NEW w \in Workers,
         \A v \in Workers \ {w} : Same(v),
         StartInv(w)', WorkInv(w)', AnswerInv(w)'
  PROVE  IInv'
<1>1. ASSUME NEW v \in Workers PROVE StartInv(v)' /\ WorkInv(v)' /\ AnswerInv(v)'
  <2>1. CASE v = w
    BY <2>1
  <2>2. CASE v # w
    <3>1. Same(v) /\ StartInv(v) /\ WorkInv(v) /\ AnswerInv(v) /\ TypeOK /\ RecordsInv
      BY <2>2 DEF IInv
    <3> QED BY <3>1, StartKept, WorkKept, AnswerKept
  <2> QED BY <2>1, <2>2
<1> QED BY <1>1 DEF IInv

-----------------------------------------------------------------------------
(***************************************************************************)
(* Starting keeps the invariant.                                           *)
(***************************************************************************)
LEMMA SequenceOfFive ==
  ASSUME NEW S, NEW s \in Seq(S), Len(s) = 5
  PROVE  s \in [1 .. 5 -> S]
OBVIOUS

\* A runner that counted past the last migration finds the schema current.
LEMMA SchemaFound ==
  ASSUME TypeOK, MigrationsInOrder, Len(db.migrations) = LastVersion
  PROVE  SchemaCurrent(db)
<1>1. /\ db.migrations \in Seq({"v001", "v002", "v003", "v004", "v005"})
      /\ Len(db.migrations) = 5
  BY RecordFields, FiveMigrations DEF TypeOK
<1>2. db.migrations \in [1 .. 5 -> {"v001", "v002", "v003", "v004", "v005"}]
  BY <1>1, SequenceOfFive, Zenon
<1>3. KnownMigrations \in [1 .. 5 -> {"v001", "v002", "v003", "v004", "v005"}]
  BY DEF KnownMigrations
<1>4. \A i \in 1 .. 5 : db.migrations[i] = KnownMigrations[i]
  BY <1>2 DEF MigrationsInOrder
<1> QED BY <1>2, <1>3, <1>4 DEF SchemaCurrent

\* The records pass the check of a start.
LEMMA ChecksPass ==
  ASSUME TypeOK, RecordsInv
  PROVE  JournalNotAhead(db) /\ AuthorityBound(db)
<1>1. AuthorityBound(db)
  BY DEF RecordsInv, AuthorityInv
<1>2. ASSUME NEW i \in DOMAIN db.journal
      PROVE  db.aggregate.revision >= db.journal[i].revision
  <2>1. /\ Len(db.journal) \in Nat
        /\ i \in 1 .. Len(db.journal)
    BY <1>2, RecordFields DEF TypeOK
  <2>2. db.aggregate # None
    BY <1>2, <2>1 DEF RecordsInv, JournalInv
  <2>3. /\ db.aggregate.revision = BaseRevision + Len(db.journal)
        /\ db.journal[i].revision = BaseRevision + i
    BY <1>2, <2>2 DEF RecordsInv, JournalInv, RecoveryIsOwned
  <2> QED BY <2>1, <2>3 DEF BaseRevision
<1> QED BY <1>1, <1>2 DEF JournalNotAhead

\* A step of a start, the migrations it applies excepted, keeps the invariant.
LEMMA StartKeeps ==
  ASSUME IInv, NEW w \in Workers,
         \/ Start(w) \/ BeginMigration(w) \/ MigrationRefused(w)
         \/ MigrationFails(w) \/ Reinspect(w)
         \/ ValidateSchema(w) \/ CheckRecords(w)
  PROVE  IInv'
<1>1. /\ TypeOK /\ RecordsInv /\ StartInv(w) /\ WorkInv(w) /\ AnswerInv(w)
      /\ MigrationsInOrder
  BY DEF IInv, RecordsInv
<1>2. TypeOK'
  BY StartTypes
<1>3. /\ UNCHANGED <<db, unit, local, progress, job, answer>>
      /\ \A v \in Workers \ {w} : Same(v)
      /\ run[w] # "up"
  BY <1>1 DEF Start, BeginMigration, MigrationRefused, MigrationFails, CloseFailedStart,
              Reinspect, ValidateSchema, CheckRecords, Same, TypeOK
<1>4. RecordsInv' /\ Grown
  BY <1>1, <1>3, RecordsKept, UnchangedGrown
<1>5. /\ Len(db.migrations) \in 0 .. 5
      /\ schema[w].next \in 1 .. 6
      /\ LastVersion = 5
  <2>1. Len(db.migrations) \in 0 .. 5
    BY <1>1, VersionType, Zenon
  <2>2. LastVersion = 5
    BY FiveMigrations
  <2>3. schema[w].next \in 1 .. 6
    BY <1>1, <2>2 DEF TypeOK
  <2> QED BY <2>1, <2>2, <2>3
<1>6. progress[w] = "idle" /\ unit[w] = None /\ local[w] = None
  BY <1>1, <1>3 DEF TypeOK, WorkInv
<1>7. WorkInv(w)' /\ AnswerInv(w)'
  <2>1. /\ progress'[w] = "idle" /\ unit'[w] = None /\ local'[w] = None
        /\ job'[w] = job[w] /\ answer'[w] = answer[w] /\ db' = db
    BY <1>3, <1>6
  <2> QED BY <1>1, <2>1 DEF WorkInv, AnswerInv, AppliedBy
<1>8. StartInv(w)'
  <2> DEFINE n == Len(db.migrations)
  <2>0. n \in 0 .. 5 /\ n = Len(db.migrations) /\ n = Len(db'.migrations)
    BY <1>3, <1>5
  <2> HIDE DEF n
  <2>1. CASE Start(w)
    BY <1>1, <1>5, <2>0, <2>1 DEF Start, StartInv, TypeOK, AppliedVersion
  <2>2. CASE BeginMigration(w)
    BY <1>1, <1>5, <2>0, <2>2 DEF BeginMigration, StartInv, TypeOK
  <2>3. CASE MigrationRefused(w) \/ MigrationFails(w)
    BY <1>1, <2>3 DEF MigrationRefused, MigrationFails, CloseFailedStart, StartInv, TypeOK
  <2>4. CASE Reinspect(w)
    BY <1>1, <1>5, <2>0, <2>4 DEF Reinspect, StartInv, TypeOK
  <2>5. CASE ValidateSchema(w)
    <3>1. n = LastVersion
      <4>1. schema[w].next > LastVersion /\ run[w] = "opened"
        BY <2>5 DEF ValidateSchema
      <4>2. schema[w].next <= n + 1
        BY <1>1, <2>0, <4>1, Zenon DEF StartInv
      <4>3. n \in 0 .. 5
        BY <2>0
      <4>4. LastVersion = 5 /\ schema[w].next \in 1 .. 6
        BY <1>5
      <4> QED BY <4>1, <4>2, <4>3, <4>4
    <3>2. SchemaCurrent(db)
      BY <1>1, <2>0, <3>1, SchemaFound
    <3> QED BY <1>1, <2>0, <2>5, <3>1, <3>2 DEF ValidateSchema, StartInv, TypeOK
  <2>6. CASE CheckRecords(w)
    <3>1. JournalNotAhead(db) /\ AuthorityBound(db)
      BY <1>1, ChecksPass
    <3> QED BY <1>1, <2>0, <2>6, <3>1 DEF CheckRecords, StartInv, TypeOK
  <2> QED BY <2>1, <2>2, <2>3, <2>4, <2>5, <2>6
<1> QED BY <1>2, <1>3, <1>4, <1>7, <1>8, StepKeeps

\* A process that dies forgets everything but what it was asked and told.
LEMMA StopKeeps ==
  ASSUME IInv, NEW w \in Workers, Stop(w)
  PROVE  IInv'
<1>1. TypeOK /\ RecordsInv /\ AnswerInv(w)
  BY DEF IInv
<1>2. TypeOK'
  BY StartTypes
<1>3. /\ \A v \in Workers \ {w} : Same(v)
      /\ UNCHANGED <<db, job, answer>>
      /\ run'[w] = "down" /\ unit'[w] = None /\ local'[w] = None /\ progress'[w] = "idle"
  BY <1>1 DEF Stop, Same, TypeOK
<1>4. RecordsInv' /\ Grown
  BY <1>1, <1>3, RecordsKept, UnchangedGrown
<1>5. StartInv(w)' /\ WorkInv(w)' /\ AnswerInv(w)'
  BY <1>1, <1>3 DEF StartInv, WorkInv, AnswerInv, AppliedBy
<1> QED BY <1>2, <1>3, <1>4, <1>5, StepKeeps

-----------------------------------------------------------------------------
(***************************************************************************)
(* Migrating keeps the invariant.                                          *)
(***************************************************************************)
\* A part of the records is kept while the tables it reads are.
LEMMA JournalKept ==
  ASSUME JournalInv, db'.aggregate = db.aggregate, db'.journal = db.journal,
         db'.commands = db.commands
  PROVE  JournalInv'
BY DEF JournalInv, RecoveryIsOwned

LEMMA AuthorityKept ==
  ASSUME AuthorityInv, TypeOK, db.history \subseteq db'.history, db'.commands = db.commands,
         db'.reservations = db.reservations, db'.approvals = db.approvals
  PROVE  AuthorityInv'
BY DEF AuthorityInv, AuthorityBound, ReservationBound, ApprovalBound, HistoryBound

\* The migration that a runner applies is the next one in order.
LEMMA ApplyKeeps ==
  ASSUME IInv, NEW w \in Workers, ApplyMigration(w)
  PROVE  IInv'
<1>1. /\ TypeOK /\ RecordsInv /\ StartInv(w) /\ WorkInv(w) /\ AnswerInv(w)
      /\ MigrationsInOrder
  BY DEF IInv, RecordsInv
<1>2. TypeOK'
  BY StartTypes
<1> DEFINE n == Len(db.migrations)
           next == schema[w].next
<1>3. db.migrations \in Seq({"v001", "v002", "v003", "v004", "v005"})
  BY <1>1, RecordFields DEF TypeOK
<1>4. n \in 0 .. 5
  BY <1>1, VersionType, Zenon
<1>5. next \in 1 .. 5 /\ next <= n + 1
  <2>1. run[w] = "migrating" /\ LastVersion = 5
    BY FiveMigrations DEF ApplyMigration
  <2>2. next <= n + 1 /\ next <= LastVersion
    BY <1>1, <2>1, Zenon DEF StartInv
  <2>3. next \in 1 .. LastVersion + 1
    BY <1>1 DEF TypeOK
  <2> HIDE DEF n, next
  <2> QED BY <1>4, <2>1, <2>2, <2>3
<1>6. db' = [db EXCEPT !.migrations = Append(db.migrations, KnownMigrations[next])]
  BY DEF ApplyMigration
<1>7. DOMAIN db.migrations = 1 .. n
  BY <1>3
<1>8. next = n + 1
  <2>1. ASSUME next <= n PROVE FALSE
    <3>1. next \in 1 .. n
      <4> HIDE DEF n, next
      <4> QED BY <1>4, <1>5, <2>1
    <3>2. db.migrations[next] = KnownMigrations[next]
      BY <1>1, <1>7, <3>1 DEF MigrationsInOrder
    <3>3. KnownMigrations[next] \in Range(db.migrations)
      BY <1>7, <3>1, <3>2, Zenon DEF Range
    <3> QED BY <3>3 DEF ApplyMigration, NotApplied
  <2> HIDE DEF n, next
  <2> QED BY <1>4, <1>5, <2>1
<1>9. /\ db'.migrations = Append(db.migrations, KnownMigrations[next])
      /\ db'.aggregate = db.aggregate
      /\ db'.journal = db.journal
      /\ db'.history = db.history
      /\ db'.commands = db.commands
      /\ db'.reservations = db.reservations
      /\ db'.approvals = db.approvals
  BY <1>1, <1>6 DEF TypeOK, Records
<1>10. /\ Len(db'.migrations) = n + 1
       /\ DOMAIN db'.migrations = 1 .. n + 1
       /\ \A i \in 1 .. n : db'.migrations[i] = db.migrations[i]
       /\ db'.migrations[n + 1] = KnownMigrations[n + 1]
  <2>1. KnownMigrations[next] \in {"v001", "v002", "v003", "v004", "v005"}
    BY <1>5, FiveMigrations
  <2> QED BY <1>3, <1>8, <1>9, <2>1
<1>11. MigrationsInOrder'
  <2>1. \A i \in 1 .. n + 1 : i \in 1 .. n \/ i = n + 1
    <3> HIDE DEF n
    <3> QED BY <1>4
  <2>2. n + 1 <= LastVersion
    <3>1. LastVersion = 5
      BY FiveMigrations
    <3> HIDE DEF n, next
    <3> QED BY <1>4, <1>5, <1>8, <3>1
  <2>3. \A i \in 1 .. n : db.migrations[i] = KnownMigrations[i]
    BY <1>1, <1>7 DEF MigrationsInOrder
  <2> HIDE DEF n
  <2> QED BY <1>10, <2>1, <2>2, <2>3 DEF MigrationsInOrder
<1>12. RecordsInv'
  <2>1. JournalInv' /\ AuthorityInv'
    BY <1>1, <1>9, JournalKept, AuthorityKept DEF RecordsInv
  <2>2. HistoryInv'
    BY <1>1, <1>9 DEF RecordsInv, HistoryInv
  <2> QED BY <1>11, <2>1, <2>2 DEF RecordsInv
<1>13. Grown
  <2>1. Len(db.migrations) <= Len(db'.migrations)
    <3>1. n = Len(db.migrations)
      OBVIOUS
    <3> HIDE DEF n
    <3> QED BY <1>4, <1>10, <3>1
  <2> QED BY <1>9, <2>1, Zenon DEF Grown
<1>14. /\ \A v \in Workers \ {w} : Same(v)
       /\ UNCHANGED <<schema, unit, local, progress, job, answer>>
       /\ run'[w] = "migrated"
       /\ progress[w] = "idle" /\ unit[w] = None /\ local[w] = None
  BY <1>1 DEF ApplyMigration, Same, TypeOK, WorkInv
<1>15. StartInv(w)'
  <2>1. schema'[w].next = next
    BY <1>14
  <2>2. next <= Len(db'.migrations)
    <3> HIDE DEF n, next
    <3>1. n + 1 <= n + 1
      BY <1>4
    <3> QED BY <1>8, <1>10, <3>1, Zenon
  <2> QED BY <1>14, <2>1, <2>2 DEF StartInv
<1>16. WorkInv(w)' /\ AnswerInv(w)'
  <2>1. /\ progress'[w] = "idle" /\ unit'[w] = None /\ local'[w] = None
        /\ job'[w] = job[w] /\ answer'[w] = answer[w]
    BY <1>14
  <2> QED BY <1>1, <1>9, <2>1 DEF WorkInv, AnswerInv, AppliedBy
<1> QED BY <1>2, <1>12, <1>13, <1>14, <1>15, <1>16, StepKeeps

-----------------------------------------------------------------------------
(***************************************************************************)
(* What a transaction is answered.                                         *)
(***************************************************************************)
\* A whole recovery is answered by five calls, and compares the first three.
LEMMA ExecuteAnswers ==
  ASSUME NEW d, NEW r, NEW l, NEW answers, answers = Answers(d, "execute", r, l)
  PROVE  /\ DOMAIN answers = 1 .. 5
         /\ answers[1] = RegisterStatus(d, r, l)
         /\ answers[2] = ReserveStatus(d, r, l)
         /\ answers[3] = ApproveStatus(d, r, l)
         /\ answers[4] = AppendStatus(d, RecoveryEntry(r, l))
         /\ answers[5] = SaveStatus(d, RecoveryEntry(r, l))
         /\ Acceptable("execute", answers) <=> AllNewOrAllReplayed(Authorization(d, r, l))
<1> DEFINE e == RecoveryEntry(r, l)
           a1 == RegisterStatus(d, r, l)
           a2 == ReserveStatus(d, r, l)
           a3 == ApproveStatus(d, r, l)
           a4 == AppendStatus(d, e)
           a5 == SaveStatus(d, e)
<1>1. answers = <<a1, a2, a3>> \o <<a4, a5>>
  BY DEF Answers, Authorization, Advance
<1>2. Acceptable("execute", answers) <=> AllNewOrAllReplayed(SubSeq(answers, 1, 3))
  BY DEF Acceptable
<1>3. Authorization(d, r, l) = <<a1, a2, a3>>
  BY DEF Authorization
<1> HIDE DEF a1, a2, a3, a4, a5
<1>4. /\ DOMAIN answers = 1 .. 5
      /\ answers[1] = a1
      /\ answers[2] = a2
      /\ answers[3] = a3
      /\ answers[4] = a4
      /\ answers[5] = a5
  BY <1>1
<1>5. AllNewOrAllReplayed(SubSeq(answers, 1, 3)) <=> AllNewOrAllReplayed(<<a1, a2, a3>>)
  <2>1. /\ DOMAIN SubSeq(answers, 1, 3) = 1 .. 3
        /\ \A i \in 1 .. 3 : SubSeq(answers, 1, 3)[i] = answers[i]
    BY <1>1
  <2>2. /\ DOMAIN <<a1, a2, a3>> = 1 .. 3
        /\ \A i \in 1 .. 3 : <<a1, a2, a3>>[i] = answers[i]
    BY <1>4
  <2> QED BY <2>1, <2>2 DEF AllNewOrAllReplayed
<1> QED BY <1>2, <1>3, <1>4, <1>5 DEF a1, a2, a3, a4, a5
\* What has to be on record for an answer to be given.
Told(r, status) ==
  /\ status \in {"SAVED", "STALE_REVISION", "ALREADY_TERMINAL"} => AppliedBy(r.command) # {}
  /\ status = "COMMAND_CONFLICT" => db.commands[r.command] # None
  /\ status = "TRANSACTION_ABORTED" =>
         \/ \E h \in db.history : h.id[2] = r.evidence /\ h.recorded # r.recorded
         \/ \E i \in DOMAIN db.journal : db.journal[i].command \notin {Origin, r.command}
         \/ \E c \in Recoveries \ {r.command} :
                db.commands[c] # None /\ db.commands[c].approval = r.approval

\* A command is a conflict only if another payload is on record for it.
LEMMA RegisterTells ==
  ASSUME NEW r, NEW l
  PROVE  /\ RegisterStatus(db, r, l) \in {"CREATED", "EXACT_REPLAY", "COMMAND_CONFLICT"}
         /\ RegisterStatus(db, r, l) = "COMMAND_CONFLICT" => db.commands[r.command] # None
         /\ RegisterStatus(db, r, l) \notin Conflicts =>
                \/ db.commands[r.command] = None
                \/ db.commands[r.command] # None
                   /\ db.commands[r.command].payload = Payload(r, l)
BY DEF RegisterStatus, Conflicts

LEMMA ReserveTells ==
  ASSUME NEW r, NEW l
  PROVE  ReserveStatus(db, r, l) \in {"CREATED", "LOGICAL_REPLAY", "IDEMPOTENCY_CONFLICT"}
BY DEF ReserveStatus

\* An approval conflicts only with one that another command uses.
LEMMA ApproveTells ==
  ASSUME TypeOK, AuthorityInv, NEW r \in Requests, NEW l,
         RegisterStatus(db, r, l) \notin Conflicts,
         ApproveStatus(db, r, l) \in Conflicts
  PROVE  ApproveStatus(db, r, l) = "TRANSACTION_ABORTED" /\ Told(r, "TRANSACTION_ABORTED")
<1>1. /\ ApproveStatus(db, r, l) = "TRANSACTION_ABORTED"
      /\ db.approvals[r.approval] # None
      /\ db.approvals[r.approval] # Payload(r, l)
  BY DEF ApproveStatus, Conflicts
<1>2. r.approval \in DOMAIN db.approvals
  BY RequestParts, RecordFields DEF TypeOK
<1>3. PICK c \in Recoveries : /\ db.commands[c] # None
                              /\ db.commands[c].approval = r.approval
                              /\ db.commands[c].payload = db.approvals[r.approval]
  BY <1>1, <1>2 DEF AuthorityInv
<1>4. c # r.command
  BY <1>1, <1>3, RegisterTells
<1> QED BY <1>1, <1>3, <1>4 DEF Told

\* A comparison conflicts only with one of another instant.
LEMMA HistoryTells ==
  ASSUME TypeOK, HistoryInv, NEW r \in Requests, NEW l \in Aggregates,
         l.state = "RECONCILIATION_REQUIRED", HistoryStatus(db, r, l) \in Conflicts
  PROVE  HistoryStatus(db, r, l) = "TRANSACTION_ABORTED" /\ Told(r, "TRANSACTION_ABORTED")
<1> DEFINE record == HistoryRecord(r, l)
<1>1. /\ HistoryStatus(db, r, l) = "TRANSACTION_ABORTED"
      /\ record \notin db.history
      /\ \E h \in db.history : h.id = record.id
  BY DEF HistoryStatus, Conflicts
<1>2. PICK h \in db.history : h.id = record.id
  BY <1>1
<1>3. PICK q \in Requests : h = HistoryRecord(q, h)
  BY DEF HistoryInv
<1>4. /\ h.id = <<h.revision, q.evidence>>
      /\ record.id = <<l.revision, r.evidence>>
  BY <1>3 DEF HistoryRecord, ReconciliationId
<1>5. /\ h.revision = l.revision
      /\ q.evidence = r.evidence
      /\ h.id[2] = r.evidence
  <2>1. \A a, b, c, d : <<a, b>> = <<c, d>> => a = c /\ b = d
    OBVIOUS
  <2>2. \A a, b : <<a, b>>[2] = b
    OBVIOUS
  <2>3. <<h.revision, q.evidence>> = <<l.revision, r.evidence>>
    BY <1>2, <1>4
  <2>4. h.revision = l.revision /\ q.evidence = r.evidence
    BY <2>1, <2>3
  <2> QED BY <1>4, <2>2, <2>4
<1>6. q.outcome = r.outcome
  BY <1>5, RecoveryAssumption
<1>7. h.state = l.state
  BY DEF HistoryInv
<1>8. ASSUME h.recorded = r.recorded PROVE FALSE
  <2>1. h.recorded = q.recorded
    BY <1>3 DEF HistoryRecord
  <2>2. HistoryRecord(q, h) = record
    BY <1>5, <1>6, <1>7, <1>8, <2>1 DEF HistoryRecord
  <2> QED BY <1>1, <1>3, <2>2
<1> QED BY <1>1, <1>5, <1>8 DEF Told

\* A command that was registered and is in the journal made the very entry.
LEMMA SameEntry ==
  ASSUME TypeOK, JournalInv, NEW r \in Requests, NEW l \in Aggregates,
         l.state = "RECONCILIATION_REQUIRED", RegisterStatus(db, r, l) \notin Conflicts,
         NEW i \in DOMAIN db.journal, db.journal[i].command = r.command
  PROVE  db.journal[i] = RecoveryEntry(r, l)
<1> DEFINE e == db.journal[i]
           payload == db.commands[r.command].payload
<1>1. e \in Entries
  <2>1. db.journal \in Seq(Entries)
    BY RecordFields DEF TypeOK
  <2> QED BY <2>1
<1>2. i # 1
  BY RequestParts DEF JournalInv, AsksForReconciliation
<1>3. /\ e.command = r.command /\ e.record = r.command
      /\ e.from = "RECONCILIATION_REQUIRED"
      /\ e.row = IF payload.history.outcome = "OPERATOR_ACTION_REQUIRED"
                 THEN "PX-TRN-027" ELSE "PX-TRN-028"
      /\ e.to = IF payload.history.outcome = "OPERATOR_ACTION_REQUIRED"
                THEN payload.destination ELSE "RECONCILIATION_REQUIRED"
  <2>1. Recovers(e, db.commands[e.command].payload)
    BY <1>2, Zenon DEF JournalInv
  <2>2. e.command = r.command
    OBVIOUS
  <2> HIDE DEF e
  <2> QED BY <2>1, <2>2, Zenon DEF Recovers
<1>4. /\ db.commands[r.command] # None
      /\ payload.history.revision = e.revision - 1
  <2>1. db.aggregate # None
    <3>1. DOMAIN db.journal # {}
      OBVIOUS
    <3>2. DOMAIN << >> = {}
      OBVIOUS
    <3> QED BY <3>1, <3>2, Zenon DEF JournalInv
  <2>2. e.command # Origin =>
            /\ db.commands[e.command] # None
            /\ db.commands[e.command].payload.history.revision = e.revision - 1
    BY <2>1, Zenon DEF JournalInv, RecoveryIsOwned
  <2>3. e.command = r.command /\ r.command # Origin
    BY RequestParts
  <2> HIDE DEF e
  <2> QED BY <2>2, <2>3, Zenon
<1>5. payload = Payload(r, l)
  BY <1>4, RegisterTells
<1>6. /\ payload.history.outcome = r.outcome
      /\ payload.history.revision = l.revision
      /\ payload.destination = r.destination
  BY <1>5 DEF Payload, HistoryRecord
<1>7. e.revision = l.revision + 1
  BY <1>1, <1>4, <1>6 DEF Entries, Aggregates
<1> HIDE DEF e, payload
<1>8. e = [record |-> e.record, command |-> e.command, row |-> e.row, from |-> e.from,
           to |-> e.to, revision |-> e.revision]
  BY <1>1 DEF Entries
<1>9. e = RecoveryEntry(r, l)
  BY <1>3, <1>6, <1>7, <1>8 DEF RecoveryEntry
<1> QED BY <1>9 DEF e

\* An advance that is no replay conflicts only with another recovery.
LEMMA AppendTells ==
  ASSUME TypeOK, JournalInv, NEW r \in Requests, NEW l \in Aggregates,
         l.state = "RECONCILIATION_REQUIRED", l.revision # BaseRevision,
         RegisterStatus(db, r, l) \notin Conflicts,
         AppendStatus(db, RecoveryEntry(r, l)) \in Conflicts
  PROVE  /\ AppendStatus(db, RecoveryEntry(r, l)) = "TRANSACTION_ABORTED"
         /\ Told(r, "TRANSACTION_ABORTED")
<1> DEFINE entry == RecoveryEntry(r, l)
<1>1. /\ AppendStatus(db, entry) = "TRANSACTION_ABORTED"
      /\ entry \notin Range(db.journal)
      /\ \E e \in Range(db.journal) : \/ e.record = entry.record
                                      \/ e.revision = entry.revision
                                      \/ e.row = entry.row
  BY DEF AppendStatus, Conflicts
<1>2. PICK i \in DOMAIN db.journal : \/ db.journal[i].record = entry.record
                                     \/ db.journal[i].revision = entry.revision
                                     \/ db.journal[i].row = entry.row
  BY <1>1 DEF Range
<1>3. /\ entry.record = r.command
      /\ entry.revision = l.revision + 1
      /\ entry.row \in {"PX-TRN-027", "PX-TRN-028"}
  BY DEF RecoveryEntry
<1>4. i # 1
  <2> SUFFICES ASSUME i = 1 PROVE FALSE
    OBVIOUS
  <2>1. db.journal[i].record = Origin /\ db.journal[i].row = "PX-TRN-025"
    BY DEF JournalInv, AsksForReconciliation
  <2>2. db.journal[i].revision = BaseRevision + 1
    BY DEF JournalInv, RecoveryIsOwned
  <2> QED BY <1>2, <1>3, <2>1, <2>2, RequestParts DEF Aggregates, BaseRevision
<1>5. db.journal[i].command # Origin
  BY <1>4 DEF JournalInv, Recovers
<1>6. db.journal[i].command # r.command
  <2> SUFFICES ASSUME db.journal[i].command = r.command PROVE FALSE
    OBVIOUS
  <2>1. db.journal[i] = entry
    BY SameEntry
  <2> QED BY <1>1, <2>1 DEF Range
<1> QED BY <1>1, <1>5, <1>6 DEF Told

\* An advance that comes too late and conflicts with no entry is in the journal.
LEMMA SaveTells ==
  ASSUME TypeOK, JournalInv, NEW r \in Requests, NEW l \in Aggregates,
         l.state = "RECONCILIATION_REQUIRED",
         db.aggregate # None,
         l.revision \in BaseRevision .. db.aggregate.revision,
         l.revision = db.aggregate.revision => l = db.aggregate,
         AppendStatus(db, RecoveryEntry(r, l)) \notin Conflicts,
         SaveStatus(db, RecoveryEntry(r, l)) \in Conflicts
  PROVE  /\ SaveStatus(db, RecoveryEntry(r, l)) \in {"STALE_REVISION", "ALREADY_TERMINAL"}
         /\ AppliedBy(r.command) # {}
<1> DEFINE entry == RecoveryEntry(r, l)
<1>1. /\ entry.command = r.command
      /\ entry.revision = l.revision + 1
  BY DEF RecoveryEntry
<1>2. SaveStatus(db, entry) \in {"STALE_REVISION", "ALREADY_TERMINAL"}
  BY DEF SaveStatus, Conflicts
<1>3. l.revision # db.aggregate.revision
  <2>1. CASE db.aggregate.state \in TerminalStates
    BY <2>1 DEF TerminalStates
  <2>2. CASE db.aggregate.revision # entry.revision - 1
    BY <1>1, <2>2 DEF Aggregates
  <2> QED BY <1>2, <2>1, <2>2 DEF SaveStatus
<1>4. \/ entry \in Range(db.journal)
      \/ \A e \in Range(db.journal) : e.revision # entry.revision
  BY DEF AppendStatus, Conflicts
<1>5. CASE entry \in Range(db.journal)
  <2>1. PICK i \in DOMAIN db.journal : db.journal[i] = entry
    BY <1>5 DEF Range
  <2>2. i \in AppliedBy(r.command)
    BY <1>1, <2>1 DEF AppliedBy
  <2> QED BY <1>2, <2>2
<1>6. CASE \A e \in Range(db.journal) : e.revision # entry.revision
  <2> DEFINE n == Len(db.journal)
             i == l.revision + 1 - BaseRevision
  <2>1. n \in Nat /\ DOMAIN db.journal = 1 .. n
    BY RecordFields DEF TypeOK
  <2>2. db.aggregate.revision = BaseRevision + n
    BY DEF JournalInv, RecoveryIsOwned
  <2>3. l.revision \in Nat /\ BaseRevision \in Nat
    BY DEF Aggregates, BaseRevision
  <2>4. i \in 1 .. n /\ BaseRevision + i = l.revision + 1
    <3> HIDE DEF n
    <3> QED BY <1>3, <2>1, <2>2, <2>3
  <2>5. db.journal[i].revision = entry.revision
    <3> HIDE DEF i, n
    <3> QED BY <1>1, <2>1, <2>4 DEF JournalInv, RecoveryIsOwned
  <2>6. db.journal[i] \in Range(db.journal)
    BY <2>1, <2>4 DEF Range
  <2> QED BY <1>6, <2>5, <2>6
<1> QED BY <1>2, <1>4, <1>5, <1>6

-----------------------------------------------------------------------------
(***************************************************************************)
(* The steps that write nothing keep the invariant.                        *)
(***************************************************************************)
\* What a process that has a transaction open knows.
LEMMA OpenUnit ==
  ASSUME IInv, NEW w \in Workers, unit[w] # None
  PROVE  /\ job[w] \in Requests
         /\ local[w] \in Aggregates
         /\ db.aggregate # None
         /\ local[w].revision \in BaseRevision .. db.aggregate.revision
         /\ local[w].revision = db.aggregate.revision => local[w] = db.aggregate
         /\ \/ /\ unit[w] = "require" /\ progress[w] = "observed"
               /\ local[w].state = "OUTCOME_UNKNOWN"
            \/ /\ unit[w] = "history" /\ progress[w] = "observed"
               /\ local[w].state = "RECONCILIATION_REQUIRED"
            \/ /\ unit[w] \in {"prepare", "execute"}
               /\ local[w].state = "RECONCILIATION_REQUIRED"
               /\ HistoryRecord(job[w], local[w]) \in db.history
               /\ Buildable(job[w], local[w])
         /\ local[w].state = "RECONCILIATION_REQUIRED" => local[w].revision # BaseRevision
<1>1. TypeOK /\ WorkInv(w)
  BY DEF IInv
<1>2. unit[w] \in NextUnits(w)
  BY <1>1 DEF WorkInv
<1>3. progress[w] \in {"idle", "observed", "recorded", "prepared", "executed"}
  BY <1>1 DEF TypeOK
<1>4. \/ /\ progress[w] = "observed" /\ unit[w] = "require"
         /\ local[w].state = "OUTCOME_UNKNOWN"
      \/ /\ progress[w] = "observed" /\ unit[w] = "history"
         /\ local[w].state = "RECONCILIATION_REQUIRED"
      \/ /\ progress[w] = "recorded" /\ unit[w] \in {"prepare", "execute"}
         /\ Buildable(job[w], local[w])
      \/ progress[w] = "prepared" /\ unit[w] = "execute"
  BY <1>2, <1>3 DEF NextUnits
<1>5. local[w] # None /\ local[w] \in Aggregates /\ job[w] \in Requests
  BY <1>1, <1>4 DEF TypeOK
<1>6. /\ db.aggregate # None
      /\ local[w].revision \in BaseRevision .. db.aggregate.revision
      /\ local[w].revision = db.aggregate.revision => local[w] = db.aggregate
      /\ local[w].revision = BaseRevision => local[w].state = "OUTCOME_UNKNOWN"
      /\ progress[w] \in {"recorded", "prepared"} =>
             /\ local[w].state = "RECONCILIATION_REQUIRED"
             /\ HistoryRecord(job[w], local[w]) \in db.history
      /\ progress[w] = "prepared" => Buildable(job[w], local[w])
  BY <1>1, <1>5 DEF WorkInv
<1> QED BY <1>4, <1>5, <1>6

\* The answers of three calls.
LEMMA PrepareAnswers ==
  ASSUME NEW d, NEW r, NEW l, NEW answers, answers = Answers(d, "prepare", r, l)
  PROVE  /\ DOMAIN answers = 1 .. 3
         /\ answers[1] = RegisterStatus(d, r, l)
         /\ answers[2] = ReserveStatus(d, r, l)
         /\ answers[3] = ApproveStatus(d, r, l)
         /\ answers = Authorization(d, r, l)
BY DEF Answers, Authorization

\* A transaction that ends in a conflict tells the truth.
LEMMA ConflictTold ==
  ASSUME IInv, NEW w \in Workers, unit[w] # None, unit[w] # "require",
         NEW status, status # None,
         status = BlockingConflict(Answers(db, unit[w], job[w], local[w]))
  PROVE  status \in Conflicts /\ Told(job[w], status)
<1> DEFINE r == job[w]
           l == local[w]
           entry == RecoveryEntry(r, l)
           answers == Answers(db, unit[w], r, l)
<1>1. /\ TypeOK /\ HistoryInv /\ AuthorityInv /\ JournalInv
      /\ r \in Requests /\ l \in Aggregates
      /\ l.state = "RECONCILIATION_REQUIRED" /\ l.revision # BaseRevision
      /\ db.aggregate # None
      /\ l.revision \in BaseRevision .. db.aggregate.revision
      /\ l.revision = db.aggregate.revision => l = db.aggregate
      /\ unit[w] \in {"history", "prepare", "execute"}
  BY OpenUnit DEF IInv, RecordsInv
<1>2. DOMAIN answers \subseteq 1 .. 5
  BY <1>1, AnswersDomain DEF Units
<1>3. PICK i \in DOMAIN answers :
          /\ answers[i] = status
          /\ answers[i] \in Conflicts
          /\ \A j \in DOMAIN answers : answers[j] \in Conflicts => i <= j
  BY <1>2, FirstConflict
<1> HIDE DEF answers, entry
<1>4. ASSUME status \in Conflicts, status = RegisterStatus(db, r, l) \/ status = ReserveStatus(db, r, l)
      PROVE  Told(r, status)
  <2>1. CASE status = "COMMAND_CONFLICT"
    BY <1>4, <2>1, RegisterTells, ReserveTells DEF Told
  <2>2. CASE status = "IDEMPOTENCY_CONFLICT"
    BY <2>2 DEF Told
  <2> QED BY <1>4, <2>1, <2>2, RegisterTells, ReserveTells DEF Conflicts
<1>5. CASE unit[w] = "history"
  <2>1. answers = <<HistoryStatus(db, r, l)>>
    BY <1>5 DEF answers, Answers
  <2>2. status = HistoryStatus(db, r, l)
    BY <1>3, <2>1
  <2> QED BY <1>1, <1>3, <2>2, HistoryTells
<1>6. CASE unit[w] = "prepare"
  <2>1. /\ DOMAIN answers = 1 .. 3
        /\ answers[1] = RegisterStatus(db, r, l)
        /\ answers[2] = ReserveStatus(db, r, l)
        /\ answers[3] = ApproveStatus(db, r, l)
    BY <1>6, PrepareAnswers DEF answers
  <2>2. CASE i = 3
    <3>1. RegisterStatus(db, r, l) \notin Conflicts
      BY <1>3, <2>1, <2>2
    <3> QED BY <1>1, <1>3, <2>1, <2>2, <3>1, ApproveTells
  <2> QED BY <1>3, <1>4, <2>1, <2>2
<1>7. CASE unit[w] = "execute"
  <2>1. /\ DOMAIN answers = 1 .. 5
        /\ answers[1] = RegisterStatus(db, r, l)
        /\ answers[2] = ReserveStatus(db, r, l)
        /\ answers[3] = ApproveStatus(db, r, l)
        /\ answers[4] = AppendStatus(db, entry)
        /\ answers[5] = SaveStatus(db, entry)
    BY <1>7, ExecuteAnswers DEF answers, entry
  <2>2. i \in {3, 4, 5} => RegisterStatus(db, r, l) \notin Conflicts
    BY <1>3, <2>1
  <2>3. CASE i = 3
    BY <1>1, <1>3, <2>1, <2>2, <2>3, ApproveTells
  <2>4. CASE i = 4
    BY <1>1, <1>3, <2>1, <2>2, <2>4, AppendTells DEF entry
  <2>5. CASE i = 5
    <3>1. AppendStatus(db, entry) \notin Conflicts
      BY <1>3, <2>1, <2>5
    <3>2. /\ status \in {"STALE_REVISION", "ALREADY_TERMINAL"}
          /\ AppliedBy(r.command) # {}
      BY <1>1, <1>3, <2>1, <2>5, <3>1, SaveTells DEF entry
    <3> QED BY <1>3, <3>2 DEF Told
  <2> QED BY <1>3, <1>4, <2>1, <2>3, <2>4, <2>5
<1> QED BY <1>1, <1>5, <1>6, <1>7

\* A process that loads the aggregate, opens a transaction, or is told
\* something keeps the invariant.
LEMMA QuietKeeps ==
  ASSUME IInv, NEW w \in Workers,
         Discover(w) \/ BeginUnit(w) \/ Refuse(w) \/ RollBack(w) \/ Report(w)
  PROVE  IInv'
<1>1. TypeOK /\ RecordsInv /\ StartInv(w) /\ WorkInv(w) /\ AnswerInv(w) /\ JournalInv
  BY DEF IInv, RecordsInv
<1>2. TypeOK'
  BY ProtocolTypes
<1>3. /\ UNCHANGED <<db, run, schema, job>>
      /\ \A v \in Workers \ {w} : Same(v)
  BY <1>1 DEF Discover, BeginUnit, Refuse, RollBack, Report, Tell, Same, TypeOK
<1>4. RecordsInv' /\ Grown
  BY <1>1, <1>3, RecordsKept, UnchangedGrown
<1>5. StartInv(w)'
  BY <1>1, <1>3 DEF StartInv
<1>6. ASSUME answer'[w] = answer[w] PROVE AnswerInv(w)'
  BY <1>1, <1>3, <1>6 DEF AnswerInv, AppliedBy
<1>7. ASSUME Told(job[w], answer'[w]) PROVE AnswerInv(w)'
  BY <1>3, <1>7 DEF AnswerInv, AppliedBy, Told
<1>8. ASSUME local'[w] = None, progress'[w] = "idle", unit'[w] = None PROVE WorkInv(w)'
  BY <1>8 DEF WorkInv
<1>9. ASSUME NEW status, Tell(w, status)
      PROVE  local'[w] = None /\ progress'[w] = "idle" /\ answer'[w] = status
  BY <1>1, <1>9 DEF Tell, TypeOK
<1>10. WorkInv(w)' /\ AnswerInv(w)'
  <2>1. CASE Discover(w)
    <3>1. unit'[w] = None /\ run[w] = "up"
      BY <2>1 DEF Discover, Idle
    <3>2. CASE Tell(w, "NOTHING_TO_RECOVER")
      BY <1>7, <1>8, <1>9, <3>1, <3>2 DEF Told
    <3>3. CASE /\ local' = [local EXCEPT ![w] = db.aggregate]
               /\ progress' = [progress EXCEPT ![w] = "observed"]
               /\ UNCHANGED answer
               /\ db.aggregate # None
      <4>1. local'[w] = db.aggregate /\ progress'[w] = "observed"
        BY <1>1, <3>3 DEF TypeOK
      <4>2. /\ db.aggregate.revision = BaseRevision + Len(db.journal)
            /\ Len(db.journal) \in Nat
            /\ BaseRevision \in Nat
        BY <1>1, <3>3, RecordFields DEF TypeOK, JournalInv, RecoveryIsOwned, BaseRevision
      <4>3. db.aggregate.revision = BaseRevision => db.aggregate.state = "OUTCOME_UNKNOWN"
        <5> SUFFICES ASSUME db.aggregate.revision = BaseRevision
                     PROVE  db.aggregate.state = "OUTCOME_UNKNOWN"
          OBVIOUS
        <5>0. db.journal \in Seq(Entries)
          BY <1>1, RecordFields DEF TypeOK
        <5>1. Len(db.journal) = 0
          <6>1. \A n \in Nat : BaseRevision = BaseRevision + n => n = 0
            BY DEF BaseRevision
          <6> QED BY <4>2, <6>1, Zenon
        <5>2. db.journal = << >>
          BY <5>0, <5>1
        <5> QED BY <1>1, <3>3, <5>2 DEF JournalInv
      <4>4. db.aggregate.revision \in BaseRevision .. db.aggregate.revision
        <5> DEFINE n == Len(db.journal)
        <5>1. n \in Nat /\ db.aggregate.revision = BaseRevision + n /\ BaseRevision \in Nat
          BY <4>2
        <5>2. \A k, m \in Nat : k + m \in k .. k + m
          OBVIOUS
        <5>3. BaseRevision + n \in BaseRevision .. BaseRevision + n
          BY <5>1, <5>2, Zenon
        <5> HIDE DEF n
        <5> QED BY <5>1, <5>3, Zenon
      <4> QED BY <1>3, <1>6, <3>1, <3>3, <4>1, <4>3, <4>4 DEF WorkInv
    <3> QED BY <2>1, <3>2, <3>3 DEF Discover
  <2>2. CASE BeginUnit(w)
    <3>1. PICK kind \in NextUnits(w) : unit' = [unit EXCEPT ![w] = kind]
      BY <2>2 DEF BeginUnit
    <3>2. unit'[w] = kind
      BY <1>1, <3>1 DEF TypeOK
    <3>3. UNCHANGED <<local, progress, job, answer>> /\ run[w] = "up"
      BY <2>2 DEF BeginUnit, Idle
    <3>4. NextUnits(w)' = NextUnits(w)
      BY <3>3 DEF NextUnits
    <3> QED BY <1>1, <1>3, <1>6, <3>1, <3>2, <3>3, <3>4 DEF WorkInv, AppliedBy, Buildable
  <2>3. CASE Refuse(w)
    BY <1>7, <1>8, <1>9, <2>3 DEF Refuse, Idle, Told
  <2>4. CASE RollBack(w)
    <3> DEFINE conflict == BlockingConflict(Answers(db, unit[w], job[w], local[w]))
    <3>1. unit[w] # None /\ unit'[w] = None
      BY <1>1, <2>4 DEF RollBack, TypeOK
    <3>2. CASE unit[w] = "require"
      <4>1. local'[w] = None /\ progress'[w] = "idle" /\ answer' = answer
        BY <1>1, <2>4, <3>2 DEF RollBack, TypeOK
      <4> QED BY <1>6, <1>8, <3>1, <4>1
    <3>3. CASE unit[w] # "require"
      <4>1. Tell(w, IF conflict = None THEN "ABANDONED" ELSE conflict)
        BY <2>4, <3>3 DEF RollBack
      <4>2. conflict # None => Told(job[w], conflict)
        BY <3>1, <3>3, ConflictTold
      <4>3. Told(job[w], "ABANDONED")
        BY DEF Told
      <4> HIDE DEF conflict
      <4>4. Told(job[w], answer'[w])
        BY <1>9, <4>1, <4>2, <4>3
      <4> QED BY <1>7, <1>8, <1>9, <3>1, <4>1, <4>4
    <3> QED BY <3>2, <3>3
  <2>5. CASE Report(w)
    <3>1. Tell(w, "SAVED") /\ progress[w] = "executed" /\ unit'[w] = None
      BY <2>5 DEF Report, Idle
    <3>2. AppliedBy(job[w].command) # {}
      BY <1>1, <3>1 DEF WorkInv
    <3>3. Told(job[w], "SAVED")
      BY <3>2 DEF Told
    <3> QED BY <1>7, <1>8, <1>9, <3>1, <3>3
  <2> QED BY <2>1, <2>2, <2>3, <2>4, <2>5
<1> QED BY <1>2, <1>3, <1>4, <1>5, <1>10, StepKeeps

-----------------------------------------------------------------------------
(***************************************************************************)
(* What is committed keeps the invariant.                                  *)
(***************************************************************************)
\* The calls of an authority that a transaction accepts record the command,
\* its reservation and its approval together, or find the command on record.
LEMMA AuthorityWhole ==
  ASSUME TypeOK, NEW r \in Requests, NEW l \in Aggregates,
         RegisterStatus(db, r, l) \notin Conflicts,
         ReserveStatus(db, r, l) \notin Conflicts,
         ApproveStatus(db, r, l) \notin Conflicts,
         AllNewOrAllReplayed(Authorization(db, r, l)),
         NEW d, d = WithAuthorization(db, r, l)
  PROVE  /\ d.migrations = db.migrations /\ d.aggregate = db.aggregate
         /\ d.journal = db.journal /\ d.history = db.history
         /\ \/ /\ db.commands[r.command] = None
               /\ db.reservations[r.key] = None
               /\ db.approvals[r.approval] = None
               /\ d.commands = [db.commands EXCEPT ![r.command] = CommandRecord(r, l)]
               /\ d.reservations = [db.reservations EXCEPT ![r.key] = ReservationRecord(r, l)]
               /\ d.approvals = [db.approvals EXCEPT ![r.approval] = Payload(r, l)]
            \/ /\ db.commands[r.command] # None
               /\ db.commands[r.command].payload = Payload(r, l)
               /\ d.commands = db.commands
               /\ d.reservations = db.reservations
               /\ d.approvals = db.approvals
<1> DEFINE c == r.command
           k == r.key
           a == r.approval
           commands == [db.commands EXCEPT ![c] =
                            IF db.commands[c] = None THEN CommandRecord(r, l) ELSE db.commands[c]]
           reservations == [db.reservations EXCEPT ![k] =
                            IF db.reservations[k] = None THEN ReservationRecord(r, l)
                            ELSE db.reservations[k]]
           approvals == [db.approvals EXCEPT ![a] =
                            IF db.approvals[a] = None THEN Payload(r, l) ELSE db.approvals[a]]
<1>1. d = [[[db EXCEPT !.commands = commands] EXCEPT !.reservations = reservations]
              EXCEPT !.approvals = approvals]
  BY DEF WithAuthorization
<1>2. db \in Records
  BY DEF TypeOK
<1>3. /\ d.migrations = db.migrations /\ d.aggregate = db.aggregate
      /\ d.journal = db.journal /\ d.history = db.history
      /\ d.commands = commands /\ d.reservations = reservations /\ d.approvals = approvals
  <2> HIDE DEF commands, reservations, approvals
  <2> QED BY <1>1, <1>2 DEF Records
<1>4. /\ db.commands \in [Recoveries -> CommandRecords \cup {None}]
      /\ db.reservations \in [{q.key : q \in Requests} -> Reservations \cup {None}]
      /\ db.approvals \in [{q.approval : q \in Requests} -> Payloads \cup {None}]
  BY <1>2, RecordFields
<1>5. \/ /\ RegisterStatus(db, r, l) = "CREATED"
         /\ ReserveStatus(db, r, l) = "CREATED"
         /\ ApproveStatus(db, r, l) = "CREATED"
      \/ /\ RegisterStatus(db, r, l) # "CREATED"
         /\ ReserveStatus(db, r, l) # "CREATED"
         /\ ApproveStatus(db, r, l) # "CREATED"
  BY DEF AllNewOrAllReplayed, Authorization
<1>6. CASE /\ RegisterStatus(db, r, l) = "CREATED"
           /\ ReserveStatus(db, r, l) = "CREATED"
           /\ ApproveStatus(db, r, l) = "CREATED"
  <2>1. db.commands[c] = None /\ db.reservations[k] = None /\ db.approvals[a] = None
    BY <1>6 DEF RegisterStatus, ReserveStatus, ApproveStatus
  <2> QED BY <1>3, <2>1
<1>7. CASE /\ RegisterStatus(db, r, l) # "CREATED"
           /\ ReserveStatus(db, r, l) # "CREATED"
           /\ ApproveStatus(db, r, l) # "CREATED"
  <2>1. db.commands[c] # None /\ db.reservations[k] # None /\ db.approvals[a] # None
    BY <1>7 DEF RegisterStatus, ReserveStatus, ApproveStatus
  <2>2. commands = db.commands /\ reservations = db.reservations /\ approvals = db.approvals
    BY <1>4, <2>1
  <2>3. db.commands[c].payload = Payload(r, l)
    BY <2>1, RegisterTells
  <2> HIDE DEF commands, reservations, approvals
  <2> QED BY <1>3, <2>1, <2>2, <2>3
<1> QED BY <1>5, <1>6, <1>7

\* The authority of every command on record stays bound.
LEMMA AuthorityKeeps ==
  ASSUME TypeOK, AuthorityInv, NEW r \in Requests, NEW l \in Aggregates,
         Buildable(r, l), HistoryRecord(r, l) \in db.history,
         RegisterStatus(db, r, l) \notin Conflicts,
         ReserveStatus(db, r, l) \notin Conflicts,
         ApproveStatus(db, r, l) \notin Conflicts,
         AllNewOrAllReplayed(Authorization(db, r, l)),
         db'.history = db.history,
         db'.commands = WithAuthorization(db, r, l).commands,
         db'.reservations = WithAuthorization(db, r, l).reservations,
         db'.approvals = WithAuthorization(db, r, l).approvals
  PROVE  /\ AuthorityInv'
         /\ db'.commands[r.command] # None
         /\ db'.commands[r.command].payload = Payload(r, l)
         /\ \A c \in Recoveries : db.commands[c] # None => db'.commands[c] = db.commands[c]
<1> DEFINE d == WithAuthorization(db, r, l)
           command == CommandRecord(r, l)
<1>1. /\ db.commands \in [Recoveries -> CommandRecords \cup {None}]
      /\ db.reservations \in [{q.key : q \in Requests} -> Reservations \cup {None}]
      /\ db.approvals \in [{q.approval : q \in Requests} -> Payloads \cup {None}]
  BY RecordFields DEF TypeOK
<1>2. /\ r.command \in Recoveries
      /\ r.key \in {q.key : q \in Requests}
      /\ r.approval \in {q.approval : q \in Requests}
  BY RequestParts
<1>3. /\ command # None /\ ReservationRecord(r, l) # None /\ Payload(r, l) # None
      /\ command.key = r.key /\ command.approval = r.approval
      /\ command.payload = Payload(r, l)
      /\ ReservationRecord(r, l).command = r.command
      /\ ReservationRecord(r, l).logical = LogicalOperation(Payload(r, l))
      /\ Payload(r, l).history = HistoryRecord(r, l)
  BY RecordTypes, NoneAssumption DEF CommandRecord, ReservationRecord, Payload
<1>4. CASE /\ db.commands[r.command] # None
           /\ db.commands[r.command].payload = Payload(r, l)
           /\ d.commands = db.commands
           /\ d.reservations = db.reservations
           /\ d.approvals = db.approvals
  <2>1. /\ db'.commands = db.commands /\ db'.reservations = db.reservations
        /\ db'.approvals = db.approvals
    BY <1>4
  <2> QED BY <1>4, <2>1, AuthorityKept
<1>5. CASE /\ db.commands[r.command] = None
           /\ db.reservations[r.key] = None
           /\ db.approvals[r.approval] = None
           /\ d.commands = [db.commands EXCEPT ![r.command] = command]
           /\ d.reservations = [db.reservations EXCEPT ![r.key] = ReservationRecord(r, l)]
           /\ d.approvals = [db.approvals EXCEPT ![r.approval] = Payload(r, l)]
  <2>1. /\ db'.commands[r.command] = command
        /\ db'.reservations[r.key] = ReservationRecord(r, l)
        /\ db'.approvals[r.approval] = Payload(r, l)
        /\ \A c \in Recoveries \ {r.command} : db'.commands[c] = db.commands[c]
        /\ \A k \in DOMAIN db.reservations \ {r.key} : db'.reservations[k] = db.reservations[k]
        /\ \A a \in DOMAIN db.approvals \ {r.approval} : db'.approvals[a] = db.approvals[a]
        /\ DOMAIN db'.commands = Recoveries
        /\ DOMAIN db'.reservations = DOMAIN db.reservations
        /\ DOMAIN db'.approvals = DOMAIN db.approvals
    BY <1>1, <1>2, <1>5
  <2> HIDE DEF command, d
  <2>2. \A c \in Recoveries : db.commands[c] # None => db'.commands[c] = db.commands[c]
    BY <1>5, <2>1
  <2>3. ASSUME NEW c \in Recoveries, db'.commands[c] # None
        PROVE  (ReservationBound(db, c) /\ ApprovalBound(db, c) /\ HistoryBound(db, c))'
    <3>1. CASE c = r.command
      <4>1. HistoryRecord(r, l).operator /\ HistoryRecord(r, l).unresolved
        BY DEF Buildable
      <4> QED BY <1>3, <2>1, <3>1, <4>1 DEF ReservationBound, ApprovalBound, HistoryBound
    <3>2. CASE c # r.command
      <4>1. db'.commands[c] = db.commands[c] /\ db.commands[c] # None
        BY <2>1, <2>3, <3>2
      <4>2. ReservationBound(db, c) /\ ApprovalBound(db, c) /\ HistoryBound(db, c)
        BY <1>1, <4>1 DEF AuthorityInv, AuthorityBound
      <4>3. /\ db.commands[c].key \in DOMAIN db.reservations
            /\ db.commands[c].approval \in DOMAIN db.approvals
            /\ db.commands[c].payload # None
        BY <1>1, <4>1, NoneAssumption DEF CommandRecords
      <4>4. db'.reservations[db.commands[c].key] = db.reservations[db.commands[c].key]
        BY <1>5, <2>1, <4>2, <4>3 DEF ReservationBound
      <4>5. db'.approvals[db.commands[c].approval] = db.approvals[db.commands[c].approval]
        BY <1>5, <2>1, <4>2, <4>3 DEF ApprovalBound
      <4> QED BY <4>1, <4>2, <4>4, <4>5 DEF ReservationBound, ApprovalBound, HistoryBound
    <3> QED BY <3>1, <3>2
  <2>4. ASSUME NEW k \in DOMAIN db.reservations, db'.reservations[k] # None
        PROVE  /\ db'.commands[db'.reservations[k].command] # None
               /\ db'.commands[db'.reservations[k].command].key = k
    <3>1. CASE k = r.key
      BY <1>3, <2>1, <3>1
    <3>2. CASE k # r.key
      <4>1. db'.reservations[k] = db.reservations[k] /\ db.reservations[k] # None
        BY <2>1, <2>4, <3>2
      <4>2. /\ db.commands[db.reservations[k].command] # None
            /\ db.commands[db.reservations[k].command].key = k
            /\ db.reservations[k].command \in Recoveries
        BY <1>1, <4>1 DEF AuthorityInv, Reservations
      <4> QED BY <2>2, <4>1, <4>2
    <3> QED BY <3>1, <3>2
  <2>5. ASSUME NEW a \in DOMAIN db.approvals, db'.approvals[a] # None
        PROVE  \E c \in Recoveries : /\ db'.commands[c] # None
                                     /\ db'.commands[c].approval = a
                                     /\ db'.commands[c].payload = db'.approvals[a]
    <3>1. CASE a = r.approval
      BY <1>2, <1>3, <2>1, <3>1
    <3>2. CASE a # r.approval
      <4>1. db'.approvals[a] = db.approvals[a] /\ db.approvals[a] # None
        BY <2>1, <2>5, <3>2
      <4>2. PICK c \in Recoveries : /\ db.commands[c] # None
                                    /\ db.commands[c].approval = a
                                    /\ db.commands[c].payload = db.approvals[a]
        BY <4>1 DEF AuthorityInv
      <4> QED BY <2>2, <4>1, <4>2
    <3> QED BY <3>1, <3>2
  <2>6. AuthorityInv'
    BY <2>1, <2>3, <2>4, <2>5 DEF AuthorityInv, AuthorityBound
  <2> QED BY <1>3, <2>1, <2>2, <2>6
<1> QED BY <1>4, <1>5, AuthorityWhole

\* An advance that conflicts with nothing comes right after the aggregate, and
\* is written at the end of the journal.
LEMMA AdvanceIsNext ==
  ASSUME TypeOK, JournalInv, db.aggregate # None, NEW entry \in Entries,
         AppendStatus(db, entry) \notin Conflicts, SaveStatus(db, entry) \notin Conflicts,
         NEW d \in Records, d.journal = db.journal
  PROVE  /\ entry.revision = db.aggregate.revision + 1
         /\ \A i \in DOMAIN db.journal :
                db.journal[i].record # entry.record /\ db.journal[i].row # entry.row
         /\ WithAdvance(d, entry).journal = Append(db.journal, entry)
         /\ WithAdvance(d, entry).aggregate =
                Aggregate(entry.to, entry.revision, entry.command)
         /\ WithAdvance(d, entry).migrations = d.migrations
         /\ WithAdvance(d, entry).history = d.history
         /\ WithAdvance(d, entry).commands = d.commands
         /\ WithAdvance(d, entry).reservations = d.reservations
         /\ WithAdvance(d, entry).approvals = d.approvals
<1> DEFINE n == Len(db.journal)
<1>1. entry.revision = db.aggregate.revision + 1
  <2>1. db.aggregate.revision = entry.revision - 1
    BY DEF SaveStatus, Conflicts
  <2>2. entry.revision \in Nat
    BY DEF Entries
  <2> QED BY <2>1, <2>2
<1>2. n \in Nat /\ DOMAIN db.journal = 1 .. n
  BY RecordFields DEF TypeOK
<1>3. \A i \in 1 .. n : db.journal[i].revision # entry.revision
  <2>1. db.aggregate.revision = BaseRevision + n
    BY DEF JournalInv, RecoveryIsOwned
  <2>2. \A i \in 1 .. n : db.journal[i].revision = BaseRevision + i
    BY <1>2 DEF JournalInv, RecoveryIsOwned
  <2>3. BaseRevision \in Nat
    BY DEF BaseRevision
  <2> HIDE DEF n
  <2> QED BY <1>1, <1>2, <2>1, <2>2, <2>3
<1>4. entry \notin Range(db.journal)
  BY <1>2, <1>3 DEF Range
<1>5. \A i \in DOMAIN db.journal :
          db.journal[i].record # entry.record /\ db.journal[i].row # entry.row
  BY <1>4 DEF AppendStatus, Conflicts, Range
<1>6. WithAdvance(d, entry) =
          [[d EXCEPT !.journal = Append(db.journal, entry)]
             EXCEPT !.aggregate = Aggregate(entry.to, entry.revision, entry.command)]
  BY <1>4 DEF WithAdvance
<1> QED BY <1>1, <1>5, <1>6 DEF Records

\* The journal stays a chain of owned advances.
LEMMA JournalExtends ==
  ASSUME TypeOK, TypeOK', JournalInv, db.aggregate # None, NEW entry \in Entries,
         db'.journal = Append(db.journal, entry),
         db'.aggregate = Aggregate(entry.to, entry.revision, entry.command),
         entry.revision = db.aggregate.revision + 1,
         entry.from = db.aggregate.state,
         \A i \in DOMAIN db.journal :
             db.journal[i].record # entry.record /\ db.journal[i].row # entry.row,
         \A c \in Recoveries : db.commands[c] # None => db'.commands[c] = db.commands[c],
         \/ db.journal = << >> /\ AsksForReconciliation(entry)
         \/ \E r \in Requests, l \in Aggregates :
            /\ db.journal # << >>
            /\ entry = RecoveryEntry(r, l)
            /\ l.state = "RECONCILIATION_REQUIRED"
            /\ db'.commands[r.command] # None
            /\ db'.commands[r.command].payload = Payload(r, l)
  PROVE  JournalInv' /\ entry.command \in {db'.journal[i].command : i \in DOMAIN db'.journal}
<1> DEFINE n == Len(db.journal)
<1>1. db.journal \in Seq(Entries)
  BY RecordFields DEF TypeOK
<1>2. n \in Nat /\ DOMAIN db.journal = 1 .. n
  BY <1>1
<1>3. /\ Len(db'.journal) = n + 1
      /\ DOMAIN db'.journal = 1 .. n + 1
      /\ \A i \in 1 .. n : db'.journal[i] = db.journal[i]
      /\ db'.journal[n + 1] = entry
  BY <1>1
<1>4. db.journal = << >> <=> n = 0
  BY <1>1
<1>5. /\ db.aggregate.revision = BaseRevision + n
      /\ n > 0 => db.journal[n].to = db.aggregate.state
      /\ n = 0 => db.aggregate.state = "OUTCOME_UNKNOWN"
  <2>1. db.aggregate.revision = BaseRevision + n
    BY DEF JournalInv, RecoveryIsOwned
  <2>2. ASSUME n > 0 PROVE db.journal[n].to = db.aggregate.state
    <3>1. n \in DOMAIN db.journal
      <4> HIDE DEF n
      <4> QED BY <1>2, <2>2
    <3> QED BY <3>1 DEF JournalInv, RecoveryIsOwned
  <2>3. ASSUME n = 0 PROVE db.aggregate.state = "OUTCOME_UNKNOWN"
    BY <1>4, <2>3 DEF JournalInv
  <2> QED BY <2>1, <2>2, <2>3
<1>6. /\ db'.aggregate.state = entry.to /\ db'.aggregate.revision = entry.revision
      /\ db'.aggregate.command = entry.command
      /\ db'.aggregate # None
  <2>1. Aggregate(entry.to, entry.revision, entry.command) \in Aggregates
    BY DEF Aggregate, Aggregates, Entries
  <2> QED BY <2>1, NoneAssumption DEF Aggregate
<1>7. \A i \in 1 .. n + 1 : i \in 1 .. n \/ i = n + 1
  <2> HIDE DEF n
  <2> QED BY <1>2
<1>8. ASSUME NEW i \in 1 .. n
      PROVE  /\ db.journal[i].command = Origin \/
                  /\ db.journal[i].command \in Recoveries
                  /\ db.commands[db.journal[i].command] # None
                  /\ db'.commands[db.journal[i].command] = db.commands[db.journal[i].command]
  <2>1. db.journal[i] \in Entries
    BY <1>1, <1>2
  <2>2. db.journal[i].command \in Recoveries \cup {Origin}
    BY <2>1 DEF Entries
  <2>3. db.journal[i].command # Origin => db.commands[db.journal[i].command] # None
    BY <1>2 DEF JournalInv, RecoveryIsOwned
  <2> QED BY <2>2, <2>3
<1>9. \/ n = 0 /\ AsksForReconciliation(entry)
      \/ LET payload == db'.commands[entry.command].payload
         IN  /\ n # 0
             /\ Recovers(entry, payload)
             /\ db'.commands[entry.command] # None
             /\ payload.history.revision = entry.revision - 1
  <2>1. CASE db.journal = << >>
    BY <1>4, <2>1
  <2>2. CASE db.journal # << >>
    <3>1. PICK r \in Requests, l \in Aggregates :
              /\ entry = RecoveryEntry(r, l)
              /\ l.state = "RECONCILIATION_REQUIRED"
              /\ db'.commands[r.command] # None
              /\ db'.commands[r.command].payload = Payload(r, l)
      BY <2>2
    <3>2. /\ entry.command = r.command /\ entry.record = r.command
          /\ entry.from = l.state
          /\ entry.revision = l.revision + 1
          /\ entry.row = IF r.outcome = "OPERATOR_ACTION_REQUIRED"
                         THEN "PX-TRN-027" ELSE "PX-TRN-028"
          /\ entry.to = IF r.outcome = "OPERATOR_ACTION_REQUIRED"
                        THEN r.destination ELSE "RECONCILIATION_REQUIRED"
      BY <3>1 DEF RecoveryEntry
    <3>3. /\ Payload(r, l).history.outcome = r.outcome
          /\ Payload(r, l).history.revision = l.revision
          /\ Payload(r, l).destination = r.destination
      BY DEF Payload, HistoryRecord
    <3>4. l.revision = entry.revision - 1
      BY <3>2 DEF Aggregates
    <3>5. Recovers(entry, Payload(r, l))
      BY <3>1, <3>2, <3>3, RequestParts DEF Recovers
    <3>6. db'.commands[entry.command].payload = Payload(r, l)
      BY <3>1, <3>2
    <3> HIDE DEF n
    <3> QED BY <1>4, <2>2, <3>1, <3>2, <3>3, <3>4, <3>5, <3>6
  <2> QED BY <2>1, <2>2
<1> HIDE DEF n
<1>10. BaseRevision \in Nat
  BY DEF BaseRevision
<1>11. ASSUME NEW i \in 1 .. n + 1
       PROVE  LET e == db'.journal[i] IN
              /\ e.revision = BaseRevision + i
              /\ e.from = IF i = 1 THEN "OUTCOME_UNKNOWN" ELSE db'.journal[i - 1].to
              /\ i = n + 1 => e.to = db'.aggregate.state /\ e.command = db'.aggregate.command
              /\ e.command # Origin =>
                     /\ db'.commands[e.command] # None
                     /\ db'.commands[e.command].payload.history.revision = e.revision - 1
                     /\ e.row = "PX-TRN-027" =>
                            e.to = db'.commands[e.command].payload.destination
  <2>1. CASE i \in 1 .. n
    <3>1. db'.journal[i] = db.journal[i] /\ i # n + 1
      BY <1>2, <1>3, <2>1
    <3>2. i # 1 => db'.journal[i - 1] = db.journal[i - 1]
      BY <1>2, <1>3, <2>1
    <3>3. LET e == db.journal[i] IN
          /\ e.revision = BaseRevision + i
          /\ e.from = IF i = 1 THEN "OUTCOME_UNKNOWN" ELSE db.journal[i - 1].to
          /\ e.command # Origin =>
                     /\ db.commands[e.command] # None
                     /\ db.commands[e.command].payload.history.revision = e.revision - 1
                     /\ e.row = "PX-TRN-027" =>
                            e.to = db.commands[e.command].payload.destination
      BY <1>2, <2>1, Zenon DEF JournalInv, RecoveryIsOwned
    <3> QED BY <1>8, <2>1, <3>1, <3>2, <3>3, Zenon
  <2>2. CASE i = n + 1
    <3>1. db'.journal[i] = entry
      BY <1>3, <2>2
    <3>2. entry.revision = BaseRevision + i
      BY <1>2, <1>5, <1>10, <2>2
    <3>3. entry.from = IF i = 1 THEN "OUTCOME_UNKNOWN" ELSE db'.journal[i - 1].to
      <4>1. CASE n = 0
        BY <1>5, <2>2, <4>1
      <4>2. CASE n # 0
        <5>1. i # 1 /\ i - 1 = n /\ n \in 1 .. n /\ n > 0
          BY <1>2, <2>2, <4>2
        <5>2. db'.journal[i - 1] = db.journal[n]
          BY <1>3, <5>1
        <5> QED BY <1>5, <5>1, <5>2
      <4> QED BY <4>1, <4>2
    <3>4. entry.command # Origin =>
              /\ db'.commands[entry.command] # None
              /\ db'.commands[entry.command].payload.history.revision = entry.revision - 1
              /\ entry.row = "PX-TRN-027" =>
                     entry.to = db'.commands[entry.command].payload.destination
      BY <1>9 DEF AsksForReconciliation, Recovers
    <3> QED BY <1>6, <3>1, <3>2, <3>3, <3>4, Zenon
  <2> QED BY <1>7, <2>1, <2>2
<1>12. RecoveryIsOwned'
  <2>1. db'.aggregate.revision = BaseRevision + (n + 1)
    BY <1>2, <1>5, <1>6, <1>10
  <2>2. Len(db'.journal) = n + 1
    BY <1>3
  <2> QED BY <1>3, <1>11, <2>1, <2>2, Zenon DEF RecoveryIsOwned
<1>13. ASSUME NEW i \in 1 .. n + 1
       PROVE  LET e == db'.journal[i] IN
              IF i = 1 THEN AsksForReconciliation(e)
              ELSE Recovers(e, db'.commands[e.command].payload)
  <2>1. CASE i \in 1 .. n
    <3>1. db'.journal[i] = db.journal[i]
      BY <1>3, <2>1
    <3>2. LET e == db.journal[i] IN
          IF i = 1 THEN AsksForReconciliation(e)
          ELSE Recovers(e, db.commands[e.command].payload)
      BY <1>2, <2>1, Zenon DEF JournalInv
    <3>3. i # 1 => db'.commands[db.journal[i].command] = db.commands[db.journal[i].command]
      BY <1>8, <2>1, <3>2, Zenon DEF Recovers
    <3> QED BY <3>1, <3>2, <3>3, Zenon
  <2>2. CASE i = n + 1
    <3>1. db'.journal[i] = entry
      BY <1>3, <2>2
    <3>2. i = 1 <=> n = 0
      BY <1>2, <2>2
    <3> QED BY <1>9, <3>1, <3>2, Zenon
  <2> QED BY <1>7, <2>1, <2>2
<1>14. ASSUME NEW i \in 1 .. n + 1, NEW j \in 1 .. n + 1,
              db'.journal[i].record = db'.journal[j].record
                  \/ db'.journal[i].row = db'.journal[j].row
       PROVE  i = j
  <2>1. \A k \in 1 .. n : db'.journal[k].record # entry.record /\ db'.journal[k].row # entry.row
    BY <1>2, <1>3
  <2>2. ASSUME i \in 1 .. n, j \in 1 .. n PROVE i = j
    <3>1. db'.journal[i] = db.journal[i] /\ db'.journal[j] = db.journal[j]
      BY <1>3, <2>2
    <3>2. \A k, m \in DOMAIN db.journal :
              db.journal[k].record = db.journal[m].record
                  \/ db.journal[k].row = db.journal[m].row => k = m
      BY Zenon DEF JournalInv
    <3>3. i \in DOMAIN db.journal /\ j \in DOMAIN db.journal
      BY <1>2, <2>2
    <3> QED BY <1>14, <3>1, <3>2, <3>3, Zenon
  <2> QED BY <1>3, <1>7, <1>14, <2>1, <2>2, Zenon
<1>15. db'.journal # << >>
  <2>1. n + 1 # 0 /\ Len(<< >>) = 0
    BY <1>2
  <2> QED BY <1>3, <2>1
<1>16. JournalInv'
  <2>1. DOMAIN db'.journal = 1 .. n + 1
    BY <1>3
  <2>2. \A i \in DOMAIN db'.journal :
            LET e == db'.journal[i] IN
            IF i = 1 THEN AsksForReconciliation(e)
            ELSE Recovers(e, db'.commands[e.command].payload)
    BY <1>13, <2>1, Zenon
  <2>3. \A i, j \in DOMAIN db'.journal :
            db'.journal[i].record = db'.journal[j].record
                \/ db'.journal[i].row = db'.journal[j].row => i = j
    BY <1>14, <2>1, Zenon
  <2> QED BY <1>6, <1>12, <1>15, <2>2, <2>3, Zenon
         DEF JournalInv, AsksForReconciliation, Recovers
<1>17. n + 1 \in DOMAIN db'.journal
  BY <1>2, <1>3
<1> QED BY <1>3, <1>16, <1>17

\* What a process does at its commit.
LEMMA CommitFrame ==
  ASSUME IInv, NEW w \in Workers, Commit(w)
  PROVE  /\ db' = Written(db, unit[w], job[w], local[w])
         /\ UNCHANGED <<run, schema, job, answer>>
         /\ \A v \in Workers \ {w} : Same(v)
         /\ unit[w] # None /\ unit[w] \in Units /\ run[w] = "up"
         /\ unit'[w] = None
         /\ progress'[w] = ProgressAfter(unit[w])
         /\ local'[w] = IF unit[w] = "require" THEN None ELSE local[w]
         /\ \A i \in DOMAIN Answers(db, unit[w], job[w], local[w]) :
                Answers(db, unit[w], job[w], local[w])[i] \notin Conflicts
         /\ Acceptable(unit[w], Answers(db, unit[w], job[w], local[w]))
<1>1. TypeOK /\ WorkInv(w)
  BY DEF IInv
<1>2. /\ db' = Written(db, unit[w], job[w], local[w])
      /\ UNCHANGED <<run, schema, job, answer>>
      /\ unit[w] # None
      /\ unit' = [unit EXCEPT ![w] = None]
      /\ progress' = [progress EXCEPT ![w] = ProgressAfter(unit[w])]
      /\ local' = [local EXCEPT ![w] = IF unit[w] = "require" THEN None ELSE local[w]]
      /\ Acceptable(unit[w], Answers(db, unit[w], job[w], local[w]))
      /\ BlockingConflict(Answers(db, unit[w], job[w], local[w])) = None
  BY DEF Commit
<1>3. unit[w] \in Units /\ run[w] = "up"
  BY <1>1, <1>2 DEF TypeOK, WorkInv
<1>4. /\ \A v \in Workers \ {w} : Same(v)
      /\ unit'[w] = None
      /\ progress'[w] = ProgressAfter(unit[w])
      /\ local'[w] = IF unit[w] = "require" THEN None ELSE local[w]
  BY <1>1, <1>2 DEF Same, TypeOK
<1>5. None \notin Conflicts
  BY NoneAssumption DEF Statuses
<1>6. \A i \in DOMAIN Answers(db, unit[w], job[w], local[w]) :
          Answers(db, unit[w], job[w], local[w])[i] \notin Conflicts
  <2> DEFINE answers == Answers(db, unit[w], job[w], local[w])
  <2>1. DOMAIN answers \subseteq 1 .. 5
    BY <1>3, AnswersDomain
  <2>2. BlockingConflict(answers) = None
    BY <1>2
  <2> HIDE DEF answers
  <2> SUFFICES \A i \in DOMAIN answers : answers[i] \notin Conflicts
    BY DEF answers
  <2> QED BY <1>5, <2>1, <2>2, FirstConflict
<1> QED BY <1>2, <1>3, <1>4, <1>6

\* A commit that keeps the records right and lets them grow keeps the rest.
LEMMA CommitKeeps ==
  ASSUME IInv, NEW w \in Workers, Commit(w), RecordsInv', Grown,
         unit[w] = "require" \/
             /\ local[w].state = "RECONCILIATION_REQUIRED"
             /\ HistoryRecord(job[w], local[w]) \in db'.history
             /\ unit[w] \in {"prepare", "execute"} => Buildable(job[w], local[w])
             /\ unit[w] = "execute" =>
                    \E i \in DOMAIN db'.journal : db'.journal[i].command = job[w].command
  PROVE  IInv'
<1>1. TypeOK /\ RecordsInv /\ StartInv(w) /\ WorkInv(w) /\ AnswerInv(w)
  BY DEF IInv
<1>2. TypeOK'
  BY ProtocolTypes
<1>3. /\ UNCHANGED <<run, schema, job, answer>>
      /\ \A v \in Workers \ {w} : Same(v)
      /\ unit[w] \in Units
      /\ unit'[w] = None
      /\ progress'[w] = ProgressAfter(unit[w])
      /\ local'[w] = IF unit[w] = "require" THEN None ELSE local[w]
  BY CommitFrame
<1>4. StartInv(w)'
  <2>1. /\ run'[w] = run[w]
        /\ run[w] = "up"
    BY <1>3, CommitFrame
  <2>2. Len(db.migrations) = LastVersion
    BY <1>1, <2>1 DEF StartInv
  <2>3. Len(db'.migrations) = LastVersion
    <3>1. /\ Len(db'.migrations) <= LastVersion
          /\ Len(db.migrations) <= Len(db'.migrations)
      BY DEF RecordsInv, MigrationsInOrder, Grown
    <3>2. Len(db'.migrations) \in Nat
      BY <1>2, RecordFields DEF TypeOK
    <3>3. \A m \in Nat : m <= LastVersion /\ LastVersion <= m => m = LastVersion
      BY FiveMigrations
    <3> QED BY <2>2, <3>1, <3>2, <3>3, Zenon
  <2> QED BY <2>1, <2>3 DEF StartInv
<1>5. AnswerInv(w)'
  <2>1. AppliedBy(job[w].command) \subseteq AppliedBy(job[w].command)'
    BY <1>3 DEF AppliedBy, Grown
  <2>2. job[w].command \in Recoveries /\ job'[w] = job[w] /\ answer'[w] = answer[w]
    BY <1>1, <1>3, RequestParts DEF TypeOK
  <2> QED BY <1>1, <2>1, <2>2 DEF AnswerInv, Grown
<1>6. WorkInv(w)'
  <2>1. CASE unit[w] = "require"
    BY <1>3, <2>1 DEF WorkInv, ProgressAfter
  <2>2. CASE unit[w] # "require"
    <3>1. local'[w] = local[w] /\ local[w] # None /\ job'[w] = job[w]
      BY <1>1, <1>3, <2>2, OpenUnit, NoneAssumption DEF Units
    <3>2. /\ db'.aggregate # None
          /\ local[w].revision \in BaseRevision .. db'.aggregate.revision
          /\ local[w].revision = db'.aggregate.revision => local[w] = db'.aggregate
      BY <1>1, <1>2, <3>1, LoadedKept
    <3>3. local[w].revision = BaseRevision => local[w].state = "OUTCOME_UNKNOWN"
      BY <1>1, <3>1 DEF WorkInv
    <3>4. /\ progress'[w] = "prepared" => unit[w] = "prepare"
          /\ progress'[w] = "executed" => unit[w] = "execute"
      <4>1. \/ unit[w] = "history" /\ progress'[w] = "recorded"
            \/ unit[w] = "prepare" /\ progress'[w] = "prepared"
            \/ unit[w] = "execute" /\ progress'[w] = "executed"
        BY <1>3, <2>2, Zenon DEF Units, ProgressAfter
      <4> QED BY <4>1
    <3>5. unit[w] = "execute" => AppliedBy(job[w].command)' # {}
      BY <1>3, <2>2 DEF AppliedBy
    <3>6. /\ local'[w].state = "RECONCILIATION_REQUIRED"
          /\ HistoryRecord(job'[w], local'[w]) \in db'.history
          /\ progress'[w] = "prepared" => Buildable(job'[w], local'[w])
      BY <2>2, <3>1, <3>4
    <3> QED BY <1>3, <3>1, <3>2, <3>3, <3>4, <3>5, <3>6 DEF WorkInv, AppliedBy
  <2> QED BY <2>1, <2>2
<1> QED BY <1>2, <1>3, <1>4, <1>5, <1>6, StepKeeps

\* The journal stays right while the commands on record do.
LEMMA JournalHeld ==
  ASSUME TypeOK, JournalInv, db'.aggregate = db.aggregate, db'.journal = db.journal,
         \A c \in Recoveries : db.commands[c] # None => db'.commands[c] = db.commands[c]
  PROVE  JournalInv'
<1>1. ASSUME NEW i \in DOMAIN db.journal
      PROVE  \/ db.journal[i].command = Origin
             \/ db'.commands[db.journal[i].command] = db.commands[db.journal[i].command]
  <2>1. db.journal \in Seq(Entries)
    BY RecordFields DEF TypeOK
  <2>2. db.journal[i] \in Entries
    BY <1>1, <2>1
  <2>3. db.journal[i].command \in Recoveries \cup {Origin}
    BY <2>2 DEF Entries
  <2>4. db.aggregate # None
    BY <1>1 DEF JournalInv
  <2>5. db.journal[i].command # Origin => db.commands[db.journal[i].command] # None
    BY <1>1, <2>4 DEF JournalInv, RecoveryIsOwned
  <2> QED BY <2>3, <2>5
<1>2. RecoveryIsOwned'
  <2>1. SUFFICES ASSUME db'.aggregate # None PROVE RecoveryIsOwned'
    BY DEF RecoveryIsOwned
  <2>2. db'.aggregate.revision = BaseRevision + Len(db'.journal)
    BY <2>1 DEF JournalInv, RecoveryIsOwned
  <2>3. ASSUME NEW i \in DOMAIN db'.journal
        PROVE  LET e == db'.journal[i] IN
               /\ e.revision = BaseRevision + i
               /\ e.from = IF i = 1 THEN "OUTCOME_UNKNOWN" ELSE db'.journal[i - 1].to
               /\ i = Len(db'.journal) => e.to = db'.aggregate.state
                                          /\ e.command = db'.aggregate.command
               /\ e.command # Origin =>
                      LET command == db'.commands[e.command] IN
                      /\ command # None
                      /\ command.payload.history.revision = e.revision - 1
                      /\ e.row = "PX-TRN-027" => e.to = command.payload.destination
    <3>1. LET e == db.journal[i] IN
          /\ e.revision = BaseRevision + i
          /\ e.from = IF i = 1 THEN "OUTCOME_UNKNOWN" ELSE db.journal[i - 1].to
          /\ i = Len(db.journal) => e.to = db.aggregate.state
                                    /\ e.command = db.aggregate.command
          /\ e.command # Origin =>
                 LET command == db.commands[e.command] IN
                 /\ command # None
                 /\ command.payload.history.revision = e.revision - 1
                 /\ e.row = "PX-TRN-027" => e.to = command.payload.destination
      BY <2>1, <2>3, Zenon DEF JournalInv, RecoveryIsOwned
    <3>2. db.journal[i].command # Origin =>
              db'.commands[db.journal[i].command] = db.commands[db.journal[i].command]
      BY <1>1, <2>3
    <3> QED BY <3>1, <3>2
  <2> QED BY <2>2, <2>3, Zenon DEF RecoveryIsOwned
<1>3. ASSUME NEW i \in DOMAIN db'.journal
      PROVE  LET e == db'.journal[i] IN
             IF i = 1 THEN AsksForReconciliation(e)
             ELSE Recovers(e, db'.commands[e.command].payload)
  <2>1. LET e == db.journal[i] IN
        IF i = 1 THEN AsksForReconciliation(e)
        ELSE Recovers(e, db.commands[e.command].payload)
    BY <1>3, Zenon DEF JournalInv
  <2>2. i # 1 => db'.commands[db.journal[i].command] = db.commands[db.journal[i].command]
    BY <1>1, <1>3, <2>1, Zenon DEF Recovers
  <2> QED BY <2>1, <2>2, Zenon
<1>4. \A i, j \in DOMAIN db'.journal :
          db'.journal[i].record = db'.journal[j].record \/ db'.journal[i].row = db'.journal[j].row
              => i = j
  BY Zenon DEF JournalInv
<1>5. /\ db'.aggregate = None => db'.journal = << >>
      /\ db'.aggregate # None /\ db'.journal = << >> => db'.aggregate.state = "OUTCOME_UNKNOWN"
  BY Zenon DEF JournalInv
<1> QED BY <1>2, <1>3, <1>4, <1>5, Zenon DEF JournalInv, AsksForReconciliation, Recovers

\* An advance leaves the records grown.
LEMMA AdvanceGrows ==
  ASSUME TypeOK, db.aggregate # None, NEW entry \in Entries,
         entry.revision = db.aggregate.revision + 1,
         db'.migrations = db.migrations, db'.history = db.history,
         db'.journal = Append(db.journal, entry),
         db'.aggregate = Aggregate(entry.to, entry.revision, entry.command),
         \A c \in Recoveries : db.commands[c] # None => db'.commands[c] = db.commands[c]
  PROVE  Grown
<1>1. db.journal \in Seq(Entries) /\ Len(db.migrations) \in Nat
  BY RecordFields DEF TypeOK
<1>2. \A i \in DOMAIN db.journal : i \in DOMAIN db'.journal /\ db'.journal[i] = db.journal[i]
  BY <1>1
<1>3. db'.aggregate # None
  <2>1. Aggregate(entry.to, entry.revision, entry.command) \in Aggregates
    BY DEF Aggregate, Aggregates, Entries
  <2> QED BY <2>1, NoneAssumption
<1>4. db'.aggregate.revision > db.aggregate.revision
  <2>1. db.aggregate \in Aggregates
    BY RecordFields DEF TypeOK
  <2>2. db.aggregate.revision \in Nat
    BY <2>1 DEF Aggregates
  <2>3. db'.aggregate.revision = db.aggregate.revision + 1
    BY DEF Aggregate
  <2> QED BY <2>2, <2>3
<1>5. Len(db.migrations) <= Len(db'.migrations)
  BY <1>1
<1> QED BY <1>2, <1>3, <1>4, <1>5, Zenon DEF Grown

\* The process that asks for reconciliation advances the unknown outcome.
LEMMA RequireKeeps ==
  ASSUME IInv, NEW w \in Workers, Commit(w), unit[w] = "require"
  PROVE  IInv'
<1> DEFINE l == local[w]
           entry == RequireEntry(l)
<1>1. TypeOK /\ RecordsInv /\ JournalInv /\ db \in Records
  BY DEF IInv, RecordsInv, TypeOK
<1>2. /\ l \in Aggregates /\ db.aggregate # None
      /\ l.revision = db.aggregate.revision => l = db.aggregate
      /\ l.state = "OUTCOME_UNKNOWN"
      /\ job[w] \in Requests
  <2>1. unit[w] # None
    BY CommitFrame
  <2> HIDE DEF entry
  <2> QED BY <2>1, OpenUnit
<1>3. entry \in Entries
  BY <1>2, RecordTypes
<1>4. AppendStatus(db, entry) \notin Conflicts /\ SaveStatus(db, entry) \notin Conflicts
  <2>1. Answers(db, unit[w], job[w], l) = <<AppendStatus(db, entry), SaveStatus(db, entry)>>
    BY DEF Answers, Advance
  <2>2. \A i \in DOMAIN Answers(db, unit[w], job[w], l) :
            Answers(db, unit[w], job[w], l)[i] \notin Conflicts
    BY CommitFrame
  <2> QED BY <2>1, <2>2
<1>5. db' = WithAdvance(db, entry)
  BY CommitFrame DEF Written
<1>6. /\ entry.revision = db.aggregate.revision + 1
      /\ \A i \in DOMAIN db.journal :
             db.journal[i].record # entry.record /\ db.journal[i].row # entry.row
      /\ db'.journal = Append(db.journal, entry)
      /\ db'.aggregate = Aggregate(entry.to, entry.revision, entry.command)
      /\ db'.migrations = db.migrations /\ db'.history = db.history
      /\ db'.commands = db.commands
      /\ db'.reservations = db.reservations /\ db'.approvals = db.approvals
  BY <1>1, <1>2, <1>3, <1>4, <1>5, AdvanceIsNext
<1>7. entry.from = db.aggregate.state /\ AsksForReconciliation(entry)
  <2>1. l.revision \in Nat /\ db.aggregate \in Aggregates
    BY <1>1, <1>2, RecordFields DEF Aggregates
  <2>2. db.aggregate.revision \in Nat /\ entry.revision = l.revision + 1
    BY <2>1 DEF Aggregates, RequireEntry
  <2>3. l = db.aggregate
    BY <1>2, <1>6, <2>1, <2>2
  <2> QED BY <2>3 DEF RequireEntry, AsksForReconciliation
<1>8. db.journal = << >>
  <2>1. SUFFICES ASSUME db.journal # << >> PROVE FALSE
    OBVIOUS
  <2>2. 1 \in DOMAIN db.journal
    <3>1. db.journal \in Seq(Entries)
      BY <1>1, RecordFields
    <3> QED BY <2>1, <3>1
  <2>3. AsksForReconciliation(db.journal[1])
    BY <1>1, <2>2 DEF JournalInv
  <2> QED BY <1>6, <1>7, <2>2, <2>3 DEF AsksForReconciliation
<1>9. Grown
  BY <1>1, <1>2, <1>3, <1>6, AdvanceGrows, Zenon
<1>10. JournalInv'
  <2>1. TypeOK'
    BY ProtocolTypes
  <2>2. \A c \in Recoveries : db.commands[c] # None => db'.commands[c] = db.commands[c]
    BY <1>6
  <2> HIDE DEF entry
  <2> QED BY <1>1, <1>2, <1>3, <1>6, <1>7, <1>8, <2>1, <2>2, JournalExtends
<1>11. AuthorityInv' /\ MigrationsInOrder' /\ HistoryInv'
  <2>1. AuthorityInv'
    BY <1>1, <1>6, AuthorityKept DEF RecordsInv
  <2>2. MigrationsInOrder' /\ HistoryInv'
    BY <1>1, <1>6 DEF RecordsInv, MigrationsInOrder, HistoryInv
  <2> QED BY <2>1, <2>2
<1>12. RecordsInv'
  BY <1>10, <1>11 DEF RecordsInv
<1> QED BY <1>9, <1>12, CommitKeeps

\* A comparison goes on record as it was made.
LEMMA HistoryKeeps ==
  ASSUME IInv, NEW w \in Workers, Commit(w), unit[w] = "history"
  PROVE  IInv'
<1> DEFINE record == HistoryRecord(job[w], local[w])
<1>1. TypeOK /\ RecordsInv /\ db \in Records
  BY DEF IInv, TypeOK
<1>2. /\ job[w] \in Requests
      /\ local[w].state = "RECONCILIATION_REQUIRED"
  <2>1. unit[w] # None
    BY CommitFrame
  <2> QED BY <2>1, OpenUnit
<1>3. db' = [db EXCEPT !.history = db.history \cup {record}]
  BY CommitFrame DEF Written
<1>4. /\ db'.migrations = db.migrations /\ db'.aggregate = db.aggregate
      /\ db'.journal = db.journal /\ db'.history = db.history \cup {record}
      /\ db'.commands = db.commands
      /\ db'.reservations = db.reservations /\ db'.approvals = db.approvals
  <2> HIDE DEF record
  <2> QED BY <1>1, <1>3 DEF Records
<1>5. JournalInv' /\ AuthorityInv' /\ MigrationsInOrder'
  <2>1. MigrationsInOrder'
    BY <1>1, <1>4 DEF RecordsInv, MigrationsInOrder
  <2> QED BY <1>1, <1>4, <2>1, JournalKept, AuthorityKept DEF RecordsInv
<1>6. HistoryInv'
  <2>1. record.state = "RECONCILIATION_REQUIRED" /\ record = HistoryRecord(job[w], record)
    BY <1>2 DEF HistoryRecord
  <2> HIDE DEF record
  <2> QED BY <1>1, <1>2, <1>4, <2>1 DEF RecordsInv, HistoryInv
<1>7. Grown
  <2>1. Len(db.migrations) <= Len(db'.migrations)
    <3>1. Len(db.migrations) \in Nat
      BY <1>1, RecordFields
    <3> QED BY <1>4, <3>1
  <2> QED BY <1>4, <2>1, Zenon DEF Grown
<1>8. RecordsInv'
  BY <1>5, <1>6 DEF RecordsInv
<1> QED BY <1>2, <1>4, <1>7, <1>8, CommitKeeps

\* A prepared recovery is on record with its reservation and its approval.
LEMMA PrepareKeeps ==
  ASSUME IInv, NEW w \in Workers, Commit(w), unit[w] = "prepare"
  PROVE  IInv'
<1> DEFINE r == job[w]
           l == local[w]
           answers == Answers(db, "prepare", r, l)
           d == WithAuthorization(db, r, l)
<1>1. TypeOK /\ RecordsInv /\ db \in Records
  BY DEF IInv, TypeOK
<1>2. /\ r \in Requests /\ l \in Aggregates
      /\ l.state = "RECONCILIATION_REQUIRED"
      /\ HistoryRecord(r, l) \in db.history /\ Buildable(r, l)
  <2>1. unit[w] # None
    BY CommitFrame
  <2> QED BY <2>1, OpenUnit
<1>3. db' = d
  BY CommitFrame DEF Written
<1>4. /\ RegisterStatus(db, r, l) \notin Conflicts
      /\ ReserveStatus(db, r, l) \notin Conflicts
      /\ ApproveStatus(db, r, l) \notin Conflicts
      /\ AllNewOrAllReplayed(Authorization(db, r, l))
  <2>1. /\ \A i \in DOMAIN answers : answers[i] \notin Conflicts
        /\ Acceptable("prepare", answers)
    BY CommitFrame
  <2>2. /\ DOMAIN answers = 1 .. 3
        /\ answers[1] = RegisterStatus(db, r, l)
        /\ answers[2] = ReserveStatus(db, r, l)
        /\ answers[3] = ApproveStatus(db, r, l)
        /\ answers = Authorization(db, r, l)
    BY PrepareAnswers
  <2>3. AllNewOrAllReplayed(answers)
    BY <2>1 DEF Acceptable
  <2> HIDE DEF answers
  <2> QED BY <2>1, <2>2, <2>3
<1>5. /\ d.migrations = db.migrations /\ d.aggregate = db.aggregate
      /\ d.journal = db.journal /\ d.history = db.history
  BY <1>1, <1>2, <1>4, AuthorityWhole
<1>6. /\ AuthorityInv'
      /\ \A c \in Recoveries : db.commands[c] # None => db'.commands[c] = db.commands[c]
  <2>1. /\ db'.commands = d.commands /\ db'.reservations = d.reservations
        /\ db'.approvals = d.approvals /\ db'.history = db.history
    BY <1>3, <1>5
  <2> QED BY <1>1, <1>2, <1>4, <2>1, AuthorityKeeps DEF RecordsInv
<1> HIDE DEF d
<1>7. JournalInv'
  BY <1>1, <1>3, <1>5, <1>6, JournalHeld DEF RecordsInv
<1>8. MigrationsInOrder' /\ HistoryInv'
  BY <1>1, <1>3, <1>5 DEF RecordsInv, MigrationsInOrder, HistoryInv
<1>9. Grown
  <2>1. Len(db.migrations) \in Nat
    BY <1>1, RecordFields
  <2> QED BY <1>3, <1>5, <1>6, <2>1 DEF Grown
<1>10. RecordsInv'
  BY <1>6, <1>7, <1>8 DEF RecordsInv
<1> QED BY <1>2, <1>3, <1>5, <1>9, <1>10, CommitKeeps

\* An executed recovery advances the execution by its own command.
LEMMA ExecuteKeeps ==
  ASSUME IInv, NEW w \in Workers, Commit(w), unit[w] = "execute"
  PROVE  IInv'
<1> DEFINE r == job[w]
           l == local[w]
           entry == RecoveryEntry(r, l)
           answers == Answers(db, "execute", r, l)
           d == WithAuthorization(db, r, l)
<1>1. TypeOK /\ RecordsInv /\ JournalInv /\ db \in Records
  BY DEF IInv, RecordsInv, TypeOK
<1>2. /\ r \in Requests /\ l \in Aggregates /\ db.aggregate # None
      /\ l.revision = db.aggregate.revision => l = db.aggregate
      /\ l.state = "RECONCILIATION_REQUIRED"
      /\ HistoryRecord(r, l) \in db.history /\ Buildable(r, l)
  <2>1. unit[w] # None
    BY CommitFrame
  <2> HIDE DEF entry, answers, d
  <2> QED BY <2>1, OpenUnit
<1>3. entry \in Entries
  BY <1>2, RecordTypes
<1>4. db' = WithAdvance(d, entry)
  BY CommitFrame DEF Written
<1>5. /\ RegisterStatus(db, r, l) \notin Conflicts
      /\ ReserveStatus(db, r, l) \notin Conflicts
      /\ ApproveStatus(db, r, l) \notin Conflicts
      /\ AllNewOrAllReplayed(Authorization(db, r, l))
      /\ AppendStatus(db, entry) \notin Conflicts
      /\ SaveStatus(db, entry) \notin Conflicts
  <2>1. /\ \A i \in DOMAIN answers : answers[i] \notin Conflicts
        /\ Acceptable("execute", answers)
    BY CommitFrame
  <2>2. /\ DOMAIN answers = 1 .. 5
        /\ answers[1] = RegisterStatus(db, r, l)
        /\ answers[2] = ReserveStatus(db, r, l)
        /\ answers[3] = ApproveStatus(db, r, l)
        /\ answers[4] = AppendStatus(db, entry)
        /\ answers[5] = SaveStatus(db, entry)
        /\ Acceptable("execute", answers) <=> AllNewOrAllReplayed(Authorization(db, r, l))
    BY ExecuteAnswers
  <2> HIDE DEF answers, entry
  <2> QED BY <2>1, <2>2
<1>6. /\ d.migrations = db.migrations /\ d.aggregate = db.aggregate
      /\ d.journal = db.journal /\ d.history = db.history
      /\ d \in Records
  <2>1. d \in Records
    BY <1>1, <1>2, AuthorizationType
  <2> HIDE DEF entry, answers
  <2> QED BY <1>1, <1>2, <1>5, <2>1, AuthorityWhole
<1>7. /\ entry.revision = db.aggregate.revision + 1
      /\ \A i \in DOMAIN db.journal :
             db.journal[i].record # entry.record /\ db.journal[i].row # entry.row
      /\ db'.journal = Append(db.journal, entry)
      /\ db'.aggregate = Aggregate(entry.to, entry.revision, entry.command)
      /\ db'.migrations = d.migrations /\ db'.history = d.history
      /\ db'.commands = d.commands
      /\ db'.reservations = d.reservations /\ db'.approvals = d.approvals
  <2> HIDE DEF entry, d, answers
  <2> QED BY <1>1, <1>2, <1>3, <1>4, <1>5, <1>6, AdvanceIsNext
<1>8. /\ AuthorityInv'
      /\ db'.commands[r.command] # None
      /\ db'.commands[r.command].payload = Payload(r, l)
      /\ \A c \in Recoveries : db.commands[c] # None => db'.commands[c] = db.commands[c]
  <2>1. /\ db'.commands = d.commands /\ db'.reservations = d.reservations
        /\ db'.approvals = d.approvals /\ db'.history = db.history
    BY <1>6, <1>7
  <2> QED BY <1>1, <1>2, <1>5, <2>1, AuthorityKeeps DEF RecordsInv
<1> HIDE DEF d
<1>9. entry.from = db.aggregate.state /\ db.journal # << >>
  <2>1. l.revision \in Nat /\ db.aggregate \in Aggregates
    BY <1>1, <1>2, RecordFields DEF Aggregates
  <2>2. db.aggregate.revision \in Nat /\ entry.revision = l.revision + 1
    BY <2>1 DEF Aggregates, RecoveryEntry
  <2>3. l = db.aggregate
    <3> HIDE DEF entry
    <3> QED BY <1>2, <1>7, <2>1, <2>2
  <2>4. entry.from = l.state
    BY DEF RecoveryEntry
  <2>5. db.journal # << >>
    BY <1>1, <1>2, <2>3 DEF JournalInv
  <2> QED BY <2>3, <2>4, <2>5
<1>10. Grown
  <2> HIDE DEF entry
  <2> QED BY <1>1, <1>2, <1>3, <1>6, <1>7, <1>8, AdvanceGrows
<1>11. JournalInv' /\ r.command \in {db'.journal[i].command : i \in DOMAIN db'.journal}
  <2>1. TypeOK'
    BY ProtocolTypes
  <2>2. /\ db.journal # << >>
        /\ entry = RecoveryEntry(r, l)
        /\ l.state = "RECONCILIATION_REQUIRED"
        /\ db'.commands[r.command] # None
        /\ db'.commands[r.command].payload = Payload(r, l)
    BY <1>2, <1>8, <1>9
  <2>3. entry.command = r.command
    BY DEF RecoveryEntry
  <2> HIDE DEF entry
  <2>4. \E q \in Requests, m \in Aggregates :
            /\ db.journal # << >>
            /\ entry = RecoveryEntry(q, m)
            /\ m.state = "RECONCILIATION_REQUIRED"
            /\ db'.commands[q.command] # None
            /\ db'.commands[q.command].payload = Payload(q, m)
    BY <1>2, <2>2
  <2> QED BY <1>1, <1>2, <1>3, <1>7, <1>8, <1>9, <2>1, <2>3, <2>4, JournalExtends
<1>12. MigrationsInOrder' /\ HistoryInv'
  BY <1>1, <1>6, <1>7 DEF RecordsInv, MigrationsInOrder, HistoryInv
<1>13. RecordsInv'
  BY <1>8, <1>11, <1>12 DEF RecordsInv
<1>14. /\ HistoryRecord(r, l) \in db'.history
       /\ \E i \in DOMAIN db'.journal : db'.journal[i].command = r.command
  BY <1>2, <1>6, <1>7, <1>11
<1> HIDE DEF entry, answers
<1> QED BY <1>2, <1>10, <1>13, <1>14, CommitKeeps

-----------------------------------------------------------------------------
(***************************************************************************)
(* The theorems.                                                           *)
(***************************************************************************)
LEMMA CommitKeepsAll ==
  ASSUME IInv, NEW w \in Workers, Commit(w)
  PROVE  IInv'
<1>1. unit[w] \in Units
  BY CommitFrame
<1> QED BY <1>1, RequireKeeps, HistoryKeeps, PrepareKeeps, ExecuteKeeps DEF Units

LEMMA StutterKeeps == ASSUME IInv, UNCHANGED vars PROVE IInv'
<1>1. TypeOK /\ RecordsInv
  BY DEF IInv
<1>2. TypeOK'
  BY <1>1 DEF TypeOK, vars
<1>3. RecordsInv' /\ Grown
  BY <1>1, RecordsKept, UnchangedGrown DEF vars
<1>4. ASSUME NEW v \in Workers PROVE StartInv(v)' /\ WorkInv(v)' /\ AnswerInv(v)'
  <2>1. Same(v)
    BY DEF vars, Same
  <2>2. StartInv(v) /\ WorkInv(v) /\ AnswerInv(v)
    BY DEF IInv
  <2> QED BY <1>1, <1>2, <1>3, <2>1, <2>2, StartKept, WorkKept, AnswerKept
<1> QED BY <1>2, <1>3, <1>4 DEF IInv

LEMMA NextKeeps == IInv /\ [Next]_vars => IInv'
<1> SUFFICES ASSUME IInv, [Next]_vars PROVE IInv'
  OBVIOUS
<1>1. ASSUME NEW w \in Workers,
             \/ Start(w) \/ BeginMigration(w) \/ MigrationRefused(w)
             \/ MigrationFails(w) \/ Reinspect(w) \/ ValidateSchema(w) \/ CheckRecords(w)
      PROVE  IInv'
  BY <1>1, StartKeeps
<1>2. ASSUME NEW w \in Workers,
             Discover(w) \/ BeginUnit(w) \/ Refuse(w) \/ RollBack(w) \/ Report(w)
      PROVE  IInv'
  BY <1>2, QuietKeeps
<1>3. ASSUME NEW w \in Workers, ApplyMigration(w) \/ Stop(w) \/ Commit(w)
      PROVE  IInv'
  BY <1>3, ApplyKeeps, StopKeeps, CommitKeepsAll
<1> QED BY <1>1, <1>2, <1>3, StutterKeeps, Zenon DEF Next

\* The invariant behind the theorems below: the records are of commands that
\* were built, the journal is a chain of them under authority that has not been
\* spent, and each process loaded what the database held at its begin.
THEOREM InductiveInvariant == Spec => []IInv
BY InitInv, NextKeeps, PTL DEF Spec

\* The type invariant holds in every state: a process holds the write
\* transaction exactly while it migrates or has a transaction open, and what
\* it loaded lives as long as its work.
THEOREM Typing == Spec => []TypeOK
<1>1. IInv => TypeOK
  BY DEF IInv
<1> QED BY <1>1, InductiveInvariant, PTL

\* No start is ever refused: whatever was prepared, executed, interrupted or
\* migrated by whom, schema validation and the integrity check of the durable
\* records pass, and the migrations on record are the first ones, in order.
THEOREM StartsAlwaysPass == Spec => []StartsPass
<1>1. IInv => StartsPass
  <2> SUFFICES ASSUME IInv PROVE StartsPass
    OBVIOUS
  <2>1. \A w \in Workers : run[w] # "refused"
    BY DEF IInv, StartInv
  <2>2. MigrationsInOrder /\ db \in Records
    BY DEF IInv, RecordsInv, TypeOK
  <2>3. IsPrefix(db.migrations, KnownMigrations)
    <3>1. /\ Len(db.migrations) <= Len(KnownMigrations)
          /\ \A i \in DOMAIN db.migrations : db.migrations[i] = KnownMigrations[i]
      BY <2>2 DEF MigrationsInOrder, LastVersion
    <3>2. DOMAIN db.migrations = 1 .. Len(db.migrations)
      BY <2>2, RecordFields
    <3> QED BY <3>1, <3>2, SMT DEF IsPrefix
  <2> QED BY <2>1, <2>3 DEF StartsPass
<1> QED BY <1>1, InductiveInvariant, PTL

\* Every advance of an execution is owned: the aggregate is where its journal
\* ends, the journal is a chain without gap, and what an operator advanced is by
\* a durable command bound to the very revision it advanced.
THEOREM RecoveryOwned == Spec => []RecoveryIsOwned
<1>1. IInv => RecoveryIsOwned
  BY DEF IInv, RecordsInv, JournalInv
<1> QED BY <1>1, InductiveInvariant, PTL

\* A set with no two members is empty or holds one.
LEMMA AtMostOne ==
  ASSUME NEW S, \A x, y \in S : x = y
  PROVE  /\ Cardinality(S) <= 1
         /\ S # {} => Cardinality(S) = 1
<1>1. CASE S = {}
  BY <1>1, FS_EmptySet
<1>2. ASSUME NEW x \in S PROVE Cardinality(S) = 1
  <2>1. S = {x}
    BY <1>2
  <2> QED BY <2>1, FS_Singleton
<1> QED BY <1>1, <1>2

\* What an operator was told stays true: a recovery reported as saved, stale or
\* terminal is in the journal under its command, once; conflicts and aborts name
\* a durable rival; and one command at most has resolved the execution.
THEOREM AnswersStayTrue == Spec => []AnswersHold
<1>1. IInv => AnswersHold
  <2> SUFFICES ASSUME IInv PROVE AnswersHold
    OBVIOUS
  <2>1. JournalInv /\ TypeOK /\ \A w \in Workers : AnswerInv(w)
    BY DEF IInv, RecordsInv
  <2>2. \A i, j \in DOMAIN db.journal :
            db.journal[i].record = db.journal[j].record \/ db.journal[i].row = db.journal[j].row
                => i = j
    BY <2>1, Zenon DEF JournalInv
  <2>3. \A i \in DOMAIN db.journal : db.journal[i].record = db.journal[i].command
    BY <2>1 DEF JournalInv, AsksForReconciliation, Recovers
  <2>4. ASSUME NEW command, AppliedBy(command) # {}
        PROVE  Cardinality(AppliedBy(command)) = 1
    <3>1. \A i, j \in AppliedBy(command) : i = j
      BY <2>2, <2>3 DEF AppliedBy
    <3> DEFINE S == AppliedBy(command)
    <3> HIDE DEF S
    <3> QED BY <2>4, <3>1, AtMostOne, Zenon DEF S
  <2>5. Cardinality({i \in DOMAIN db.journal : db.journal[i].row = "PX-TRN-027"}) <= 1
    <3> DEFINE S == {k \in DOMAIN db.journal : db.journal[k].row = "PX-TRN-027"}
    <3>1. \A i, j \in S : i = j
      BY <2>2
    <3> HIDE DEF S
    <3>2. Cardinality(S) <= 1
      BY <3>1, AtMostOne
    <3> QED BY <3>2 DEF S
  <2> QED BY <2>1, <2>4, <2>5, Zenon DEF AnswersHold, AnswerInv
<1> QED BY <1>1, InductiveInvariant, PTL

=============================================================================
