---------------------- MODULE TransactionalIntakeProofs ----------------------
(***************************************************************************)
(* Type correctness and the safety of intake, dispatch claims and control  *)
(* under both adapters, for any number of callers, requests and attempts.  *)
(***************************************************************************)
EXTENDS TransactionalIntake, FiniteSetTheorems, SequenceTheorems, TLAPS

(***************************************************************************)
(* The collections, the rows and the kinds of units.                       *)
(***************************************************************************)

LEMMA FieldNames ==
  Range(Fields) = {"aggregates", "commands", "reservations", "journal", "approvals",
                   "control", "claims", "authorizations", "resolutions"}
BY SMT DEF Fields, Range

\* What comes before a collection in the order of publication.
LEMMA FieldOrder ==
  ASSUME NEW missing, NEW f, IsNext(f, missing)
  PROVE  /\ f \in Range(Fields)
         /\ f = "journal" => "aggregates" \notin missing
         /\ f = "claims" => /\ "commands" \notin missing
                            /\ "reservations" \notin missing
         /\ f = "authorizations" => "claims" \notin missing
         /\ f = "resolutions" => "authorizations" \notin missing
<1>1. PICK i \in 1 .. 9 : Fields[i] = f /\ \A n \in 1 .. (i - 1) : Fields[n] \notin missing
  BY DEF IsNext, Fields
<1>2. /\ Fields[1] = "aggregates" /\ Fields[2] = "commands" /\ Fields[3] = "reservations"
      /\ Fields[4] = "journal" /\ Fields[5] = "approvals" /\ Fields[6] = "control"
      /\ Fields[7] = "claims" /\ Fields[8] = "authorizations" /\ Fields[9] = "resolutions"
  BY DEF Fields
<1>3. f \in Range(Fields)
  BY <1>1, <1>2, FieldNames
<1>4. CASE f = "journal"
  <2>1. i = 4
    BY <1>1, <1>2, <1>4
  <2> QED BY <1>1, <1>2, <1>3, <1>4, <2>1
<1>5. CASE f = "claims"
  <2>1. i = 7
    BY <1>1, <1>2, <1>5
  <2> QED BY <1>1, <1>2, <1>3, <1>5, <2>1
<1>6. CASE f = "authorizations"
  <2>1. i = 8
    BY <1>1, <1>2, <1>6
  <2> QED BY <1>1, <1>2, <1>3, <1>6, <2>1
<1>7. CASE f = "resolutions"
  <2>1. i = 9
    BY <1>1, <1>2, <1>7
  <2> QED BY <1>1, <1>2, <1>3, <1>7, <2>1
<1> QED BY <1>3, <1>4, <1>5, <1>6, <1>7

LEMMA NothingFields ==
  /\ DOMAIN Nothing = Range(Fields)
  /\ \A f \in Range(Fields) : Nothing[f] = None
BY DEF Nothing

LEMMA ReadsOf ==
  /\ Reads("intake") = {"aggregates", "commands", "reservations", "journal", "approvals"}
  /\ Reads("control") = {"control"}
  /\ Reads("claim") = {"aggregates", "commands", "reservations", "approvals",
                       "control", "claims"}
  /\ Reads("authorize") = Range(Fields) \ {"journal", "resolutions"}
  /\ Reads("outcome") = Range(Fields)
BY Zenon DEF Reads

LEMMA ReadFields ==
  ASSUME NEW kind \in UnitKinds
  PROVE  Reads(kind) \subseteq Range(Fields)
BY ReadsOf, FieldNames DEF UnitKinds

LEMMA RefusalOf ==
  ASSUME NEW v, NEW j
  PROVE  /\ Refusal("intake", v, j) = IntakeRefusal(v, j.request)
         /\ Refusal("control", v, j) = None
         /\ Refusal("claim", v, j) = ClaimRefusal(v, j)
         /\ Refusal("authorize", v, j) = AuthorizationRefusal(v, j)
         /\ Refusal("outcome", v, j) = OutcomeRefusal(v, j)
BY Zenon DEF Refusal

LEMMA WritesOf ==
  ASSUME NEW v, NEW j
  PROVE  /\ Writes("intake", v, j) = IntakeWrites(v, j.request)
         /\ Writes("control", v, j) =
                [Nothing EXCEPT !.control = ControlRecord(v.control.generation + 1, j.permits)]
         /\ Writes("claim", v, j) = [Nothing EXCEPT !.claims = ClaimOf(v, j)]
         /\ Writes("authorize", v, j) = [Nothing EXCEPT !.authorizations = OwnClaim(v, j)]
         /\ Writes("outcome", v, j) = OutcomeWrites(v, j)
BY Zenon DEF Writes

LEMMA RefusedCommitOf ==
  /\ RefusedCommit("intake") = "TRANSACTION_ABORTED"
  /\ RefusedCommit("control") = "STALE_REVISION"
  /\ RefusedCommit("claim") = "BLOCKED"
  /\ RefusedCommit("authorize") = "BLOCKED"
  /\ RefusedCommit("outcome") = "UNRECORDED"
BY Zenon DEF RefusedCommit

LEMMA CommittedAnswerOf ==
  /\ CommittedAnswer("intake") = "ACCEPTED_FOR_DISPATCH"
  /\ CommittedAnswer("control") = "SAVED"
  /\ CommittedAnswer("outcome") = "RECORDED"
BY Zenon DEF CommittedAnswer

\* A job is of one of three kinds, and does the units of its kind.
LEMMA JobKinds ==
  ASSUME NEW j \in Jobs
  PROVE  /\ j.kind \in {"intake", "dispatch", "control"}
         /\ j.kind = "intake" => j.request \in Requests
         /\ j.kind = "control" => j.permits \in BOOLEAN
         /\ j.kind = "dispatch" =>
                /\ j.command \in Commands /\ j.key \in Keys
                /\ j.submission \in {a.submission : a \in Attempts}
         /\ Units(j) \subseteq UnitKinds
         /\ FirstUnit(j) \in Units(j)
         /\ FirstUnit(j) \notin {"authorize", "outcome"}
         /\ \A kind \in Units(j) :
                /\ kind \in {"intake", "control"} => j.kind = kind
                /\ kind \in {"claim", "authorize", "outcome"} => j.kind = "dispatch"
<1>1. \/ j \in [kind : {"intake"}, request : Requests]
      \/ \E a \in Attempts : j = [kind |-> "dispatch", command |-> a.command, key |-> a.key,
                                  submission |-> a.submission]
      \/ j \in [kind : {"control"}, permits : BOOLEAN]
  BY DEF Jobs
<1>2. \A a \in Attempts : a.command \in Commands /\ a.key \in Keys
  BY IntakeAssumption DEF Commands, Keys
<1>3. CASE j \in [kind : {"intake"}, request : Requests]
  BY <1>3 DEF Units, UnitKinds, FirstUnit
<1>4. CASE \E a \in Attempts : j = [kind |-> "dispatch", command |-> a.command, key |-> a.key,
                                    submission |-> a.submission]
  <2>1. PICK a \in Attempts : j = [kind |-> "dispatch", command |-> a.command, key |-> a.key,
                                   submission |-> a.submission]
    BY <1>4
  <2> QED BY <1>2, <2>1 DEF Units, UnitKinds, FirstUnit
<1>5. CASE j \in [kind : {"control"}, permits : BOOLEAN]
  BY <1>5 DEF Units, UnitKinds, FirstUnit
<1> QED BY <1>1, <1>3, <1>4, <1>5

(***************************************************************************)
(* The records.                                                            *)
(***************************************************************************)

LEMMA RequestFields ==
  ASSUME NEW r \in Requests
  PROVE  /\ r.command \in Commands /\ r.key \in Keys /\ r.aggregate \in Aggregates
         /\ r.approval \in Approvals /\ r.payload \in Payloads /\ r.payload # None
BY NoneAssumption DEF Commands, Keys, Aggregates, Approvals, Payloads

LEMMA RequestRecords ==
  ASSUME NEW r \in Requests
  PROVE  /\ CommandRecord(r) \in CommandRecords
         /\ CommandRecord(r) # None
         /\ ReservationRecord(r) \in ReservationRecords
         /\ ReservationRecord(r) # None
         /\ ApprovalRecord(r) = r.payload
BY RequestFields, NoneAssumption
   DEF CommandRecord, CommandRecords, ReservationRecord, ReservationRecords, ApprovalRecord

LEMMA StoreFields ==
  ASSUME NEW s \in Stores
  PROVE  /\ s.aggregates \in [Aggregates -> AggregateRecords \cup {None}]
         /\ s.commands \in [Commands -> CommandRecords \cup {None}]
         /\ s.reservations \in [Keys -> ReservationRecords \cup {None}]
         /\ s.journal \in [Aggregates -> Seq(EntryRecords)]
         /\ s.approvals \in [Approvals -> Payloads \cup {None}]
         /\ s.control \in ControlRecords
         /\ s.claims \in SUBSET Claims
         /\ s.authorizations \in SUBSET Claims
         /\ s.resolutions \in SUBSET Claims
         /\ DOMAIN s = Range(Fields)
         /\ \A f \in Range(Fields) : s[f] \in Collections[f]
BY FieldNames DEF Stores, Collections

LEMMA StoreReplaced ==
  ASSUME NEW s \in Stores, NEW t \in Stores, NEW f \in Range(Fields)
  PROVE  /\ [s EXCEPT ![f] = t[f]] \in Stores
         /\ \A g \in Range(Fields) :
                [s EXCEPT ![f] = t[f]][g] = IF g = f THEN t[g] ELSE s[g]
BY FieldNames DEF Stores, Collections

LEMMA ClaimFields ==
  ASSUME NEW claim \in Claims
  PROVE  /\ claim.command \in Commands /\ claim.key \in Keys /\ claim.aggregate \in Aggregates
         /\ claim.payload \in Payloads /\ claim.approval \in Approvals
         /\ claim.revision \in Nat /\ claim.generation \in Nat
         /\ claim # None /\ claim.payload # None
BY NoneAssumption DEF Claims

\* Five entries and then two.
LEMMA FiveAndTwo ==
  ASSUME NEW S, NEW x \in Seq(S), NEW y \in Seq(S), Len(x) = 5, Len(y) = 2
  PROVE  /\ x \o y \in Seq(S)
         /\ Len(x \o y) = 7
         /\ \A i \in 1 .. 7 : (x \o y)[i] = IF i <= 5 THEN x[i] ELSE y[i - 5]
<1>1. /\ x \o y \in Seq(S)
      /\ Len(x \o y) = Len(x) + Len(y)
      /\ \A i \in 1 .. Len(x) + Len(y) : (x \o y)[i] =
             IF i <= Len(x) THEN x[i] ELSE y[i - Len(x)]
  BY ConcatProperties, Zenon
<1>2. Len(x) + Len(y) = 7
  OBVIOUS
<1> QED BY <1>1, <1>2, Zenon

\* The entries of a chain of rows, by one command.
LEMMA ChainEntries ==
  ASSUME NEW m \in Commands
  PROVE  /\ Entries(InitialChain, m) \in Seq(EntryRecords)
         /\ Entries(OutcomeChain, m) \in Seq(EntryRecords)
         /\ Len(Entries(InitialChain, m)) = 5
         /\ Len(Entries(OutcomeChain, m)) = 2
         /\ Len(Entries(InitialChain \o OutcomeChain, m)) = 7
         /\ << >> \o Entries(InitialChain, m) = Entries(InitialChain, m)
         /\ Entries(InitialChain, m) \o Entries(OutcomeChain, m)
                = Entries(InitialChain \o OutcomeChain, m)
<1> DEFINE Rows == Range(InitialChain) \cup Range(OutcomeChain)
           I == Entries(InitialChain, m)
           O == Entries(OutcomeChain, m)
           B == Entries(InitialChain \o OutcomeChain, m)
<1>1. /\ InitialChain \in Seq(Rows) /\ Len(InitialChain) = 5
      /\ OutcomeChain \in Seq(Rows) /\ Len(OutcomeChain) = 2
  <2>1. /\ Len(InitialChain) = 5 /\ DOMAIN InitialChain = 1 .. 5
        /\ Len(OutcomeChain) = 2 /\ DOMAIN OutcomeChain = 1 .. 2
    BY DEF InitialChain, OutcomeChain
  <2>2. InitialChain \in Seq({"PX-TRN-002", "PX-TRN-005", "PX-TRN-006", "PX-TRN-007", "PX-TRN-008"})
    BY DEF InitialChain
  <2>3. OutcomeChain \in Seq({"PX-TRN-009", "PX-TRN-010"})
    BY DEF OutcomeChain
  <2>4. /\ {"PX-TRN-002", "PX-TRN-005", "PX-TRN-006", "PX-TRN-007", "PX-TRN-008"}
               \subseteq Range(InitialChain)
        /\ {"PX-TRN-009", "PX-TRN-010"} \subseteq Range(OutcomeChain)
    BY DEF InitialChain, OutcomeChain, Range
  <2> QED BY <2>1, <2>2, <2>3, <2>4
<1>2. /\ \A i \in 1 .. 5 : InitialChain[i] \in Rows
      /\ \A i \in 1 .. 2 : OutcomeChain[i] \in Rows
  BY <1>1, ElementOfSeq
<1> HIDE DEF Rows
<1>3. /\ InitialChain \o OutcomeChain \in Seq(Rows)
      /\ Len(InitialChain \o OutcomeChain) = 7
      /\ \A i \in 1 .. 7 : (InitialChain \o OutcomeChain)[i] =
             IF i <= 5 THEN InitialChain[i] ELSE OutcomeChain[i - 5]
  BY <1>1, FiveAndTwo
<1>4. \A i \in 1 .. 7 : (InitialChain \o OutcomeChain)[i] \in Rows
  BY <1>3, ElementOfSeq
<1>5. /\ I = [i \in 1 .. 5 |-> [row |-> InitialChain[i], command |-> m]]
      /\ O = [i \in 1 .. 2 |-> [row |-> OutcomeChain[i], command |-> m]]
      /\ B = [i \in 1 .. 7 |-> [row |-> (InitialChain \o OutcomeChain)[i], command |-> m]]
  BY <1>1, <1>3 DEF Entries
<1> HIDE DEF I, O, B
<1>6. /\ I \in [1 .. 5 -> EntryRecords]
      /\ O \in [1 .. 2 -> EntryRecords]
      /\ B \in [1 .. 7 -> EntryRecords]
  BY <1>2, <1>4, <1>5 DEF EntryRecords, Rows
<1>7. /\ I \in Seq(EntryRecords) /\ Len(I) = 5
      /\ O \in Seq(EntryRecords) /\ Len(O) = 2
      /\ B \in Seq(EntryRecords) /\ Len(B) = 7
  <2>1. I \in Seq(EntryRecords) /\ O \in Seq(EntryRecords) /\ B \in Seq(EntryRecords)
    <3>1. \A n \in Nat : [1 .. n -> EntryRecords] \subseteq Seq(EntryRecords)
      OBVIOUS
    <3>2. 5 \in Nat /\ 2 \in Nat /\ 7 \in Nat
      OBVIOUS
    <3> QED BY <1>6, <3>1, <3>2
  <2>2. DOMAIN I = 1 .. 5 /\ DOMAIN O = 1 .. 2 /\ DOMAIN B = 1 .. 7
    BY <1>6
  <2>3. /\ Len(I) \in Nat /\ DOMAIN I = 1 .. Len(I)
        /\ Len(O) \in Nat /\ DOMAIN O = 1 .. Len(O)
        /\ Len(B) \in Nat /\ DOMAIN B = 1 .. Len(B)
    BY <2>1, LenProperties, Zenon
  <2> QED BY <2>1, <2>2, <2>3
<1>8. /\ I \o O \in Seq(EntryRecords) /\ Len(I \o O) = 7
      /\ \A i \in 1 .. 7 : (I \o O)[i] = IF i <= 5 THEN I[i] ELSE O[i - 5]
  BY <1>7, FiveAndTwo
<1>9. \A i \in 1 .. 7 : (I \o O)[i] = B[i]
  <2> SUFFICES ASSUME NEW i \in 1 .. 7 PROVE (I \o O)[i] = B[i]
    OBVIOUS
  <2>1. CASE i <= 5
    BY <1>3, <1>5, <1>8, <2>1
  <2>2. CASE i > 5
    <3>1. i - 5 \in 1 .. 2 /\ ~ (i <= 5)
      BY <2>2
    <3>2. (InitialChain \o OutcomeChain)[i] = OutcomeChain[i - 5] /\ (I \o O)[i] = O[i - 5]
      BY <1>3, <1>8, <3>1, Zenon
    <3>3. B[i] = [row |-> (InitialChain \o OutcomeChain)[i], command |-> m]
      BY <1>5, Zenon
    <3>4. O[i - 5] = [row |-> OutcomeChain[i - 5], command |-> m]
      BY <1>5, <3>1, Zenon
    <3>5. (I \o O)[i] = O[i - 5] /\ B[i] = O[i - 5]
      BY <3>2, <3>3, <3>4, Zenon
    <3> QED BY <3>5
  <2>3. i <= 5 \/ i > 5
    OBVIOUS
  <2> QED BY <2>1, <2>2, <2>3, Zenon
<1>10. I \o O = B
  BY <1>7, <1>8, <1>9, SeqEqual
<1>11. << >> \o I = I
  BY <1>7, ConcatEmptySeq
<1> QED BY <1>7, <1>10, <1>11 DEF I, O, B

(***************************************************************************)
(* The shared records only grow.                                           *)
(***************************************************************************)

LEMMA GrowsReflexive ==
  ASSUME NEW s
  PROVE  Grows(s, s)
BY DEF Grows, AggregatesGrow, RecordsGrow, JournalGrows

LEMMA GrowsTransitive ==
  ASSUME NEW s \in Stores, NEW t \in Stores, NEW u \in Stores, Grows(s, t), Grows(t, u)
  PROVE  Grows(s, u)
<1>1. /\ DOMAIN s.commands = Commands /\ DOMAIN t.commands = Commands
      /\ DOMAIN s.reservations = Keys /\ DOMAIN t.reservations = Keys
      /\ DOMAIN s.approvals = Approvals /\ DOMAIN t.approvals = Approvals
  BY StoreFields
<1>2. AggregatesGrow(s.aggregates, u.aggregates)
  BY DEF Grows, AggregatesGrow
<1>3. RecordsGrow(s.commands, u.commands) /\ RecordsGrow(s.reservations, u.reservations)
      /\ RecordsGrow(s.approvals, u.approvals)
  BY <1>1 DEF Grows, RecordsGrow
<1>4. JournalGrows(s.journal, u.journal)
  BY DEF Grows, JournalGrows
<1> QED BY <1>2, <1>3, <1>4 DEF Grows

\* A copy that was true stays true.
LEMMA CopyStays ==
  ASSUME NEW s \in Stores, NEW t \in Stores, Grows(s, t),
         NEW f \in Range(Fields), NEW x, IsCopy(f, x, s)
  PROVE  IsCopy(f, x, t)
<1>1. x \in Collections[f]
  BY DEF IsCopy
<1>2. CASE f = "aggregates"
  BY <1>1, <1>2 DEF IsCopy, Grows, AggregatesGrow
<1>3. CASE f = "journal"
  BY <1>1, <1>3 DEF IsCopy, Grows, JournalGrows
<1>4. CASE f \in {"commands", "reservations", "approvals"}
  <2>1. DOMAIN x = DOMAIN s[f]
    BY <1>1, <1>4, StoreFields DEF Collections
  <2>2. RecordsGrow(x, s[f]) /\ RecordsGrow(s[f], t[f])
    BY <1>4 DEF IsCopy, Grows
  <2>3. RecordsGrow(x, t[f])
    BY <2>1, <2>2 DEF RecordsGrow
  <2> QED BY <1>1, <1>4, <2>3 DEF IsCopy
<1>5. CASE f = "claims"
  BY <1>1, <1>5 DEF IsCopy, Grows
<1>6. CASE f \in {"control", "authorizations", "resolutions"}
  BY <1>1, <1>6 DEF IsCopy
<1> QED BY <1>2, <1>3, <1>4, <1>5, <1>6, FieldNames

LEMMA CopyOfStore ==
  ASSUME NEW s \in Stores, NEW f \in Range(Fields)
  PROVE  IsCopy(f, s[f], s)
<1>1. s[f] \in Collections[f]
  BY StoreFields
<1> QED BY <1>1 DEF IsCopy, AggregatesGrow, RecordsGrow, JournalGrows

LEMMA OwnershipStays ==
  ASSUME NEW x, NEW y, x \subseteq y, NEW j, Owns(x, j)
  PROVE  Owns(y, j)
BY DEF Owns

LEMMA StagedStays ==
  ASSUME NEW s \in Stores, NEW t \in Stores, Grows(s, t),
         NEW kind, NEW j, NEW w, kind = "intake" => j.request \in Requests,
         IsStaged(kind, j, w, s)
  PROVE  IsStaged(kind, j, w, t)
<1>1. s.claims \subseteq t.claims
  BY DEF Grows
<1>2. ASSUME NEW r \in Requests, s.approvals[r.approval] = r.payload
      PROVE  t.approvals[r.approval] = r.payload
  <2>1. r.approval \in DOMAIN s.approvals /\ r.payload # None
    BY RequestFields, StoreFields
  <2> QED BY <1>2, <2>1 DEF Grows, RecordsGrow
<1> QED BY <1>1, <1>2 DEF IsStaged

\* What an intake was told stays true.
LEMMA AnswerStays ==
  ASSUME NEW c \in Callers, store \in Stores, store' \in Stores, Grows(store, store'),
         job'[c] = job[c], answer'[c] = answer[c], job[c].request \in Requests,
         IntakeAnswerHolds(c)
  PROVE  IntakeAnswerHolds(c)'
<1> DEFINE r == job[c].request
<1>1. /\ r.command \in Commands /\ r.key \in Keys /\ r.aggregate \in Aggregates
      /\ r.approval \in Approvals
  BY RequestFields
<1>2. /\ DOMAIN store.commands = Commands
      /\ DOMAIN store.reservations = Keys
      /\ DOMAIN store.approvals = Approvals
  BY StoreFields
<1>3. store.commands[r.command] # None => store'.commands[r.command] = store.commands[r.command]
  BY <1>1, <1>2 DEF Grows, RecordsGrow
<1>4. store.reservations[r.key] # None =>
          store'.reservations[r.key] = store.reservations[r.key]
  BY <1>1, <1>2 DEF Grows, RecordsGrow
<1>5. store.approvals[r.approval] # None =>
          store'.approvals[r.approval] = store.approvals[r.approval]
  BY <1>1, <1>2 DEF Grows, RecordsGrow
<1>6. store.aggregates[r.aggregate] # None =>
          /\ store'.aggregates[r.aggregate] # None
          /\ store'.aggregates[r.aggregate].command = store.aggregates[r.aggregate].command
  BY <1>1 DEF Grows, AggregatesGrow
<1> QED BY <1>3, <1>4, <1>5, <1>6 DEF IntakeAnswerHolds

(***************************************************************************)
(* A commit without conflict leads from settled records to settled records, *)
(* unit by unit.                                                           *)
(***************************************************************************)

LEMMA SettledFacts ==
  ASSUME NEW s, Settled(s)
  PROVE  /\ s \in Stores /\ Coherent(s) /\ Whole(s)
         /\ \A a \in Aggregates :
                s.aggregates[a] # None =>
                    /\ s.aggregates[a].command \in Commands
                    /\ s.commands[s.aggregates[a].command] # None
                    /\ s.commands[s.aggregates[a].command].aggregate = a
         /\ \A a \in Aggregates : s.aggregates[a] = None => s.journal[a] = << >>
         /\ \A m \in Commands :
                s.commands[m] # None =>
                    /\ s.commands[m].aggregate \in Aggregates
                    /\ s.aggregates[s.commands[m].aggregate] # None
                    /\ s.aggregates[s.commands[m].aggregate].command = m
                    /\ s.commands[m].key \in Keys
                    /\ s.reservations[s.commands[m].key] # None
         /\ \A claim \in s.claims :
                /\ claim \in Claims
                /\ s.aggregates[claim.aggregate] # None
                /\ s.aggregates[claim.aggregate].command = claim.command
<1>1. s \in Stores /\ Coherent(s) /\ Whole(s)
  BY DEF Settled, Coherent
<1>2. /\ \A a \in Aggregates : s.aggregates[a] \in AggregateRecords \cup {None}
      /\ \A m \in Commands : s.commands[m] \in CommandRecords \cup {None}
      /\ s.claims \subseteq Claims
  BY <1>1, StoreFields
<1>3. \A a \in Aggregates :
          s.aggregates[a] # None => s.aggregates[a].command \in Commands
  BY <1>2 DEF AggregateRecords
<1>4. \A m \in Commands :
          s.commands[m] # None =>
              s.commands[m].aggregate \in Aggregates /\ s.commands[m].key \in Keys
  BY <1>2 DEF CommandRecords
<1>5. \A claim \in s.claims :
          /\ claim.command \in Commands
          /\ s.commands[claim.command] # None
          /\ s.commands[claim.command].aggregate = claim.aggregate
  BY <1>1, <1>2, ClaimFields DEF Coherent
<1> QED BY <1>1, <1>2, <1>3, <1>4, <1>5 DEF Whole

\* What the commit of a unit makes of settled records s: records t that are
\* settled again, extend them, and hold what the caller is told.
Commits(kind, j, s, t) ==
    /\ Settled(t)
    /\ Grows(s, t)
    /\ t.control.generation = s.control.generation + (IF kind = "control" THEN 1 ELSE 0)
    /\ \A claim \in (t.authorizations \ s.authorizations) \cup (t.resolutions \ s.resolutions) :
           /\ t.control = s.control
           /\ s.control.permits
           /\ s.control.generation = claim.generation
    /\ kind = "claim" => Owns(t.claims, j)
    /\ kind = "intake" =>
           LET r == j.request IN
           /\ s.commands[r.command] = None
           /\ s.aggregates[r.aggregate] = None
           /\ t.commands[r.command] = CommandRecord(r)
           /\ t.aggregates[r.aggregate] # None
           /\ t.aggregates[r.aggregate].command = r.command

LEMMA ControlCommits ==
  ASSUME NEW s, Settled(s), NEW j, NEW w,
         IsStaged("control", j, w, s), Fits("control", j, w, s)
  PROVE  Commits("control", j, s, Applied(s, w))
<1> DEFINE t == Applied(s, w)
<1>1. s \in Stores /\ Coherent(s) /\ Whole(s)
  BY SettledFacts
<1>2. /\ w.control \in ControlRecords /\ w.control # None
      /\ w.control.generation = s.control.generation + 1
  BY NoneAssumption DEF IsStaged, Fits
<1>3. w = [Nothing EXCEPT !.control = w.control]
  BY DEF IsStaged
<1>4. /\ w.aggregates = None /\ w.commands = None /\ w.reservations = None
      /\ w.journal = None /\ w.approvals = None /\ w.claims = None
      /\ w.authorizations = None /\ w.resolutions = None
  BY <1>3, NothingFields, FieldNames
<1>5. /\ t.aggregates = s.aggregates /\ t.commands = s.commands
      /\ t.reservations = s.reservations /\ t.journal = s.journal
      /\ t.approvals = s.approvals /\ t.control = w.control /\ t.claims = s.claims
      /\ t.authorizations = s.authorizations /\ t.resolutions = s.resolutions
  BY <1>2, <1>4 DEF Applied, WithNew
<1>6. t \in Stores
  BY <1>1, <1>2, <1>4, StoreFields DEF Applied, WithNew, Stores, Collections
<1> HIDE DEF t
<1>7. s.control.generation \in Nat /\ t.control.generation >= 1
  BY <1>1, <1>2, <1>5, StoreFields DEF ControlRecords
<1>8. Coherent(t)
  BY <1>1, <1>5, <1>6, <1>7 DEF Coherent
<1>9. Whole(t)
  BY <1>1, <1>5 DEF Whole, Resolved
<1>10. Settled(t)
  BY <1>5, <1>8, <1>9 DEF Settled, Resolved
<1>11. Grows(s, t)
  BY <1>5, GrowsReflexive DEF Grows
<1> QED BY <1>2, <1>5, <1>10, <1>11 DEF Commits, t

LEMMA AuthorizationCommits ==
  ASSUME NEW s, Settled(s), NEW j, NEW w,
         IsStaged("authorize", j, w, s), Fits("authorize", j, w, s)
  PROVE  Commits("authorize", j, s, Applied(s, w))
<1> DEFINE t == Applied(s, w)
           x == w.authorizations
<1>1. s \in Stores /\ Coherent(s) /\ Whole(s)
  BY SettledFacts
<1>2. x \in s.claims /\ x \in Claims /\ x # None
  BY <1>1, StoreFields, NoneAssumption DEF IsStaged
<1>3. w = [Nothing EXCEPT !.authorizations = x]
  BY DEF IsStaged
<1>4. /\ w.aggregates = None /\ w.commands = None /\ w.reservations = None
      /\ w.journal = None /\ w.approvals = None /\ w.control = None /\ w.claims = None
      /\ w.resolutions = None
  BY <1>3, NothingFields, FieldNames
<1>5. /\ t.aggregates = s.aggregates /\ t.commands = s.commands
      /\ t.reservations = s.reservations /\ t.journal = s.journal
      /\ t.approvals = s.approvals /\ t.control = s.control /\ t.claims = s.claims
      /\ t.authorizations = s.authorizations \cup {x} /\ t.resolutions = s.resolutions
  BY <1>2, <1>4 DEF Applied, WithNew
<1>6. t \in Stores
  <2>1. t = [aggregates |-> s.aggregates, commands |-> s.commands,
             reservations |-> s.reservations, journal |-> s.journal,
             approvals |-> s.approvals, control |-> s.control, claims |-> s.claims,
             authorizations |-> s.authorizations \cup {x}, resolutions |-> s.resolutions]
    BY <1>2, <1>4 DEF Applied, WithNew
  <2>2. s.authorizations \cup {x} \in SUBSET Claims
    BY <1>1, <1>2, StoreFields
  <2> QED BY <1>1, <2>1, <2>2, StoreFields DEF Stores, Collections
<1> HIDE DEF t
<1>7. Coherent(t)
  BY <1>1, <1>2, <1>5, <1>6 DEF Coherent
<1>8. Whole(t)
  BY <1>1, <1>5 DEF Whole, Resolved
<1>9. Settled(t)
  BY <1>5, <1>7, <1>8 DEF Settled, Resolved
<1>10. Grows(s, t)
  BY <1>5, GrowsReflexive DEF Grows
<1>11. /\ s.control.permits /\ s.control.generation = x.generation
       /\ s.control.generation \in Nat
  BY <1>1, StoreFields DEF Fits, ValidLatestClaim, ControlRecords
<1> QED BY <1>5, <1>9, <1>10, <1>11 DEF Commits, t

LEMMA ClaimCommits ==
  ASSUME NEW s, Settled(s), NEW j, NEW w,
         IsStaged("claim", j, w, s), Fits("claim", j, w, s)
  PROVE  Commits("claim", j, s, Applied(s, w))
<1> DEFINE t == Applied(s, w)
           x == w.claims
<1>1. s \in Stores /\ Coherent(s) /\ Whole(s)
  BY SettledFacts
<1>2. x \in Claims /\ x # None /\ Owns({x}, j)
  BY NoneAssumption DEF IsStaged
<1>3. w = [Nothing EXCEPT !.claims = x]
  BY DEF IsStaged
<1>4. /\ w.aggregates = None /\ w.commands = None /\ w.reservations = None
      /\ w.journal = None /\ w.approvals = None /\ w.control = None
      /\ w.authorizations = None /\ w.resolutions = None
  BY <1>3, NothingFields, FieldNames
<1>5. /\ t.aggregates = s.aggregates /\ t.commands = s.commands
      /\ t.reservations = s.reservations /\ t.journal = s.journal
      /\ t.approvals = s.approvals /\ t.control = s.control
      /\ t.claims = s.claims \cup {x}
      /\ t.authorizations = s.authorizations /\ t.resolutions = s.resolutions
  BY <1>2, <1>4 DEF Applied, WithNew
<1>6. t \in Stores
  <2>1. t = [aggregates |-> s.aggregates, commands |-> s.commands,
             reservations |-> s.reservations, journal |-> s.journal,
             approvals |-> s.approvals, control |-> s.control, claims |-> s.claims \cup {x},
             authorizations |-> s.authorizations, resolutions |-> s.resolutions]
    BY <1>2, <1>4 DEF Applied, WithNew
  <2>2. s.claims \cup {x} \in SUBSET Claims
    BY <1>1, <1>2, StoreFields
  <2> QED BY <1>1, <2>1, <2>2, StoreFields DEF Stores, Collections
<1> HIDE DEF t
<1>7. /\ s.commands[x.command] # None
      /\ s.commands[x.command].aggregate = x.aggregate
      /\ s.reservations[x.key] # None
      /\ s.reservations[x.key].command = x.command
      /\ s.reservations[x.key].aggregate = x.aggregate
      /\ s.aggregates[x.aggregate].state = "DISPATCH_PENDING"
      /\ s.aggregates[x.aggregate].revision = x.revision
  BY DEF Fits, ValidLatestClaim
<1>8. \A y \in s.claims : ~ SameAuthority(y, x) /\ ~ SameAuthority(x, y)
  BY DEF Fits, SameAuthority
<1>9. Coherent(t)
  <2>1. \A claim \in t.claims :
            /\ t.commands[claim.command] # None
            /\ t.commands[claim.command].aggregate = claim.aggregate
            /\ t.reservations[claim.key] # None
            /\ t.reservations[claim.key].command = claim.command
            /\ t.reservations[claim.key].aggregate = claim.aggregate
    BY <1>1, <1>5, <1>7 DEF Coherent
  <2>2. \A y, z \in t.claims : y # z => ~ SameAuthority(y, z)
    BY <1>1, <1>5, <1>8 DEF Coherent
  <2> QED BY <1>1, <1>5, <1>6, <2>1, <2>2 DEF Coherent
<1>10. Whole(t)
  BY <1>1, <1>5 DEF Whole, Resolved
<1>11. Settled(t)
  <2>1. \A claim \in t.claims \ t.resolutions :
            /\ t.aggregates[claim.aggregate].state = "DISPATCH_PENDING"
            /\ t.aggregates[claim.aggregate].revision = claim.revision
    BY <1>5, <1>7 DEF Settled
  <2> QED BY <1>5, <1>9, <1>10, <2>1 DEF Settled, Resolved
<1>12. Grows(s, t)
  BY <1>5, GrowsReflexive DEF Grows
<1>13. s.control.generation \in Nat
  BY <1>1, StoreFields DEF ControlRecords
<1>14. Owns(t.claims, j)
  BY <1>2, <1>5 DEF Owns
<1> QED BY <1>5, <1>11, <1>12, <1>13, <1>14 DEF Commits, t

\* What an intake stages is something.
LEMMA RequestWrites ==
  ASSUME NEW r \in Requests
  PROVE  /\ [id |-> r.aggregate, over |-> None,
             record |-> AggregateRecord("DISPATCH_PENDING", 5, r.command)] # None
         /\ [id |-> r.command, record |-> CommandRecord(r)] # None
         /\ [id |-> r.key, record |-> ReservationRecord(r)] # None
         /\ [id |-> r.aggregate, after |-> 0,
             entries |-> Entries(InitialChain, r.command)] # None
         /\ [id |-> r.approval, record |-> r.payload] # None
<1>1. AggregateRecord("DISPATCH_PENDING", 5, r.command) \in AggregateRecords
  BY RequestFields DEF AggregateRecord, AggregateRecords
<1>2. Entries(InitialChain, r.command) \in Seq(EntryRecords)
  BY RequestFields, ChainEntries
<1>3. /\ [id |-> r.aggregate, over |-> None,
          record |-> AggregateRecord("DISPATCH_PENDING", 5, r.command)] \in AggregateWrites
      /\ [id |-> r.command, record |-> CommandRecord(r)] \in CommandWrites
      /\ [id |-> r.key, record |-> ReservationRecord(r)] \in ReservationWrites
      /\ [id |-> r.aggregate, after |-> 0,
          entries |-> Entries(InitialChain, r.command)] \in JournalWrites
      /\ [id |-> r.approval, record |-> r.payload] \in ApprovalWrites
  BY <1>1, <1>2, RequestFields, RequestRecords
     DEF AggregateWrites, CommandWrites, ReservationWrites, JournalWrites, ApprovalWrites
<1> QED BY <1>3, NoneAssumption

\* The writes of an intake, collection by collection.
LEMMA IntakeWriteFields ==
  ASSUME NEW s, NEW r \in Requests, NEW w,
         \/ w = IntakeWrites(EmptyStore, r)
         \/ /\ w = [IntakeWrites(EmptyStore, r) EXCEPT !.approvals = None]
            /\ s.approvals[r.approval] = r.payload
  PROVE  /\ w.aggregates # None
         /\ w.aggregates.id = r.aggregate
         /\ w.aggregates.over = None
         /\ w.aggregates.record = AggregateRecord("DISPATCH_PENDING", 5, r.command)
         /\ w.commands # None
         /\ w.commands.id = r.command
         /\ w.commands.record = CommandRecord(r)
         /\ w.reservations # None
         /\ w.reservations.id = r.key
         /\ w.reservations.record = ReservationRecord(r)
         /\ w.journal # None
         /\ w.journal.id = r.aggregate
         /\ w.journal.after = 0
         /\ w.journal.entries = Entries(InitialChain, r.command)
         /\ w.approvals # None => w.approvals.id = r.approval /\ w.approvals.record = r.payload
         /\ w.approvals = None => s.approvals[r.approval] = r.payload
         /\ w.control = None /\ w.claims = None
         /\ w.authorizations = None /\ w.resolutions = None
<1> DEFINE aw == [id |-> r.aggregate, over |-> None,
                  record |-> AggregateRecord("DISPATCH_PENDING", 5, r.command)]
           cw == [id |-> r.command, record |-> CommandRecord(r)]
           rw == [id |-> r.key, record |-> ReservationRecord(r)]
           jw == [id |-> r.aggregate, after |-> 0, entries |-> Entries(InitialChain, r.command)]
           pw == [id |-> r.approval, record |-> r.payload]
<1>1. Len(InitialChain) = 5
  BY DEF InitialChain
<1>2. EmptyStore.approvals[r.approval] = None
  BY RequestFields DEF EmptyStore
<1>3. IntakeWrites(EmptyStore, r) =
          [Nothing EXCEPT !.aggregates = aw, !.commands = cw, !.reservations = rw,
                          !.journal = jw, !.approvals = pw]
  BY <1>1, <1>2 DEF IntakeWrites, ApprovalRecord
<1>4. aw # None /\ cw # None /\ rw # None /\ jw # None /\ pw # None
  BY RequestWrites
<1>5. /\ aw.id = r.aggregate /\ aw.over = None
      /\ aw.record = AggregateRecord("DISPATCH_PENDING", 5, r.command)
      /\ cw.id = r.command /\ cw.record = CommandRecord(r)
      /\ rw.id = r.key /\ rw.record = ReservationRecord(r)
      /\ jw.id = r.aggregate /\ jw.after = 0 /\ jw.entries = Entries(InitialChain, r.command)
      /\ pw.id = r.approval /\ pw.record = r.payload
  OBVIOUS
<1> HIDE DEF aw, cw, rw, jw, pw
<1>6. CASE w = IntakeWrites(EmptyStore, r)
  <2>1. /\ w.aggregates = aw /\ w.commands = cw /\ w.reservations = rw /\ w.journal = jw
        /\ w.approvals = pw /\ w.control = None /\ w.claims = None
        /\ w.authorizations = None /\ w.resolutions = None
    BY <1>3, <1>6, NothingFields, FieldNames
  <2> QED BY <1>4, <1>5, <2>1
<1>7. CASE /\ w = [IntakeWrites(EmptyStore, r) EXCEPT !.approvals = None]
           /\ s.approvals[r.approval] = r.payload
  <2>1. /\ w.aggregates = aw /\ w.commands = cw /\ w.reservations = rw /\ w.journal = jw
        /\ w.approvals = None /\ w.control = None /\ w.claims = None
        /\ w.authorizations = None /\ w.resolutions = None
    BY <1>3, <1>7, NothingFields, FieldNames
  <2> QED BY <1>4, <1>5, <1>7, <2>1
<1> QED BY <1>6, <1>7

LEMMA IntakeCommits ==
  ASSUME NEW s, Settled(s), NEW j, NEW w, j.request \in Requests,
         IsStaged("intake", j, w, s), Fits("intake", j, w, s)
  PROVE  Commits("intake", j, s, Applied(s, w))
<1> DEFINE t == Applied(s, w)
           r == j.request
           A == AggregateRecord("DISPATCH_PENDING", 5, r.command)
           E == Entries(InitialChain, r.command)
<1>1. s \in Stores /\ Coherent(s) /\ Whole(s)
  BY SettledFacts
<1>2. /\ s.aggregates[r.aggregate] = None /\ s.commands[r.command] = None
      /\ s.approvals[r.approval] \in {None, r.payload}
  BY DEF Fits
<1>3. /\ r \in Requests /\ r.command \in Commands /\ r.key \in Keys
      /\ r.aggregate \in Aggregates /\ r.approval \in Approvals
      /\ r.payload \in Payloads /\ r.payload # None
  BY RequestFields
<1>4. /\ CommandRecord(r) \in CommandRecords /\ CommandRecord(r) # None
      /\ CommandRecord(r).aggregate = r.aggregate /\ CommandRecord(r).key = r.key
      /\ CommandRecord(r).payload = r.payload /\ CommandRecord(r).approval = r.approval
      /\ ReservationRecord(r) \in ReservationRecords /\ ReservationRecord(r) # None
  BY <1>3, RequestRecords DEF CommandRecord
<1>5. /\ A \in AggregateRecords /\ A # None /\ A.command = r.command
      /\ A.state = "DISPATCH_PENDING" /\ A.revision = 5
  BY <1>3, NoneAssumption DEF AggregateRecord, AggregateRecords
<1>6. /\ E \in Seq(EntryRecords) /\ Len(E) = 5 /\ << >> \o E = E
  BY <1>3, ChainEntries
<1>7. s.journal[r.aggregate] = << >>
  BY <1>2, <1>3, SettledFacts
<1>8. /\ s.aggregates \in [Aggregates -> AggregateRecords \cup {None}]
      /\ s.commands \in [Commands -> CommandRecords \cup {None}]
      /\ s.reservations \in [Keys -> ReservationRecords \cup {None}]
      /\ s.journal \in [Aggregates -> Seq(EntryRecords)]
      /\ s.approvals \in [Approvals -> Payloads \cup {None}]
      /\ s.control \in ControlRecords
      /\ s.claims \in SUBSET Claims
      /\ s.authorizations \in SUBSET Claims
      /\ s.resolutions \in SUBSET Claims
  BY <1>1, StoreFields
<1>9. /\ w.aggregates # None /\ w.aggregates.id = r.aggregate /\ w.aggregates.record = A
      /\ w.commands # None /\ w.commands.id = r.command
      /\ w.commands.record = CommandRecord(r)
      /\ w.reservations # None /\ w.reservations.id = r.key
      /\ w.reservations.record = ReservationRecord(r)
      /\ w.journal # None /\ w.journal.id = r.aggregate /\ w.journal.entries = E
      /\ w.approvals # None => w.approvals.id = r.approval /\ w.approvals.record = r.payload
      /\ w.approvals = None => s.approvals[r.approval] = r.payload
      /\ w.control = None /\ w.claims = None
      /\ w.authorizations = None /\ w.resolutions = None
  <2>1. \/ w = IntakeWrites(EmptyStore, r)
        \/ /\ w = [IntakeWrites(EmptyStore, r) EXCEPT !.approvals = None]
           /\ s.approvals[r.approval] = r.payload
    BY DEF IsStaged
  <2> HIDE DEF r
  <2> QED BY <1>3, <2>1, IntakeWriteFields
<1> HIDE DEF A, E
<1>10. /\ t.aggregates = [s.aggregates EXCEPT ![r.aggregate] = A]
       /\ t.commands = [s.commands EXCEPT ![r.command] = CommandRecord(r)]
       /\ t.reservations = IF s.reservations[r.key] # None THEN s.reservations
                           ELSE [s.reservations EXCEPT ![r.key] = ReservationRecord(r)]
       /\ t.journal = [s.journal EXCEPT ![r.aggregate] = s.journal[r.aggregate] \o E]
       /\ t.approvals = IF w.approvals = None THEN s.approvals
                        ELSE IF s.approvals[r.approval] # None THEN s.approvals
                        ELSE [s.approvals EXCEPT ![r.approval] = r.payload]
       /\ t.control = s.control
       /\ t.claims = s.claims \cup ({None} \ {None})
       /\ t.authorizations = s.authorizations \cup ({None} \ {None})
       /\ t.resolutions = s.resolutions \cup ({None} \ {None})
       /\ DOMAIN t = Range(Fields)
  BY <1>2, <1>9, FieldNames DEF Applied, WithNew
<1>11. /\ t.claims = s.claims /\ t.authorizations = s.authorizations
       /\ t.resolutions = s.resolutions
  BY <1>10
<1>12. t.journal = [s.journal EXCEPT ![r.aggregate] = E]
  BY <1>6, <1>7, <1>10
<1>13. /\ t.aggregates \in [Aggregates -> AggregateRecords \cup {None}]
       /\ t.aggregates[r.aggregate] = A
       /\ \A a \in Aggregates : a # r.aggregate => t.aggregates[a] = s.aggregates[a]
  BY <1>3, <1>5, <1>8, <1>10
<1>14. /\ t.commands \in [Commands -> CommandRecords \cup {None}]
       /\ t.commands[r.command] = CommandRecord(r)
       /\ \A m \in Commands : m # r.command => t.commands[m] = s.commands[m]
  BY <1>3, <1>4, <1>8, <1>10
<1>15. /\ t.reservations \in [Keys -> ReservationRecords \cup {None}]
       /\ t.reservations[r.key] # None
       /\ \A k \in Keys : s.reservations[k] # None => t.reservations[k] = s.reservations[k]
  BY <1>3, <1>4, <1>8, <1>10
<1>16. /\ t.journal \in [Aggregates -> Seq(EntryRecords)]
       /\ t.journal[r.aggregate] = E
       /\ \A a \in Aggregates : a # r.aggregate => t.journal[a] = s.journal[a]
  BY <1>3, <1>6, <1>8, <1>12
<1>17. /\ t.approvals \in [Approvals -> Payloads \cup {None}]
       /\ t.approvals[r.approval] = r.payload
       /\ \A p \in Approvals : s.approvals[p] # None => t.approvals[p] = s.approvals[p]
  BY <1>2, <1>3, <1>8, <1>9, <1>10
<1>18. t \in Stores
  BY <1>8, <1>10, <1>11, <1>13, <1>14, <1>15, <1>16, <1>17 DEF Applied, Stores, Collections
<1>19. t.control = s.control
  BY <1>10
<1> HIDE DEF t
<1>20. Coherent(t)
  <2>1. \A m \in Commands :
            t.commands[m] # None =>
                \E q \in Requests : q.command = m /\ t.commands[m] = CommandRecord(q)
    BY <1>1, <1>3, <1>14 DEF Coherent
  <2>2. \A a \in Aggregates : t.journal[a] # << >> => t.aggregates[a] # None
    BY <1>1, <1>5, <1>13, <1>16 DEF Coherent
  <2>3. \A claim \in t.claims :
            /\ t.commands[claim.command] # None
            /\ t.commands[claim.command].aggregate = claim.aggregate
            /\ t.reservations[claim.key] # None
            /\ t.reservations[claim.key].command = claim.command
            /\ t.reservations[claim.key].aggregate = claim.aggregate
    <3> SUFFICES ASSUME NEW claim \in s.claims
                 PROVE  /\ t.commands[claim.command] = s.commands[claim.command]
                        /\ t.reservations[claim.key] = s.reservations[claim.key]
      BY <1>1, <1>11 DEF Coherent
    <3>1. claim.command \in Commands /\ claim.key \in Keys
      BY <1>8, ClaimFields
    <3>2. claim.command # r.command /\ s.reservations[claim.key] # None
      BY <1>1, <1>2 DEF Coherent
    <3> QED BY <1>14, <1>15, <3>1, <3>2
  <2> QED BY <1>1, <1>11, <1>18, <1>19, <2>1, <2>2, <2>3 DEF Coherent
<1>21. /\ \A a \in Aggregates : Resolved(t, a) <=> Resolved(s, a)
       /\ ~ Resolved(s, r.aggregate)
       /\ ~ Resolved(t, r.aggregate)
  <2>1. \A claim \in s.resolutions : s.aggregates[claim.aggregate] # None
    BY <1>1, SettledFacts DEF Coherent
  <2> QED BY <1>2, <1>11, <2>1 DEF Resolved
<1>22. Whole(t)
  <2>1. ASSUME NEW a \in Aggregates, t.aggregates[a] = None
        PROVE  t.journal[a] = << >>
    BY <1>5, <1>13, <1>16, <2>1, SettledFacts
  <2>2. ASSUME NEW a \in Aggregates, t.aggregates[a] # None
        PROVE  /\ t.commands[t.aggregates[a].command] # None
               /\ t.commands[t.aggregates[a].command].aggregate = a
               /\ t.approvals[t.commands[t.aggregates[a].command].approval]
                      = t.commands[t.aggregates[a].command].payload
               /\ t.journal[a] = Entries(IF Resolved(t, a)
                                         THEN InitialChain \o OutcomeChain ELSE InitialChain,
                                         t.aggregates[a].command)
               /\ t.aggregates[a].revision = Len(t.journal[a])
    <3>1. CASE a = r.aggregate
      BY <1>4, <1>5, <1>6, <1>13, <1>14, <1>16, <1>17, <1>21, <3>1 DEF E
    <3>2. CASE a # r.aggregate
      <4> DEFINE m == s.aggregates[a].command
      <4>1. s.aggregates[a] # None /\ t.aggregates[a] = s.aggregates[a]
        BY <1>13, <2>2, <3>2
      <4>2. m \in Commands /\ s.commands[m] # None
        BY <4>1, SettledFacts
      <4>3. t.commands[m] = s.commands[m]
        BY <1>2, <1>14, <4>2
      <4>4. s.commands[m].approval \in Approvals /\ s.commands[m].payload \in Payloads
        BY <1>8, <4>2 DEF CommandRecords
      <4>5. s.approvals[s.commands[m].approval] = s.commands[m].payload
        BY <1>1, <4>1 DEF Whole
      <4>6. t.approvals[s.commands[m].approval] = s.commands[m].payload
        BY <1>17, <4>4, <4>5, NoneAssumption
      <4>7. t.journal[a] = s.journal[a] /\ (Resolved(t, a) <=> Resolved(s, a))
        BY <1>16, <1>21, <3>2
      <4>8. /\ s.commands[m].aggregate = a
            /\ s.journal[a] = Entries(IF Resolved(s, a)
                                      THEN InitialChain \o OutcomeChain ELSE InitialChain, m)
            /\ s.aggregates[a].revision = Len(s.journal[a])
        BY <1>1, <4>1 DEF Whole
      <4>9. t.journal[a] = Entries(IF Resolved(t, a)
                                   THEN InitialChain \o OutcomeChain ELSE InitialChain, m)
        BY <4>7, <4>8
      <4> HIDE DEF m
      <4>10. /\ t.commands[m] # None /\ t.commands[m].aggregate = a
             /\ t.approvals[t.commands[m].approval] = t.commands[m].payload
             /\ t.aggregates[a].revision = Len(t.journal[a])
        BY <4>1, <4>2, <4>3, <4>6, <4>7, <4>8
      <4>11. t.aggregates[a].command = m
        BY <4>1 DEF m
      <4> QED BY <4>9, <4>10, <4>11
    <3> QED BY <3>1, <3>2
  <2>3. ASSUME NEW m \in Commands, t.commands[m] # None
        PROVE  /\ t.aggregates[t.commands[m].aggregate] # None
               /\ t.aggregates[t.commands[m].aggregate].command = m
               /\ t.reservations[t.commands[m].key] # None
    <3>1. CASE m = r.command
      BY <1>4, <1>5, <1>13, <1>14, <1>15, <3>1
    <3>2. CASE m # r.command
      <4>1. t.commands[m] = s.commands[m] /\ s.commands[m] # None
        BY <1>14, <2>3, <3>2
      <4>2. /\ s.commands[m].aggregate \in Aggregates
            /\ s.aggregates[s.commands[m].aggregate] # None
            /\ s.aggregates[s.commands[m].aggregate].command = m
            /\ s.commands[m].key \in Keys
            /\ s.reservations[s.commands[m].key] # None
        BY <4>1, SettledFacts
      <4> QED BY <1>2, <1>13, <1>15, <4>1, <4>2
    <3> QED BY <3>1, <3>2
  <2> QED BY <2>1, <2>2, <2>3 DEF Whole
<1>23. Settled(t)
  <2>1. \A a \in Aggregates :
            t.aggregates[a] # None =>
                t.aggregates[a].state =
                    IF Resolved(t, a) THEN "BROKER_ACKNOWLEDGED" ELSE "DISPATCH_PENDING"
    BY <1>5, <1>13, <1>21 DEF Settled
  <2>2. \A claim \in t.claims \ t.resolutions :
            /\ t.aggregates[claim.aggregate].state = "DISPATCH_PENDING"
            /\ t.aggregates[claim.aggregate].revision = claim.revision
    <3> SUFFICES ASSUME NEW claim \in s.claims \ s.resolutions
                 PROVE  t.aggregates[claim.aggregate] = s.aggregates[claim.aggregate]
      BY <1>11 DEF Settled
    <3>1. claim.aggregate \in Aggregates /\ s.aggregates[claim.aggregate] # None
      BY SettledFacts, ClaimFields
    <3> QED BY <1>2, <1>13, <3>1
  <2> QED BY <1>20, <1>22, <2>1, <2>2 DEF Settled
<1>24. Grows(s, t)
  <2>1. AggregatesGrow(s.aggregates, t.aggregates)
    BY <1>2, <1>13 DEF AggregatesGrow
  <2>2. RecordsGrow(s.commands, t.commands)
    BY <1>2, <1>8, <1>14 DEF RecordsGrow
  <2>3. RecordsGrow(s.reservations, t.reservations)
    BY <1>8, <1>15 DEF RecordsGrow
  <2>4. JournalGrows(s.journal, t.journal)
    BY <1>7, <1>16 DEF JournalGrows
  <2>5. RecordsGrow(s.approvals, t.approvals)
    BY <1>8, <1>17 DEF RecordsGrow
  <2> QED BY <1>11, <2>1, <2>2, <2>3, <2>4, <2>5 DEF Grows
<1>25. s.control.generation \in Nat
  BY <1>8 DEF ControlRecords
<1> QED BY <1>2, <1>5, <1>11, <1>13, <1>14, <1>19, <1>23, <1>24, <1>25 DEF Commits, t

\* The writes of an outcome, collection by collection.
LEMMA OutcomeWriteFields ==
  ASSUME NEW x \in Claims
  PROVE  /\ Outcome(x).aggregates # None
         /\ Outcome(x).aggregates.id = x.aggregate
         /\ Outcome(x).aggregates.record =
                AggregateRecord("BROKER_ACKNOWLEDGED", x.revision + 2, x.command)
         /\ Outcome(x).journal # None
         /\ Outcome(x).journal.id = x.aggregate
         /\ Outcome(x).journal.entries = Entries(OutcomeChain, x.command)
         /\ Outcome(x).resolutions = x
         /\ Outcome(x).commands = None /\ Outcome(x).reservations = None
         /\ Outcome(x).approvals = None /\ Outcome(x).control = None
         /\ Outcome(x).claims = None /\ Outcome(x).authorizations = None
<1> DEFINE aw == [id |-> x.aggregate, over |-> x.revision,
                  record |-> AggregateRecord("BROKER_ACKNOWLEDGED", x.revision + 2, x.command)]
           jw == [id |-> x.aggregate, after |-> x.revision,
                  entries |-> Entries(OutcomeChain, x.command)]
<1>1. /\ x.command \in Commands /\ x.aggregate \in Aggregates /\ x.revision \in Nat
  BY ClaimFields
<1>2. Len(OutcomeChain) = 2
  BY DEF OutcomeChain
<1>3. Outcome(x) = [Nothing EXCEPT !.aggregates = aw, !.journal = jw, !.resolutions = x]
  BY <1>2 DEF Outcome
<1>4. AggregateRecord("BROKER_ACKNOWLEDGED", x.revision + 2, x.command) \in AggregateRecords
  BY <1>1 DEF AggregateRecord, AggregateRecords
<1>5. Entries(OutcomeChain, x.command) \in Seq(EntryRecords)
  BY <1>1, ChainEntries
<1>6. aw \in AggregateWrites /\ jw \in JournalWrites
  BY <1>1, <1>4, <1>5 DEF AggregateWrites, JournalWrites
<1>7. aw # None /\ jw # None
  BY <1>6, NoneAssumption
<1>8. /\ aw.id = x.aggregate
      /\ aw.record = AggregateRecord("BROKER_ACKNOWLEDGED", x.revision + 2, x.command)
      /\ jw.id = x.aggregate /\ jw.entries = Entries(OutcomeChain, x.command)
  OBVIOUS
<1> HIDE DEF aw, jw
<1>9. /\ Outcome(x).aggregates = aw /\ Outcome(x).journal = jw /\ Outcome(x).resolutions = x
      /\ Outcome(x).commands = None /\ Outcome(x).reservations = None
      /\ Outcome(x).approvals = None /\ Outcome(x).control = None
      /\ Outcome(x).claims = None /\ Outcome(x).authorizations = None
  BY <1>3, NothingFields, FieldNames
<1> QED BY <1>7, <1>8, <1>9

LEMMA OutcomeCommits ==
  ASSUME NEW s, Settled(s), NEW j, NEW w,
         IsStaged("outcome", j, w, s), Fits("outcome", j, w, s)
  PROVE  Commits("outcome", j, s, Applied(s, w))
<1> DEFINE t == Applied(s, w)
           x == w.resolutions
           A == AggregateRecord("BROKER_ACKNOWLEDGED", x.revision + 2, x.command)
           E == Entries(OutcomeChain, x.command)
<1>1. s \in Stores /\ Coherent(s) /\ Whole(s)
  BY SettledFacts
<1>2. /\ s.aggregates \in [Aggregates -> AggregateRecords \cup {None}]
      /\ s.commands \in [Commands -> CommandRecords \cup {None}]
      /\ s.reservations \in [Keys -> ReservationRecords \cup {None}]
      /\ s.journal \in [Aggregates -> Seq(EntryRecords)]
      /\ s.approvals \in [Approvals -> Payloads \cup {None}]
      /\ s.control \in ControlRecords
      /\ s.claims \in SUBSET Claims
      /\ s.authorizations \in SUBSET Claims
      /\ s.resolutions \in SUBSET Claims
  BY <1>1, StoreFields
<1>3. x \in s.claims /\ x \in Claims /\ w = Outcome(x)
  BY <1>2 DEF IsStaged
<1>4. /\ x.command \in Commands /\ x.aggregate \in Aggregates
      /\ x.revision \in Nat /\ x # None
  BY <1>3, ClaimFields
<1>5. /\ x \in s.authorizations /\ x \notin s.resolutions
      /\ s.control.permits /\ s.control.generation = x.generation
      /\ s.commands[x.command] # None
      /\ s.commands[x.command].aggregate = x.aggregate
      /\ s.aggregates[x.aggregate] # None
      /\ s.aggregates[x.aggregate].state = "DISPATCH_PENDING"
      /\ s.aggregates[x.aggregate].revision = x.revision
  BY DEF Fits, ValidLatestOutcome, ValidLatestClaim
<1>6. s.aggregates[x.aggregate].command = x.command
  BY <1>3, SettledFacts
<1>7. ~ Resolved(s, x.aggregate)
  BY <1>4, <1>5 DEF Settled
<1>8. s.journal[x.aggregate] = Entries(InitialChain, x.command) /\ x.revision = 5
  <2>1. /\ s.journal[x.aggregate] = Entries(InitialChain, x.command)
        /\ x.revision = Len(s.journal[x.aggregate])
    BY <1>1, <1>4, <1>5, <1>6, <1>7 DEF Whole
  <2>2. Len(Entries(InitialChain, x.command)) = 5
    BY <1>4, ChainEntries
  <2> QED BY <2>1, <2>2
<1>9. /\ A \in AggregateRecords /\ A # None /\ A.command = x.command
      /\ A.state = "BROKER_ACKNOWLEDGED" /\ A.revision = 7
  BY <1>4, <1>8, NoneAssumption DEF AggregateRecord, AggregateRecords
<1> DEFINE J == Entries(InitialChain \o OutcomeChain, x.command)
<1>10. /\ s.journal[x.aggregate] \o E = J /\ J \in Seq(EntryRecords)
       /\ Len(J) = 7 /\ J # << >>
  <2> DEFINE I == Entries(InitialChain, x.command)
  <2>1. /\ I \in Seq(EntryRecords) /\ E \in Seq(EntryRecords)
        /\ Len(J) = 7 /\ I \o E = J
    BY <1>4, ChainEntries
  <2>2. s.journal[x.aggregate] = I
    BY <1>8
  <2> HIDE DEF I, E, J
  <2>3. I \o E \in Seq(EntryRecords)
    BY <2>1, ConcatProperties, Zenon
  <2>4. J \in Seq(EntryRecords)
    BY <2>1, <2>3, Zenon
  <2>5. J # << >>
    <3>1. Len(<< >>) = 0 /\ 0 # 7
      OBVIOUS
    <3> QED BY <2>1, <3>1, Zenon
  <2> QED BY <2>1, <2>2, <2>4, <2>5, Zenon
<1>11. /\ w.aggregates # None /\ w.aggregates.id = x.aggregate /\ w.aggregates.record = A
       /\ w.journal # None /\ w.journal.id = x.aggregate /\ w.journal.entries = E
       /\ w.commands = None /\ w.reservations = None /\ w.approvals = None
       /\ w.control = None /\ w.claims = None /\ w.authorizations = None
  BY <1>3, OutcomeWriteFields
<1> HIDE DEF A, E, J
<1>12. /\ t.aggregates = [s.aggregates EXCEPT ![x.aggregate] = A]
       /\ t.commands = s.commands /\ t.reservations = s.reservations
       /\ t.journal = [s.journal EXCEPT ![x.aggregate] = s.journal[x.aggregate] \o E]
       /\ t.approvals = s.approvals /\ t.control = s.control
       /\ t.claims = s.claims \cup ({None} \ {None})
       /\ t.authorizations = s.authorizations \cup ({None} \ {None})
       /\ t.resolutions = s.resolutions \cup ({x} \ {None})
  BY <1>11 DEF Applied, WithNew
<1>13. /\ t.claims = s.claims /\ t.authorizations = s.authorizations
       /\ t.resolutions = s.resolutions \cup {x}
  BY <1>4, <1>12
<1>14. t.journal = [s.journal EXCEPT ![x.aggregate] = J]
  BY <1>10, <1>12
<1>15. /\ t.aggregates \in [Aggregates -> AggregateRecords \cup {None}]
       /\ t.aggregates[x.aggregate] = A
       /\ \A a \in Aggregates : a # x.aggregate => t.aggregates[a] = s.aggregates[a]
  BY <1>2, <1>4, <1>9, <1>12
<1>16. /\ t.journal \in [Aggregates -> Seq(EntryRecords)]
       /\ t.journal[x.aggregate] = J
       /\ \A a \in Aggregates : a # x.aggregate => t.journal[a] = s.journal[a]
  BY <1>2, <1>4, <1>10, <1>14
<1>17. t \in Stores
  <2>1. t.resolutions \in SUBSET Claims
    BY <1>2, <1>3, <1>13
  <2> QED BY <1>2, <1>12, <1>13, <1>15, <1>16, <2>1 DEF Applied, Stores, Collections
<1>18. t.commands = s.commands /\ t.reservations = s.reservations
       /\ t.approvals = s.approvals /\ t.control = s.control
  BY <1>12
<1> HIDE DEF t
<1>19. Coherent(t)
  <2>1. \A a \in Aggregates : t.journal[a] # << >> => t.aggregates[a] # None
    BY <1>1, <1>9, <1>15, <1>16 DEF Coherent
  <2> QED BY <1>1, <1>5, <1>13, <1>17, <1>18, <2>1 DEF Coherent
<1>20. /\ Resolved(t, x.aggregate)
       /\ \A a \in Aggregates : a # x.aggregate => (Resolved(t, a) <=> Resolved(s, a))
  BY <1>13 DEF Resolved
<1>21. Whole(t)
  <2>1. ASSUME NEW a \in Aggregates, t.aggregates[a] = None
        PROVE  t.journal[a] = << >>
    BY <1>9, <1>15, <1>16, <2>1, SettledFacts
  <2>2. ASSUME NEW a \in Aggregates, t.aggregates[a] # None
        PROVE  /\ t.commands[t.aggregates[a].command] # None
               /\ t.commands[t.aggregates[a].command].aggregate = a
               /\ t.approvals[t.commands[t.aggregates[a].command].approval]
                      = t.commands[t.aggregates[a].command].payload
               /\ t.journal[a] = Entries(IF Resolved(t, a)
                                         THEN InitialChain \o OutcomeChain ELSE InitialChain,
                                         t.aggregates[a].command)
               /\ t.aggregates[a].revision = Len(t.journal[a])
    <3> DEFINE m == s.aggregates[a].command
    <3>1. s.aggregates[a] # None
      BY <1>5, <1>15, <2>2
    <3>2. /\ s.commands[m] # None /\ s.commands[m].aggregate = a
          /\ s.approvals[s.commands[m].approval] = s.commands[m].payload
          /\ s.journal[a] = Entries(IF Resolved(s, a)
                                    THEN InitialChain \o OutcomeChain ELSE InitialChain, m)
          /\ s.aggregates[a].revision = Len(s.journal[a])
      BY <1>1, <3>1 DEF Whole
    <3>3. t.aggregates[a].command = m
      BY <1>6, <1>9, <1>15
    <3>4. t.journal[a] = Entries(IF Resolved(t, a)
                                 THEN InitialChain \o OutcomeChain ELSE InitialChain, m)
      <4>1. CASE a = x.aggregate
        BY <1>6, <1>16, <1>20, <4>1 DEF J
      <4>2. CASE a # x.aggregate
        BY <1>16, <1>20, <3>2, <4>2
      <4> QED BY <4>1, <4>2
    <3>5. t.aggregates[a].revision = Len(t.journal[a])
      BY <1>9, <1>10, <1>15, <1>16, <3>2
    <3> HIDE DEF m
    <3>6. /\ t.commands[m] # None /\ t.commands[m].aggregate = a
          /\ t.approvals[t.commands[m].approval] = t.commands[m].payload
      BY <1>18, <3>2
    <3> QED BY <3>3, <3>4, <3>5, <3>6
  <2>3. ASSUME NEW m \in Commands, t.commands[m] # None
        PROVE  /\ t.aggregates[t.commands[m].aggregate] # None
               /\ t.aggregates[t.commands[m].aggregate].command = m
               /\ t.reservations[t.commands[m].key] # None
    <3>1. /\ s.commands[m].aggregate \in Aggregates
          /\ s.aggregates[s.commands[m].aggregate] # None
          /\ s.aggregates[s.commands[m].aggregate].command = m
          /\ s.reservations[s.commands[m].key] # None
      BY <1>18, <2>3, SettledFacts
    <3> QED BY <1>6, <1>9, <1>15, <1>18, <3>1
  <2> QED BY <2>1, <2>2, <2>3 DEF Whole
<1>22. Settled(t)
  <2>1. \A a \in Aggregates :
            t.aggregates[a] # None =>
                t.aggregates[a].state =
                    IF Resolved(t, a) THEN "BROKER_ACKNOWLEDGED" ELSE "DISPATCH_PENDING"
    BY <1>9, <1>15, <1>20 DEF Settled
  <2>2. \A claim \in t.claims \ t.resolutions :
            /\ t.aggregates[claim.aggregate].state = "DISPATCH_PENDING"
            /\ t.aggregates[claim.aggregate].revision = claim.revision
    <3> SUFFICES ASSUME NEW claim \in s.claims \ s.resolutions, claim # x
                 PROVE  t.aggregates[claim.aggregate] = s.aggregates[claim.aggregate]
      BY <1>13 DEF Settled
    <3>1. claim.aggregate \in Aggregates
      BY <1>2, ClaimFields
    <3>2. s.aggregates[claim.aggregate].command = claim.command
      BY SettledFacts
    <3>3. claim.command # x.command
      BY <1>1, <1>3 DEF Coherent, SameAuthority
    <3> QED BY <1>6, <1>15, <3>1, <3>2, <3>3
  <2> QED BY <1>19, <1>21, <2>1, <2>2 DEF Settled
<1>23. Grows(s, t)
  <2>1. AggregatesGrow(s.aggregates, t.aggregates)
    BY <1>6, <1>9, <1>15 DEF AggregatesGrow
  <2>2. JournalGrows(s.journal, t.journal)
    BY <1>10, <1>16 DEF JournalGrows
  <2> QED BY <1>13, <1>18, <2>1, <2>2 DEF Grows, RecordsGrow
<1>24. s.control.generation \in Nat
  BY <1>2 DEF ControlRecords
<1> QED BY <1>5, <1>13, <1>18, <1>22, <1>23, <1>24 DEF Commits, t

LEMMA UnitCommits ==
  ASSUME NEW s, Settled(s), NEW kind \in UnitKinds, NEW j, NEW w,
         kind = "intake" => j.request \in Requests,
         IsStaged(kind, j, w, s), Fits(kind, j, w, s)
  PROVE  Commits(kind, j, s, Applied(s, w))
BY ControlCommits, AuthorizationCommits, ClaimCommits, IntakeCommits, OutcomeCommits DEF UnitKinds

(***************************************************************************)
(* What validation at commit establishes.                                  *)
(***************************************************************************)

LEMMA ValidatedFits ==
  ASSUME NEW s, Settled(s), NEW kind \in UnitKinds, NEW j, NEW w,
         kind = "intake" => j.request \in Requests,
         IsStaged(kind, j, w, s), ~ Conflict(s, w)
  PROVE  Fits(kind, j, w, s)
<1>1. s \in Stores /\ Coherent(s) /\ Whole(s)
  BY SettledFacts
<1>2. CASE kind = "intake"
  <2> DEFINE r == j.request
  <2>1. /\ r \in Requests /\ r.command \in Commands /\ r.aggregate \in Aggregates
        /\ r.payload # None
    BY <1>2, RequestFields
  <2>2. \/ w = IntakeWrites(EmptyStore, r)
        \/ /\ w = [IntakeWrites(EmptyStore, r) EXCEPT !.approvals = None]
           /\ s.approvals[r.approval] = r.payload
    BY <1>2 DEF IsStaged
  <2> HIDE DEF r
  <2>3. /\ w.aggregates # None /\ w.aggregates.id = r.aggregate /\ w.aggregates.over = None
        /\ w.commands # None /\ w.commands.id = r.command
        /\ w.commands.record = CommandRecord(r)
        /\ w.approvals # None => w.approvals.id = r.approval /\ w.approvals.record = r.payload
        /\ w.approvals = None => s.approvals[r.approval] = r.payload
    BY <2>1, <2>2, IntakeWriteFields
  <2>4. s.aggregates[r.aggregate] = None
    <3>1. StoredRevision(s, r.aggregate) = None
      BY <2>3 DEF Conflict, AggregateClash
    <3>2. s.aggregates[r.aggregate] \in AggregateRecords \cup {None}
      BY <1>1, <2>1, StoreFields
    <3>3. \A x \in AggregateRecords : x.revision # None
      BY NoneAssumption DEF AggregateRecords
    <3> QED BY <3>1, <3>2, <3>3 DEF StoredRevision
  <2>5. s.commands[r.command] = None
    <3> SUFFICES ASSUME s.commands[r.command] # None PROVE FALSE
      OBVIOUS
    <3>1. s.commands[r.command].payload = CommandRecord(r).payload
      BY <2>3 DEF Conflict, CommandClash
    <3>2. PICK q \in Requests : q.command = r.command /\ s.commands[r.command] = CommandRecord(q)
      BY <1>1, <2>1 DEF Coherent
    <3>3. q.payload = r.payload
      BY <3>1, <3>2 DEF CommandRecord
    <3>4. q = r
      BY <2>1, <3>2, <3>3, IntakeAssumption
    <3>5. s.commands[r.command].aggregate = r.aggregate
      BY <3>2, <3>4 DEF CommandRecord
    <3>6. s.aggregates[r.aggregate] # None
      BY <1>1, <2>1, <3>5 DEF Whole
    <3> QED BY <2>4, <3>6
  <2>6. s.approvals[r.approval] \in {None, r.payload}
    BY <2>3 DEF Conflict, ApprovalClash
  <2> QED BY <1>2, <2>4, <2>5, <2>6 DEF Fits, r
<1>3. CASE kind = "control"
  <2>1. w.control # None
    BY <1>3, NoneAssumption DEF IsStaged
  <2> QED BY <1>3, <2>1 DEF Fits, Conflict, ControlClash
<1>4. CASE kind = "claim"
  <2>1. w.claims # None
    BY <1>4, NoneAssumption DEF IsStaged
  <2> QED BY <1>4, <2>1 DEF Fits, Conflict, ClaimClash
<1>5. CASE kind = "authorize"
  <2>1. w.authorizations # None
    BY <1>1, <1>5, StoreFields, NoneAssumption DEF IsStaged
  <2> QED BY <1>5, <2>1 DEF Fits, Conflict, AuthorizationClash
<1>6. CASE kind = "outcome"
  <2>1. w.resolutions # None
    BY <1>1, <1>6, StoreFields, NoneAssumption DEF IsStaged
  <2> QED BY <1>6, <2>1 DEF Fits, Conflict, OutcomeClash
<1> QED BY <1>2, <1>3, <1>4, <1>5, <1>6 DEF UnitKinds

\* An intake is refused at commit only because a rival owns an identity of it.
LEMMA RefusedIntake ==
  ASSUME NEW s, Coherent(s), NEW r \in Requests, NEW w,
         \/ w = IntakeWrites(EmptyStore, r)
         \/ /\ w = [IntakeWrites(EmptyStore, r) EXCEPT !.approvals = None]
            /\ s.approvals[r.approval] = r.payload,
         Conflict(s, w)
  PROVE  \/ s.aggregates[r.aggregate] # None
         \/ s.commands[r.command] # None
         \/ s.reservations[r.key] # None
         \/ s.approvals[r.approval] # None
<1>1. /\ w.aggregates # None /\ w.aggregates.id = r.aggregate /\ w.aggregates.over = None
      /\ w.commands.id = r.command
      /\ w.reservations.id = r.key
      /\ w.journal.id = r.aggregate
      /\ w.approvals # None => w.approvals.id = r.approval
      /\ w.control = None /\ w.claims = None
      /\ w.authorizations = None /\ w.resolutions = None
  BY IntakeWriteFields
<1>2. CommandClash(s, w) => s.commands[r.command] # None
  BY <1>1 DEF CommandClash
<1>3. ReservationClash(s, w) => s.reservations[r.key] # None
  BY <1>1 DEF ReservationClash
<1>4. AggregateClash(s, w) => s.aggregates[r.aggregate] # None
  BY <1>1 DEF AggregateClash, StoredRevision
<1>5. JournalClash(s, w) => s.aggregates[r.aggregate] # None
  <2>1. JournalClash(s, w) => s.journal[r.aggregate] # << >>
    <3>1. DOMAIN << >> = {}
      OBVIOUS
    <3> QED BY <1>1, <3>1 DEF JournalClash
  <2> QED BY <2>1, RequestFields DEF Coherent
<1>6. ApprovalClash(s, w) => s.approvals[r.approval] # None
  BY <1>1 DEF ApprovalClash
<1>7. /\ ~ ControlClash(s, w) /\ ~ ClaimClash(s, w) /\ ~ AuthorizationClash(s, w)
      /\ ~ OutcomeClash(s, w)
  BY <1>1 DEF ControlClash, ClaimClash, AuthorizationClash, OutcomeClash
<1> QED BY <1>2, <1>3, <1>4, <1>5, <1>6, <1>7 DEF Conflict

(***************************************************************************)
(* What a service finds on its copy.                                       *)
(***************************************************************************)

LEMMA AnswersAreNotNone ==
  \A x \in Answers : x # None
BY NoneAssumption

\* A sequence of refusals is refused by one of them, and by none if none refuses.
LEMMA FirstRefusalOf ==
  ASSUME NEW p, NEW q, NEW x, NEW y, NEW z
  PROVE  /\ FirstRefusal(<<p, q, x, y, z>>) \in {None, p, q, x, y, z}
         /\ FirstRefusal(<<p, q, x, y, z>>) = None =>
                p = None /\ q = None /\ x = None /\ y = None /\ z = None
<1> DEFINE R == <<p, q, x, y, z>>
           given == {i \in DOMAIN R : R[i] # None}
<1>1. /\ DOMAIN R = 1 .. 5
      /\ R[1] = p /\ R[2] = q /\ R[3] = x /\ R[4] = y /\ R[5] = z
  OBVIOUS
<1>2. \A i \in 1 .. 5 : R[i] \in {p, q, x, y, z}
  BY <1>1
<1>3. FirstRefusal(R) =
          IF given = {} THEN None ELSE R[CHOOSE i \in given : \A n \in given : i <= n]
  BY DEF FirstRefusal
<1> HIDE DEF R
<1>4. given \subseteq 1 .. 5 /\ \A i \in given : R[i] # None
  BY <1>1
<1>5. CASE given = {}
  <2>1. \A i \in 1 .. 5 : R[i] = None
    BY <1>1, <1>5
  <2>2. p = None /\ q = None /\ x = None /\ y = None /\ z = None
    BY <1>1, <2>1
  <2>3. FirstRefusal(R) = None
    BY <1>3, <1>5
  <2> QED BY <2>2, <2>3 DEF R
<1>6. CASE given # {}
  <2>1. \E i \in given : \A n \in given : i <= n
    <3>1. CASE 1 \in given
      BY <1>4, <3>1
    <3>2. CASE 1 \notin given /\ 2 \in given
      BY <1>4, <3>2
    <3>3. CASE 1 \notin given /\ 2 \notin given /\ 3 \in given
      BY <1>4, <3>3
    <3>4. CASE 1 \notin given /\ 2 \notin given /\ 3 \notin given /\ 4 \in given
      BY <1>4, <3>4
    <3>5. CASE given \subseteq {5}
      BY <1>6, <3>5
    <3> QED BY <1>4, <3>1, <3>2, <3>3, <3>4, <3>5
  <2> DEFINE i == CHOOSE i \in given : \A n \in given : i <= n
  <2>2. i \in given
    BY <2>1
  <2>3. FirstRefusal(R) = R[i]
    BY <1>3, <1>6
  <2> HIDE DEF i, given
  <2>4. R[i] # None /\ R[i] \in {p, q, x, y, z}
    BY <1>2, <1>4, <2>2
  <2> QED BY <2>3, <2>4 DEF R
<1> QED BY <1>5, <1>6

\* An intake that is refused on a copy is told what is true of the records.
LEMMA RefusedOnCopy ==
  ASSUME NEW s, Coherent(s), NEW v, NEW r \in Requests,
         \A f \in Reads("intake") : IsCopy(f, v[f], s),
         IntakeRefusal(v, r) # None
  PROVE  /\ IntakeRefusal(v, r) \in
                {"EXACT_REPLAY", "COMMAND_CONFLICT", "LOGICAL_REPLAY", "IDEMPOTENCY_CONFLICT",
                 "STALE_REVISION", "TRANSACTION_ABORTED"}
         /\ IntakeRefusal(v, r) = "EXACT_REPLAY" =>
                s.commands[r.command] # None /\ s.commands[r.command].payload = r.payload
         /\ IntakeRefusal(v, r) = "LOGICAL_REPLAY" =>
                s.reservations[r.key] # None /\ s.reservations[r.key].payload = r.payload
         /\ IntakeRefusal(v, r) = "COMMAND_CONFLICT" =>
                \/ s.commands[r.command] # None /\ s.commands[r.command].payload # r.payload
                \/ s.approvals[r.approval] \notin {None, r.payload}
         /\ IntakeRefusal(v, r) = "IDEMPOTENCY_CONFLICT" =>
                s.reservations[r.key] # None /\ s.reservations[r.key].payload # r.payload
         /\ IntakeRefusal(v, r) \in {"STALE_REVISION", "TRANSACTION_ABORTED"} =>
                s.aggregates[r.aggregate] # None
<1>1. /\ r.command \in Commands /\ r.key \in Keys /\ r.aggregate \in Aggregates
      /\ r.approval \in Approvals
  BY RequestFields
<1>2. /\ IsCopy("aggregates", v.aggregates, s) /\ IsCopy("commands", v.commands, s)
      /\ IsCopy("reservations", v.reservations, s) /\ IsCopy("journal", v.journal, s)
      /\ IsCopy("approvals", v.approvals, s)
  BY ReadsOf
<1>3. /\ r.command \in DOMAIN v.commands /\ r.key \in DOMAIN v.reservations
      /\ r.approval \in DOMAIN v.approvals
  BY <1>1, <1>2 DEF IsCopy, Collections
<1>4. IntakeRefusal(v, r) \in
          {CommandRefusal(v, r), ReservationRefusal(v, r), AggregateRefusal(v, r),
           JournalRefusal(v, r), ApprovalRefusal(v, r)}
  BY FirstRefusalOf DEF IntakeRefusal
<1>5. /\ CommandRefusal(v, r) \in {None, "EXACT_REPLAY", "COMMAND_CONFLICT"}
      /\ CommandRefusal(v, r) = "EXACT_REPLAY" =>
             s.commands[r.command] # None /\ s.commands[r.command].payload = r.payload
      /\ CommandRefusal(v, r) = "COMMAND_CONFLICT" =>
             s.commands[r.command] # None /\ s.commands[r.command].payload # r.payload
  <2>1. v.commands[r.command] # None => s.commands[r.command] = v.commands[r.command]
    BY <1>2, <1>3 DEF IsCopy, RecordsGrow
  <2> QED BY <2>1, AnswersAreNotNone DEF CommandRefusal, Answers
<1>6. /\ ReservationRefusal(v, r) \in {None, "LOGICAL_REPLAY", "IDEMPOTENCY_CONFLICT"}
      /\ ReservationRefusal(v, r) = "LOGICAL_REPLAY" =>
             s.reservations[r.key] # None /\ s.reservations[r.key].payload = r.payload
      /\ ReservationRefusal(v, r) = "IDEMPOTENCY_CONFLICT" =>
             s.reservations[r.key] # None /\ s.reservations[r.key].payload # r.payload
  <2>1. v.reservations[r.key] # None => s.reservations[r.key] = v.reservations[r.key]
    BY <1>2, <1>3 DEF IsCopy, RecordsGrow
  <2> QED BY <2>1, AnswersAreNotNone DEF ReservationRefusal, Answers
<1>7. /\ AggregateRefusal(v, r) \in {None, "STALE_REVISION"}
      /\ AggregateRefusal(v, r) = "STALE_REVISION" => s.aggregates[r.aggregate] # None
  <2>1. v.aggregates[r.aggregate] # None => s.aggregates[r.aggregate] # None
    BY <1>1, <1>2 DEF IsCopy, AggregatesGrow
  <2> QED BY <2>1, AnswersAreNotNone DEF AggregateRefusal, Answers
<1>8. /\ JournalRefusal(v, r) \in {None, "TRANSACTION_ABORTED"}
      /\ JournalRefusal(v, r) = "TRANSACTION_ABORTED" => s.aggregates[r.aggregate] # None
  <2>1. v.journal[r.aggregate] # << >> => s.journal[r.aggregate] # << >>
    BY <1>1, <1>2 DEF IsCopy, JournalGrows
  <2>2. s.journal[r.aggregate] # << >> => s.aggregates[r.aggregate] # None
    BY <1>1 DEF Coherent
  <2>3. DOMAIN << >> = {}
    OBVIOUS
  <2>4. JournalRefusal(v, r) = "TRANSACTION_ABORTED" => v.journal[r.aggregate] # << >>
    BY <2>3, AnswersAreNotNone DEF JournalRefusal, Answers
  <2> QED BY <2>1, <2>2, <2>4 DEF JournalRefusal
<1>9. /\ ApprovalRefusal(v, r) \in {None, "COMMAND_CONFLICT"}
      /\ ApprovalRefusal(v, r) = "COMMAND_CONFLICT" =>
             s.approvals[r.approval] \notin {None, r.payload}
  <2>1. v.approvals[r.approval] # None => s.approvals[r.approval] = v.approvals[r.approval]
    BY <1>2, <1>3 DEF IsCopy, RecordsGrow
  <2> QED BY <2>1, AnswersAreNotNone DEF ApprovalRefusal, ApprovalRecord, Answers
<1>10. None \notin {"EXACT_REPLAY", "COMMAND_CONFLICT", "LOGICAL_REPLAY",
                    "IDEMPOTENCY_CONFLICT", "STALE_REVISION", "TRANSACTION_ABORTED"}
  BY AnswersAreNotNone DEF Answers
<1> QED BY <1>4, <1>5, <1>6, <1>7, <1>8, <1>9, <1>10

LEMMA UnrefusedIntake ==
  ASSUME NEW v, NEW r, IntakeRefusal(v, r) = None
  PROVE  /\ v.commands[r.command] = None
         /\ v.reservations[r.key] = None
         /\ v.aggregates[r.aggregate] = None
         /\ v.approvals[r.approval] \in {None, r.payload}
<1>1. /\ CommandRefusal(v, r) = None /\ ReservationRefusal(v, r) = None
      /\ AggregateRefusal(v, r) = None /\ ApprovalRefusal(v, r) = None
  BY FirstRefusalOf DEF IntakeRefusal
<1>2. /\ "EXACT_REPLAY" # None /\ "COMMAND_CONFLICT" # None /\ "LOGICAL_REPLAY" # None
      /\ "IDEMPOTENCY_CONFLICT" # None /\ "STALE_REVISION" # None
  BY AnswersAreNotNone DEF Answers
<1>3. v.commands[r.command] = None
  BY <1>1, <1>2 DEF CommandRefusal
<1>4. v.reservations[r.key] = None
  BY <1>1, <1>2 DEF ReservationRefusal
<1>5. v.aggregates[r.aggregate] = None
  BY <1>1, <1>2 DEF AggregateRefusal
<1>6. v.approvals[r.approval] \in {None, r.payload}
  BY <1>1, <1>2 DEF ApprovalRefusal, ApprovalRecord
<1> QED BY <1>3, <1>4, <1>5, <1>6

LEMMA ClaimRefusalOf ==
  ASSUME NEW v, NEW j
  PROVE  /\ ClaimRefusal(v, j) \in {None, "EXACT_REPLAY", "ALREADY_CLAIMED", "STOPPED",
                                    "BLOCKED", "IDENTITY_CONFLICT"}
         /\ ClaimRefusal(v, j) = None =>
                /\ \A claim \in v.claims : ~ SameAuthority(claim, j)
                /\ v.control.permits
                /\ v.commands[j.command] # None
                /\ v.commands[j.command].key = j.key
                /\ v.reservations[j.key] # None
                /\ v.reservations[j.key].command = j.command
                /\ v.reservations[j.key].aggregate = v.commands[j.command].aggregate
                /\ v.aggregates[v.commands[j.command].aggregate] # None
                /\ v.aggregates[v.commands[j.command].aggregate].state = "DISPATCH_PENDING"
                /\ v.approvals[v.commands[j.command].approval] # None
                /\ v.approvals[v.commands[j.command].approval] = v.commands[j.command].payload
<1>1. /\ "EXACT_REPLAY" # None /\ "ALREADY_CLAIMED" # None /\ "STOPPED" # None
      /\ "BLOCKED" # None /\ "IDENTITY_CONFLICT" # None
  BY AnswersAreNotNone DEF Answers
<1>2. ClaimRefusal(v, j) \in {None, "EXACT_REPLAY", "ALREADY_CLAIMED", "STOPPED",
                              "BLOCKED", "IDENTITY_CONFLICT"}
  BY DEF ClaimRefusal
<1>3. ASSUME ClaimRefusal(v, j) = None
      PROVE  /\ \A claim \in v.claims : ~ SameAuthority(claim, j)
             /\ v.control.permits
             /\ v.commands[j.command] # None
             /\ None \notin {v.reservations[j.key],
                             v.aggregates[v.commands[j.command].aggregate],
                             v.approvals[v.commands[j.command].approval]}
             /\ v.aggregates[v.commands[j.command].aggregate].state = "DISPATCH_PENDING"
             /\ v.commands[j.command].key = j.key
             /\ v.reservations[j.key].command = j.command
             /\ v.reservations[j.key].aggregate = v.commands[j.command].aggregate
             /\ v.approvals[v.commands[j.command].approval] = v.commands[j.command].payload
  BY <1>1, <1>3 DEF ClaimRefusal
<1> QED BY <1>2, <1>3

\* The claim of a caller is the one it was granted.
LEMMA OwnClaimOf ==
  ASSUME NEW v, NEW j, Owns(v.claims, j)
  PROVE  OwnClaim(v, j) \in v.claims
BY DEF Owns, OwnClaim, SameAuthority

LEMMA AuthorizationRefusalOf ==
  ASSUME NEW v, NEW j
  PROVE  /\ AuthorizationRefusal(v, j) \in {None, "BLOCKED"}
         /\ AuthorizationRefusal(v, j) = None => ValidLatestClaim(OwnClaim(v, j), v)
BY AnswersAreNotNone DEF AuthorizationRefusal, Answers

LEMMA OutcomeRefusalOf ==
  ASSUME NEW v, NEW j
  PROVE  /\ OutcomeRefusal(v, j) \in {None, "UNRECORDED"}
         /\ OutcomeRefusal(v, j) = None => ValidLatestOutcome(OwnClaim(v, j), v)
BY AnswersAreNotNone DEF OutcomeRefusal, Answers

\* The claim that is granted to an attempt is one of the command it names.
LEMMA GrantedClaim ==
  ASSUME NEW s, NEW v, NEW j \in Jobs, "claim" \in Units(j),
         \A f \in Reads("claim") : IsCopy(f, v[f], s),
         ClaimRefusal(v, j) = None
  PROVE  /\ ClaimOf(v, j) \in Claims
         /\ Owns({ClaimOf(v, j)}, j)
         /\ \A claim : SameAuthority(claim, ClaimOf(v, j)) <=> SameAuthority(claim, j)
         /\ ValidLatestClaim(ClaimOf(v, j), v)
<1> DEFINE command == v.commands[j.command]
           x == ClaimOf(v, j)
<1>1. /\ j.command \in Commands /\ j.key \in Keys
      /\ j.submission \in {a.submission : a \in Attempts}
  BY JobKinds
<1>2. /\ v.aggregates \in [Aggregates -> AggregateRecords \cup {None}]
      /\ v.commands \in [Commands -> CommandRecords \cup {None}]
      /\ v.control \in ControlRecords
  BY ReadsOf DEF IsCopy, Collections
<1>3. command \in CommandRecords
  BY <1>1, <1>2, ClaimRefusalOf
<1>4. /\ command.aggregate \in Aggregates /\ command.payload \in Payloads
      /\ command.approval \in Approvals
  BY <1>3 DEF CommandRecords
<1>5. v.aggregates[command.aggregate] \in AggregateRecords
  BY <1>2, <1>4, ClaimRefusalOf
<1>6. v.aggregates[command.aggregate].revision \in Nat /\ v.control.generation \in Nat
  BY <1>2, <1>5 DEF AggregateRecords, ControlRecords
<1>7. x = [submission |-> j.submission, command |-> j.command, key |-> j.key,
           aggregate |-> command.aggregate, payload |-> command.payload,
           approval |-> command.approval,
           revision |-> v.aggregates[command.aggregate].revision,
           generation |-> v.control.generation]
  BY DEF ClaimOf
<1> HIDE DEF command, x
<1>8. x \in Claims
  BY <1>1, <1>4, <1>6, <1>7 DEF Claims
<1>9. /\ x.submission = j.submission /\ x.command = j.command /\ x.key = j.key
      /\ x.aggregate = command.aggregate /\ x.payload = command.payload
      /\ x.approval = command.approval
      /\ x.revision = v.aggregates[command.aggregate].revision
      /\ x.generation = v.control.generation
  BY <1>7
<1>10. Owns({x}, j) /\ \A claim : SameAuthority(claim, x) <=> SameAuthority(claim, j)
  BY <1>9 DEF Owns, SameAuthority
<1>11. ValidLatestClaim(x, v)
  <2>1. /\ v.control.permits
        /\ command # None
        /\ command.key = j.key
        /\ v.reservations[j.key] # None
        /\ v.reservations[j.key].command = j.command
        /\ v.reservations[j.key].aggregate = command.aggregate
        /\ v.aggregates[command.aggregate] # None
        /\ v.aggregates[command.aggregate].state = "DISPATCH_PENDING"
        /\ v.approvals[command.approval] = command.payload
    BY ClaimRefusalOf DEF command
  <2>2. v.commands[x.command] = command
    BY <1>9 DEF command
  <2> QED BY <1>9, <2>1, <2>2 DEF ValidLatestClaim
<1> QED BY <1>8, <1>10, <1>11 DEF x

\* A unit that is not refused stages what its kind stages.
LEMMA StagedOnCopy ==
  ASSUME NEW s, Coherent(s), NEW v, NEW kind \in UnitKinds, NEW j \in Jobs, kind \in Units(j),
         \A f \in Reads(kind) : IsCopy(f, v[f], s),
         kind \in {"authorize", "outcome"} => Owns(v.claims, j),
         Refusal(kind, v, j) = None
  PROVE  IsStaged(kind, j, Writes(kind, v, j), s)
<1>1. CASE kind = "intake"
  <2> DEFINE r == j.request
             w == IntakeWrites(v, r)
             e == IntakeWrites(EmptyStore, r)
  <2>1. r \in Requests /\ r.approval \in Approvals /\ r.payload # None
    BY <1>1, JobKinds, RequestFields
  <2>2. IntakeRefusal(v, r) = None /\ Writes(kind, v, j) = w
    BY <1>1, RefusalOf, WritesOf
  <2>3. v.approvals[r.approval] \in {None, r.payload}
    BY <2>2, UnrefusedIntake
  <2>4. EmptyStore.approvals[r.approval] = None
    BY <2>1 DEF EmptyStore
  <2>5. CASE v.approvals[r.approval] = None
    <3>1. w = e
      BY <2>4, <2>5 DEF IntakeWrites
    <3> QED BY <1>1, <2>2, <3>1 DEF IsStaged
  <2>6. CASE v.approvals[r.approval] = r.payload
    <3>1. w = [e EXCEPT !.approvals = None]
      BY <2>1, <2>4, <2>6, NothingFields, FieldNames DEF IntakeWrites
    <3>2. IsCopy("approvals", v.approvals, s)
      BY <1>1, ReadsOf
    <3>3. r.approval \in DOMAIN v.approvals
      BY <2>1, <3>2 DEF IsCopy, Collections
    <3>4. s.approvals[r.approval] = r.payload
      BY <2>1, <2>6, <3>2, <3>3 DEF IsCopy, RecordsGrow
    <3> QED BY <1>1, <2>2, <3>1, <3>4 DEF IsStaged
  <2> QED BY <2>3, <2>5, <2>6
<1>2. CASE kind = "control"
  <2> DEFINE x == ControlRecord(v.control.generation + 1, j.permits)
  <2>1. v.control \in ControlRecords /\ j.permits \in BOOLEAN
    BY <1>2, JobKinds, ReadsOf DEF IsCopy, Collections
  <2>2. x \in ControlRecords
    BY <2>1 DEF ControlRecord, ControlRecords
  <2>3. Writes(kind, v, j) = [Nothing EXCEPT !.control = x]
    BY <1>2, WritesOf
  <2> HIDE DEF x
  <2>4. [Nothing EXCEPT !.control = x].control = x
    BY NothingFields, FieldNames
  <2> QED BY <1>2, <2>2, <2>3, <2>4 DEF IsStaged
<1>3. CASE kind = "claim"
  <2> DEFINE x == ClaimOf(v, j)
  <2>1. ClaimRefusal(v, j) = None /\ Writes(kind, v, j) = [Nothing EXCEPT !.claims = x]
    BY <1>3, RefusalOf, WritesOf
  <2>2. x \in Claims /\ Owns({x}, j)
    BY <1>3, <2>1, GrantedClaim
  <2> HIDE DEF x
  <2>3. [Nothing EXCEPT !.claims = x].claims = x
    BY NothingFields, FieldNames
  <2> QED BY <1>3, <2>1, <2>2, <2>3 DEF IsStaged
<1>4. CASE kind = "authorize"
  <2> DEFINE x == OwnClaim(v, j)
  <2>1. Writes(kind, v, j) = [Nothing EXCEPT !.authorizations = x]
    BY <1>4, WritesOf
  <2>2. IsCopy("claims", v.claims, s)
    BY <1>4, ReadsOf, FieldNames
  <2>3. x \in s.claims
    BY <1>4, <2>2, OwnClaimOf DEF IsCopy
  <2> HIDE DEF x
  <2>4. [Nothing EXCEPT !.authorizations = x].authorizations = x
    BY NothingFields, FieldNames
  <2> QED BY <1>4, <2>1, <2>3, <2>4 DEF IsStaged
<1>5. CASE kind = "outcome"
  <2> DEFINE x == OwnClaim(v, j)
  <2>1. Writes(kind, v, j) = Outcome(x)
    BY <1>5, WritesOf DEF OutcomeWrites
  <2>2. IsCopy("claims", v.claims, s)
    BY <1>5, ReadsOf, FieldNames
  <2>3. x \in s.claims
    BY <1>5, <2>2, OwnClaimOf DEF IsCopy
  <2> HIDE DEF x
  <2>4. Outcome(x).resolutions = x
    BY NothingFields, FieldNames DEF Outcome
  <2> QED BY <1>5, <2>1, <2>3, <2>4 DEF IsStaged
<1> QED BY <1>1, <1>2, <1>3, <1>4, <1>5 DEF UnitKinds

\* Under the write lock the copy is the latest, and what is staged fits it.
LEMMA FitsOnCopy ==
  ASSUME NEW s, Coherent(s), NEW v, NEW kind \in UnitKinds, NEW j \in Jobs, kind \in Units(j),
         \A f \in Reads(kind) : IsCopy(f, v[f], s),
         \A f \in Reads(kind) : v[f] = s[f],
         kind \in {"authorize", "outcome"} => Owns(v.claims, j),
         Refusal(kind, v, j) = None
  PROVE  /\ Fits(kind, j, Writes(kind, v, j), s)
         /\ kind = "intake" => s.reservations[j.request.key] = None
<1>1. CASE kind = "intake"
  <2>1. IntakeRefusal(v, j.request) = None
    BY <1>1, RefusalOf
  <2>2. /\ v.aggregates = s.aggregates /\ v.commands = s.commands
        /\ v.reservations = s.reservations /\ v.approvals = s.approvals
    BY <1>1, ReadsOf
  <2> QED BY <1>1, <2>1, <2>2, UnrefusedIntake DEF Fits
<1>2. CASE kind = "control"
  <2> DEFINE x == ControlRecord(v.control.generation + 1, j.permits)
  <2>1. Writes(kind, v, j) = [Nothing EXCEPT !.control = x] /\ v.control = s.control
    BY <1>2, WritesOf, ReadsOf
  <2>2. x.generation = v.control.generation + 1
    BY DEF ControlRecord
  <2> HIDE DEF x
  <2>3. Writes(kind, v, j).control = x
    BY <2>1, NothingFields, FieldNames
  <2> QED BY <1>2, <2>1, <2>2, <2>3 DEF Fits
<1>3. CASE kind = "claim"
  <2> DEFINE x == ClaimOf(v, j)
  <2>1. ClaimRefusal(v, j) = None /\ Writes(kind, v, j) = [Nothing EXCEPT !.claims = x]
    BY <1>3, RefusalOf, WritesOf
  <2>2. /\ \A claim : SameAuthority(claim, x) <=> SameAuthority(claim, j)
        /\ ValidLatestClaim(x, v)
    BY <1>3, <2>1, GrantedClaim
  <2>3. \A claim \in v.claims : ~ SameAuthority(claim, j)
    BY <2>1, ClaimRefusalOf
  <2> HIDE DEF x
  <2>4. Writes(kind, v, j).claims = x
    BY <2>1, NothingFields, FieldNames
  <2>5. /\ v.aggregates = s.aggregates /\ v.commands = s.commands
        /\ v.reservations = s.reservations /\ v.approvals = s.approvals
        /\ v.control = s.control /\ v.claims = s.claims
    BY <1>3, ReadsOf
  <2>6. ValidLatestClaim(x, s)
    BY <2>2, <2>5 DEF ValidLatestClaim
  <2> QED BY <1>3, <2>2, <2>3, <2>4, <2>5, <2>6 DEF Fits
<1>4. CASE kind = "authorize"
  <2> DEFINE x == OwnClaim(v, j)
  <2>1. /\ AuthorizationRefusal(v, j) = None
        /\ Writes(kind, v, j) = [Nothing EXCEPT !.authorizations = x]
    BY <1>4, RefusalOf, WritesOf
  <2>2. ValidLatestClaim(x, v)
    BY <2>1, AuthorizationRefusalOf
  <2> HIDE DEF x
  <2>3. Writes(kind, v, j).authorizations = x
    BY <2>1, NothingFields, FieldNames
  <2>4. /\ v.aggregates = s.aggregates /\ v.commands = s.commands
        /\ v.reservations = s.reservations /\ v.approvals = s.approvals
        /\ v.control = s.control
    BY <1>4, ReadsOf, FieldNames
  <2>5. ValidLatestClaim(x, s)
    BY <2>2, <2>4 DEF ValidLatestClaim
  <2> QED BY <1>4, <2>3, <2>5 DEF Fits
<1>5. CASE kind = "outcome"
  <2> DEFINE x == OwnClaim(v, j)
  <2>1. OutcomeRefusal(v, j) = None /\ Writes(kind, v, j) = Outcome(x)
    BY <1>5, RefusalOf, WritesOf DEF OutcomeWrites
  <2>2. ValidLatestOutcome(x, v)
    BY <2>1, OutcomeRefusalOf
  <2> HIDE DEF x
  <2>3. Writes(kind, v, j).resolutions = x
    BY <2>1, NothingFields, FieldNames DEF Outcome
  <2>4. /\ v.aggregates = s.aggregates /\ v.commands = s.commands
        /\ v.reservations = s.reservations /\ v.approvals = s.approvals
        /\ v.control = s.control /\ v.claims = s.claims
        /\ v.authorizations = s.authorizations /\ v.resolutions = s.resolutions
    BY <1>5, ReadsOf, FieldNames
  <2>5. ValidLatestOutcome(x, s)
    BY <2>2, <2>4 DEF ValidLatestOutcome, ValidLatestClaim
  <2> QED BY <1>5, <2>3, <2>5 DEF Fits
<1> QED BY <1>1, <1>2, <1>3, <1>4, <1>5 DEF UnitKinds

(***************************************************************************)
(* Callers.                                                                *)
(***************************************************************************)

\* A caller that has been called has a job and is in a unit of it.
LEMMA Working ==
  ASSUME IInv, NEW c \in Callers, at[c] # "idle"
  PROVE  /\ job[c] \in Jobs /\ job[c] # None
         /\ unit[c] \in Units(job[c]) /\ unit[c] \in UnitKinds
         /\ unit[c] \in {"intake", "control"} => job[c].kind = unit[c]
         /\ unit[c] \in {"claim", "authorize", "outcome"} => job[c].kind = "dispatch"
         /\ job[c].kind = "intake" => job[c].request \in Requests /\ unit[c] = "intake"
<1>1. Occupied(c) /\ job[c] \in Jobs \cup {None}
  BY DEF IInv, TypeOK
<1>2. job[c] \in Jobs /\ job[c] # None
  BY <1>1, NoneAssumption DEF Occupied
<1>3. unit[c] \in Units(job[c])
  BY <1>1, <1>2 DEF Occupied
<1>4. job[c].kind = "intake" => Units(job[c]) = {"intake"}
  BY DEF Units
<1> QED BY <1>2, <1>3, <1>4, JobKinds

\* The answers of intakes are given by intakes only.
LEMMA Answered ==
  ASSUME IInv, NEW c \in Callers
  PROVE  /\ at[c] # "done" => answer[c] = None
         /\ answer[c] # None /\ job[c].kind = "intake" =>
                job[c].request \in Requests /\ IntakeAnswerHolds(c)
         /\ answer[c] = "ACCEPTED_FOR_DISPATCH" =>
                /\ job[c].kind = "intake"
                /\ job[c].request \in Requests
                /\ IntakeAnswerHolds(c)
<1>1. at[c] # "done" => answer[c] = None
  BY DEF IInv, Occupied
<1>2. ASSUME answer[c] # None, job[c].kind = "intake"
      PROVE  job[c].request \in Requests /\ IntakeAnswerHolds(c)
  <2>1. at[c] # "idle"
    BY <1>1, <1>2
  <2> QED BY <1>2, <2>1, Working DEF IInv, AnswersHold
<1>3. answer[c] = "ACCEPTED_FOR_DISPATCH" => job[c].kind = "intake" /\ answer[c] # None
  BY AnswersAreNotNone DEF IInv, Occupied, Answers
<1> QED BY <1>1, <1>2, <1>3

\* A caller that takes no part in a step.
Same(d) ==
    /\ at'[d] = at[d]
    /\ job'[d] = job[d]
    /\ unit'[d] = unit[d]
    /\ view'[d] = view[d]
    /\ writes'[d] = writes[d]
    /\ answer'[d] = answer[d]

\* What holds of a caller outlasts the steps of others: what it has copied and
\* staged stays true as the records grow, and they are as it found them while
\* it holds the write lock.
LEMMA SameStays ==
  ASSUME IInv, NEW d \in Callers, Same(d), isolation' = isolation,
         store' \in Stores, Grows(store, store'),
         store' = store \/ ~ (isolation = "immediate" /\ at[d] \in {"open", "staged"})
  PROVE  Occupied(d)' /\ Copied(d)' /\ Waiting(d)'
<1>1. store \in Stores /\ Occupied(d) /\ Copied(d) /\ Waiting(d)
  BY DEF IInv, Coherent
<1>2. store.claims \subseteq store'.claims
  BY DEF Grows
<1>3. Occupied(d)'
  <2>1. Owns(store.claims, job[d]) => Owns(store'.claims, job[d])
    BY <1>2, OwnershipStays
  <2> QED BY <1>1, <2>1 DEF Occupied, Same
<1>4. Copied(d)'
  <2> SUFFICES ASSUME at[d] \in {"begin", "open"}
               PROVE  Copied(d)'
    BY DEF Copied, Same
  <2>1. \A f \in Range(Fields) : Has(d, f)' <=> Has(d, f)
    BY DEF Has, Same
  <2>2. \A f \in Range(Fields) : Has(d, f) => IsCopy(f, view[d][f], store')
    BY <1>1, CopyStays DEF Copied
  <2>3. isolation = "immediate" /\ at[d] = "open" =>
            \A f \in Reads(unit[d]) : view[d][f] = store'[f]
    BY <1>1 DEF Copied
  <2>4. "claims" \in Range(Fields)
    BY FieldNames
  <2> QED BY <1>1, <2>1, <2>2, <2>3, <2>4 DEF Copied, Same
<1>5. Waiting(d)'
  <2> SUFFICES ASSUME at[d] = "staged"
               PROVE  Waiting(d)'
    BY DEF Waiting, Same
  <2>1. unit[d] = "intake" => job[d].request \in Requests
    BY Working
  <2>2. IsStaged(unit[d], job[d], writes[d], store')
    BY <1>1, <2>1, StagedStays DEF Waiting
  <2> QED BY <1>1, <2>2 DEF Waiting, Same
<1> QED BY <1>3, <1>4, <1>5

\* A step of c that neither commits nor publishes: what it tells c must be true.
LEMMA LocalStep ==
  ASSUME IInv, NEW c \in Callers, store' = store, isolation' = isolation,
         at[c] \notin {"publishing", "done"}, at'[c] # "publishing",
         \A d \in Callers \ {c} : Same(d),
         answer'[c] \notin {"SAVED", "ACCEPTED_FOR_DISPATCH"},
         TypeOK', DOMAIN view' = Callers, DOMAIN writes' = Callers,
         answer'[c] # None /\ job'[c].kind = "intake" => IntakeAnswerHolds(c)',
         Occupied(c)', Copied(c)', Waiting(c)'
  PROVE  IInv'
<1>1. store \in Stores /\ Coherent(store) /\ Grows(store, store')
  BY GrowsReflexive DEF IInv, Coherent
<1>2. \A d \in Callers : Occupied(d)' /\ Copied(d)' /\ Waiting(d)'
  BY <1>1, SameStays
<1>3. Publishing' <=> Publishing
  BY DEF Publishing, Same
<1>4. answer[c] = None
  BY Answered
<1>5. Saved' = Saved
  BY <1>4, AnswersAreNotNone DEF Saved, Same, Answers
<1>6. \A d \in Callers :
          answer'[d] = "ACCEPTED_FOR_DISPATCH" =>
              d # c /\ Same(d) /\ answer[d] = "ACCEPTED_FOR_DISPATCH"
  BY DEF Same
<1>7. AnswersHold'
  <2>1. ASSUME NEW d \in Callers, answer'[d] # None, job'[d].kind = "intake"
        PROVE  IntakeAnswerHolds(d)'
    <3>1. CASE d = c
      BY <2>1, <3>1
    <3>2. CASE d # c
      <4>1. /\ answer'[d] = answer[d] /\ job'[d] = job[d]
        BY <3>2 DEF Same
      <4>2. job[d].request \in Requests /\ IntakeAnswerHolds(d)
        BY <2>1, <4>1, Answered
      <4> QED BY <1>1, <4>1, <4>2, AnswerStays
    <3> QED BY <3>1, <3>2
  <2>2. AcceptedOnce'
    BY <1>6 DEF IInv, AnswersHold, AcceptedOnce, Same
  <2>3. ~ Publishing' => store'.control.generation = 1 + Cardinality(Saved')
    BY <1>3, <1>5 DEF IInv, AnswersHold
  <2> QED BY <2>1, <2>2, <2>3 DEF AnswersHold
<1>8. ASSUME NEW d \in Callers
      PROVE  InPublication(d)'
  <2> SUFFICES ASSUME at'[d] = "publishing"
               PROVE  InPublication(d)'
    BY DEF InPublication
  <2>1. d # c /\ Same(d) /\ InPublication(d)
    BY DEF IInv
  <2>2. at[d] = "publishing" /\ view'[d] = view[d] /\ unit'[d] = unit[d] /\ job'[d] = job[d]
    BY <2>1 DEF Same
  <2>3. /\ Settled(view[d]) /\ Grows(store, view[d])
        /\ store.control.generation <= view[d].control.generation
        /\ view[d].control.generation =
               1 + Cardinality(Saved) + (IF unit[d] = "control" THEN 1 ELSE 0)
        /\ \A claim \in (view[d].authorizations \ store.authorizations)
                            \cup (view[d].resolutions \ store.resolutions) :
               /\ store.control = view[d].control
               /\ store.control.permits
               /\ store.control.generation = claim.generation
        /\ unit[d] = "claim" => Owns(view[d].claims, job[d])
    BY <2>1, <2>2 DEF InPublication, Ready
  <2>4. unit[d] = "intake" =>
            LET r == job[d].request IN
            /\ view[d].commands[r.command] # None
            /\ view[d].commands[r.command].payload = r.payload
            /\ view[d].aggregates[r.aggregate] # None
            /\ view[d].aggregates[r.aggregate].command = r.command
            /\ \A e \in Callers :
                   answer'[e] = "ACCEPTED_FOR_DISPATCH" =>
                       /\ job'[e].request.command # r.command
                       /\ job'[e].request.aggregate # r.aggregate
    BY <1>6, <2>1, <2>2 DEF InPublication, Ready, Same
  <2> QED BY <1>5, <2>2, <2>3, <2>4 DEF InPublication, Ready
<1>9. (~ Publishing => Settled(store))' /\ (isolation = "immediate" => OneCommandPerKey)'
  BY <1>3 DEF IInv, OneCommandPerKey
<1> QED BY <1>1, <1>2, <1>7, <1>8, <1>9 DEF IInv

(***************************************************************************)
(* Step by step.                                                           *)
(***************************************************************************)

LEMMA Functions ==
  ASSUME IInv
  PROVE  /\ DOMAIN at = Callers /\ DOMAIN job = Callers /\ DOMAIN unit = Callers
         /\ DOMAIN view = Callers /\ DOMAIN writes = Callers /\ DOMAIN answer = Callers
BY DEF IInv, TypeOK

LEMMA CallStep ==
  ASSUME IInv, NEW c \in Callers, NEW j \in Jobs, Call(c, j)
  PROVE  IInv'
<1>1. /\ at[c] = "idle" /\ store' = store /\ isolation' = isolation /\ lock' = lock
      /\ view' = view /\ writes' = writes /\ answer' = answer
      /\ job' = [job EXCEPT ![c] = j]
      /\ unit' = [unit EXCEPT ![c] = FirstUnit(j)]
      /\ at' = [at EXCEPT ![c] = "begin"]
  BY DEF Call
<1>2. /\ at'[c] = "begin" /\ job'[c] = j /\ unit'[c] = FirstUnit(j)
      /\ \A d \in Callers \ {c} : Same(d)
  BY <1>1, Functions DEF Same
<1>3. /\ j # None /\ FirstUnit(j) \in Units(j) /\ FirstUnit(j) \in UnitKinds
      /\ FirstUnit(j) \notin {"authorize", "outcome"}
  BY JobKinds, NoneAssumption
<1>4. /\ answer'[c] = None /\ view'[c] = Nothing
  BY <1>1, Answered DEF IInv, Occupied
<1>5. TypeOK'
  BY <1>1, <1>3 DEF IInv, TypeOK, Phases
<1>6. Occupied(c)'
  BY <1>2, <1>3, <1>4, AnswersAreNotNone DEF Occupied, Answers
<1>7. Copied(c)'
  <2>1. \A f \in Range(Fields) : ~ Has(c, f)'
    BY <1>2, <1>4, NothingFields DEF Has
  <2>2. /\ DOMAIN view'[c] = Range(Fields) /\ at'[c] # "open"
        /\ unit'[c] \notin {"authorize", "outcome"}
    BY <1>2, <1>3, <1>4, NothingFields
  <2> QED BY <2>1, <2>2 DEF Copied
<1>8. Waiting(c)'
  BY <1>2 DEF Waiting
<1>9. answer'[c] \notin {"SAVED", "ACCEPTED_FOR_DISPATCH"}
  BY <1>4, AnswersAreNotNone DEF Answers
<1> QED BY <1>1, <1>2, <1>4, <1>5, <1>6, <1>7, <1>8, <1>9, Functions, LocalStep

\* The next collection is copied as it is.
LEMMA CopyFieldStep ==
  ASSUME IInv, NEW c \in Callers, CopyField(c)
  PROVE  IInv'
<1>1. PICK f \in Uncopied(c) :
          /\ view' = [view EXCEPT ![c][f] = store[f]]
          /\ at' = [at EXCEPT ![c] = IF Uncopied(c) = {f} THEN "open" ELSE "begin"]
  BY DEF CopyField
<1>2. /\ isolation = "snapshot" /\ at[c] = "begin" /\ store' = store /\ isolation' = isolation
      /\ lock' = lock /\ job' = job /\ unit' = unit /\ writes' = writes /\ answer' = answer
  BY DEF CopyField
<1>3. /\ store \in Stores /\ Copied(c) /\ Occupied(c)
      /\ DOMAIN view[c] = Range(Fields)
  BY <1>2 DEF IInv, Coherent, Copied
<1>4. f \in Range(Fields) /\ f \in Reads(unit[c]) /\ Reads(unit[c]) \subseteq Range(Fields)
  BY <1>2, Working, ReadFields DEF Uncopied
<1>5. /\ DOMAIN view'[c] = Range(Fields) /\ view'[c][f] = store[f]
      /\ \A g \in Range(Fields) : g # f => view'[c][g] = view[c][g]
      /\ DOMAIN view' = Callers
      /\ \A d \in Callers \ {c} : view'[d] = view[d]
  BY <1>1, <1>3, <1>4, Functions
<1>6. /\ at'[c] = IF Uncopied(c) = {f} THEN "open" ELSE "begin"
      /\ \A d \in Callers \ {c} : at'[d] = at[d]
  BY <1>1, Functions
<1>7. /\ \A d \in Callers \ {c} : Same(d)
      /\ answer'[c] = None
  BY <1>2, <1>5, <1>6, Answered DEF Same
<1>8. TypeOK'
  <2>1. at' \in [Callers -> Phases] /\ at'[c] \in {"begin", "open"}
    BY <1>1, <1>6 DEF IInv, TypeOK, Phases
  <2> QED BY <1>2, <1>6, <2>1 DEF IInv, TypeOK
<1>9. Occupied(c)'
  BY <1>2, <1>3, <1>6, <1>7, AnswersAreNotNone DEF Occupied, Answers
<1>10. Copied(c)'
  <2>1. ASSUME NEW g \in Range(Fields), Has(c, g)', g # f
        PROVE  Has(c, g)
    <3>1. CASE at'[c] = "begin"
      BY <1>5, <2>1, <3>1 DEF Has
    <3>2. CASE at'[c] = "open"
      <4>1. Uncopied(c) = {f}
        BY <1>6, <3>2
      <4>2. g \in Reads(unit[c]) => view[c][g] # None
        BY <2>1, <4>1 DEF Uncopied
      <4> QED BY <1>2, <1>5, <2>1, <3>2, <4>2 DEF Has
    <3> QED BY <1>6, <3>1, <3>2
  <2>2. ASSUME NEW g \in Range(Fields), Has(c, g)'
        PROVE  IsCopy(g, view'[c][g], store)
    <3>1. CASE g = f
      BY <1>3, <1>5, <3>1, CopyOfStore
    <3>2. CASE g # f
      BY <1>2, <1>3, <1>5, <2>1, <2>2, <3>2 DEF Copied
    <3> QED BY <3>1, <3>2
  <2>3. unit[c] \in {"authorize", "outcome"} /\ Has(c, "claims")' =>
            Owns(view'[c].claims, job[c])
    BY <1>2, <1>3, <1>5, <2>1, FieldNames DEF Copied, Occupied
  <2>4. /\ \A g \in Range(Fields) : Has(c, g)' => IsCopy(g, view'[c][g], store')
        /\ unit'[c] \in {"authorize", "outcome"} /\ Has(c, "claims")' =>
               Owns(view'[c].claims, job'[c])
        /\ isolation' # "immediate"
    BY <1>2, <2>2, <2>3
  <2> QED BY <1>5, <2>4 DEF Copied
<1>11. Waiting(c)'
  BY <1>6 DEF Waiting
<1>12. answer'[c] \notin {"SAVED", "ACCEPTED_FOR_DISPATCH"}
  BY <1>7, AnswersAreNotNone DEF Answers
<1> QED BY <1>2, <1>5, <1>6, <1>7, <1>8, <1>9, <1>10, <1>11, <1>12, Functions, LocalStep

\* The write lock is free, and the latest rows are read under it.
LEMMA BeginImmediateStep ==
  ASSUME IInv, NEW c \in Callers, BeginImmediate(c)
  PROVE  IInv'
<1> DEFINE rows == [f \in Range(Fields) |-> IF f \in Reads(unit[c]) THEN store[f] ELSE None]
<1>1. /\ isolation = "immediate" /\ at[c] = "begin" /\ lock = None /\ lock' = c
      /\ view' = [view EXCEPT ![c] = rows] /\ at' = [at EXCEPT ![c] = "open"]
      /\ store' = store /\ isolation' = isolation
      /\ job' = job /\ unit' = unit /\ writes' = writes /\ answer' = answer
  BY DEF BeginImmediate
<1>2. /\ store \in Stores /\ Occupied(c)
      /\ Reads(unit[c]) \subseteq Range(Fields)
  BY <1>1, Working, ReadFields DEF IInv, Coherent
<1>3. /\ DOMAIN rows = Range(Fields)
      /\ \A f \in Reads(unit[c]) : rows[f] = store[f]
      /\ \A f \in Range(Fields) : rows[f] # None => f \in Reads(unit[c])
  BY <1>2
<1> HIDE DEF rows
<1>4. /\ at'[c] = "open" /\ view'[c] = rows /\ DOMAIN view' = Callers
      /\ \A d \in Callers \ {c} : Same(d)
      /\ answer'[c] = None
  BY <1>1, Functions, Answered DEF Same
<1>5. TypeOK'
  <2>1. \A d \in Callers : at[d] \notin {"open", "staged"}
    BY <1>1, NoneAssumption DEF IInv, TypeOK
  <2>2. at' \in [Callers -> Phases]
    BY <1>1 DEF IInv, TypeOK, Phases
  <2>3. \A d \in Callers : lock' = d <=> at'[d] \in {"open", "staged"}
    BY <1>1, <2>1, Functions
  <2> QED BY <1>1, <2>2, <2>3 DEF IInv, TypeOK
<1>6. Occupied(c)'
  BY <1>1, <1>2, <1>4, AnswersAreNotNone DEF Occupied, Answers
<1>7. Copied(c)'
  <2>1. ASSUME NEW f \in Range(Fields), Has(c, f)'
        PROVE  f \in Reads(unit[c])
    BY <1>1, <1>3, <1>4, <2>1 DEF Has
  <2>2. ASSUME NEW f \in Range(Fields), Has(c, f)'
        PROVE  IsCopy(f, view'[c][f], store')
    BY <1>1, <1>2, <1>3, <1>4, <2>1, <2>2, CopyOfStore
  <2>3. unit'[c] \in {"authorize", "outcome"} /\ Has(c, "claims")' =>
            Owns(view'[c].claims, job'[c])
    BY <1>1, <1>2, <1>3, <1>4, <2>1, FieldNames DEF Occupied
  <2>4. \A f \in Reads(unit'[c]) : view'[c][f] = store'[f]
    BY <1>1, <1>3, <1>4
  <2>5. DOMAIN view'[c] = Range(Fields)
    BY <1>3, <1>4
  <2> QED BY <2>2, <2>3, <2>4, <2>5 DEF Copied
<1>8. Waiting(c)'
  BY <1>4 DEF Waiting
<1>9. answer'[c] \notin {"SAVED", "ACCEPTED_FOR_DISPATCH"}
  BY <1>4, AnswersAreNotNone DEF Answers
<1> QED BY <1>1, <1>4, <1>5, <1>6, <1>7, <1>8, <1>9, Functions, LocalStep

\* What an open unit has copied.
LEMMA OpenCopy ==
  ASSUME IInv, NEW c \in Callers, at[c] = "open"
  PROVE  /\ Coherent(store) /\ job[c] \in Jobs /\ unit[c] \in UnitKinds
         /\ unit[c] \in Units(job[c])
         /\ \A f \in Reads(unit[c]) : IsCopy(f, view[c][f], store)
         /\ unit[c] \in {"authorize", "outcome"} => Owns(view[c].claims, job[c])
         /\ isolation = "immediate" => \A f \in Reads(unit[c]) : view[c][f] = store[f]
<1>1. /\ Copied(c) /\ unit[c] \in UnitKinds /\ Reads(unit[c]) \subseteq Range(Fields)
  BY Working, ReadFields DEF IInv
<1>2. \A f \in Reads(unit[c]) : IsCopy(f, view[c][f], store)
  BY <1>1 DEF Copied, Has
<1>3. unit[c] \in {"authorize", "outcome"} => "claims" \in Reads(unit[c])
  BY ReadsOf, FieldNames
<1>4. unit[c] \in {"authorize", "outcome"} => Owns(view[c].claims, job[c])
  BY <1>1, <1>3 DEF Copied, Has
<1> QED BY <1>1, <1>2, <1>4, Working DEF IInv, Copied

LEMMA StageStep ==
  ASSUME IInv, NEW c \in Callers, Stage(c)
  PROVE  IInv'
<1> DEFINE w == Writes(unit[c], view[c], job[c])
<1>1. /\ at[c] = "open" /\ Refusal(unit[c], view[c], job[c]) = None
      /\ writes' = [writes EXCEPT ![c] = w]
      /\ view' = [view EXCEPT ![c] = Nothing] /\ at' = [at EXCEPT ![c] = "staged"]
      /\ store' = store /\ isolation' = isolation /\ lock' = lock
      /\ job' = job /\ unit' = unit /\ answer' = answer
  BY DEF Stage
<1>2. IsStaged(unit[c], job[c], w, store)
  BY <1>1, OpenCopy, StagedOnCopy
<1>3. isolation = "immediate" =>
          /\ Fits(unit[c], job[c], w, store)
          /\ unit[c] = "intake" => store.reservations[job[c].request.key] = None
  BY <1>1, OpenCopy, FitsOnCopy
<1> HIDE DEF w
<1>4. /\ at'[c] = "staged" /\ writes'[c] = w /\ DOMAIN view' = Callers
      /\ DOMAIN writes' = Callers
      /\ \A d \in Callers \ {c} : Same(d)
      /\ answer'[c] = None
  BY <1>1, Functions, Answered DEF Same
<1>5. TypeOK'
  <2>1. at' \in [Callers -> Phases]
    BY <1>1 DEF IInv, TypeOK, Phases
  <2>2. \A d \in Callers : at'[d] = IF d = c THEN "staged" ELSE at[d]
    BY <1>1, Functions
  <2> QED BY <1>1, <2>1, <2>2 DEF IInv, TypeOK
<1>6. Occupied(c)'
  BY <1>1, <1>4, AnswersAreNotNone DEF IInv, Occupied, Answers
<1>7. Copied(c)'
  BY <1>4 DEF Copied
<1>8. Waiting(c)'
  BY <1>1, <1>2, <1>3, <1>4 DEF Waiting
<1>9. answer'[c] \notin {"SAVED", "ACCEPTED_FOR_DISPATCH"}
  BY <1>4, AnswersAreNotNone DEF Answers
<1> QED BY <1>1, <1>4, <1>5, <1>6, <1>7, <1>8, <1>9, Functions, LocalStep

\* A unit ends without a commit, and the lock it may hold is free again.
LEMMA EndStep ==
  ASSUME IInv, NEW c \in Callers, NEW what \in Answers \ {"SAVED", "ACCEPTED_FOR_DISPATCH"},
         at[c] \notin {"idle", "publishing", "done"}, End(c, what),
         store' = store, isolation' = isolation, job' = job, unit' = unit,
         lock' = Released(c),
         job[c].kind = "intake" => IntakeAnswerHolds(c)'
  PROVE  IInv'
<1>1. /\ at' = [at EXCEPT ![c] = "done"] /\ view' = [view EXCEPT ![c] = Nothing]
      /\ writes' = [writes EXCEPT ![c] = Nothing]
      /\ answer' = [answer EXCEPT ![c] = what]
  BY DEF End
<1>2. /\ at'[c] = "done" /\ answer'[c] = what
      /\ DOMAIN view' = Callers /\ DOMAIN writes' = Callers
      /\ \A d \in Callers \ {c} : Same(d)
  BY <1>1, Functions DEF Same
<1>3. TypeOK'
  <2>1. at' \in [Callers -> Phases] /\ answer' \in [Callers -> Answers \cup {None}]
    BY <1>1 DEF IInv, TypeOK, Phases
  <2>2. lock' \in Callers \cup {None}
    BY DEF IInv, TypeOK, Released
  <2>3. \A d \in Callers : lock' = d <=> at'[d] \in IF isolation = "immediate"
                                                   THEN {"open", "staged"} ELSE {"publishing"}
    BY <1>1, NoneAssumption, Functions DEF IInv, TypeOK, Released
  <2> QED BY <2>1, <2>2, <2>3 DEF IInv, TypeOK
<1>4. Occupied(c)'
  BY <1>2 DEF IInv, Occupied
<1>5. Copied(c)' /\ Waiting(c)'
  BY <1>2 DEF Copied, Waiting
<1> QED BY <1>2, <1>3, <1>4, <1>5, LocalStep

LEMMA BusyStep ==
  ASSUME IInv, NEW c \in Callers, Busy(c)
  PROVE  IInv'
<1>1. /\ isolation = "immediate" /\ at[c] = "begin" /\ End(c, "BUSY")
      /\ store' = store /\ isolation' = isolation /\ lock' = lock
      /\ job' = job /\ unit' = unit
  BY DEF Busy
<1>2. lock' = Released(c)
  BY <1>1 DEF IInv, TypeOK, Released
<1>3. answer'[c] = "BUSY"
  BY <1>1, Functions DEF End
<1>4. IntakeAnswerHolds(c)'
  BY <1>3 DEF IntakeAnswerHolds
<1>5. "BUSY" \in Answers \ {"SAVED", "ACCEPTED_FOR_DISPATCH"}
  BY DEF Answers
<1> QED BY <1>1, <1>2, <1>4, <1>5, EndStep

LEMMA CrashStep ==
  ASSUME IInv, NEW c \in Callers, Crash(c)
  PROVE  IInv'
<1>1. /\ at[c] \in {"begin", "open", "staged"} /\ End(c, "CRASHED")
      /\ store' = store /\ isolation' = isolation /\ lock' = Released(c)
      /\ job' = job /\ unit' = unit
  BY DEF Crash
<1>2. answer'[c] = "CRASHED"
  BY <1>1, Functions DEF End
<1>3. IntakeAnswerHolds(c)'
  BY <1>2 DEF IntakeAnswerHolds
<1>4. "CRASHED" \in Answers \ {"SAVED", "ACCEPTED_FOR_DISPATCH"}
  BY DEF Answers
<1> QED BY <1>1, <1>3, <1>4, EndStep

\* An intake that rolls back was told the truth; the other units never answer
\* as an intake does.
LEMMA RollBackStep ==
  ASSUME IInv, NEW c \in Callers, RollBack(c)
  PROVE  IInv'
<1> DEFINE what == Refusal(unit[c], view[c], job[c])
<1>1. /\ at[c] = "open" /\ what # None /\ End(c, what)
      /\ store' = store /\ isolation' = isolation /\ lock' = Released(c)
      /\ job' = job /\ unit' = unit
  BY DEF RollBack
<1>2. /\ Coherent(store) /\ job[c] \in Jobs /\ unit[c] \in UnitKinds
      /\ \A f \in Reads(unit[c]) : IsCopy(f, view[c][f], store)
  BY <1>1, OpenCopy
<1>3. CASE unit[c] = "intake"
  <2> DEFINE r == job[c].request
  <2>1. job[c].kind = "intake" /\ r \in Requests
    BY <1>1, <1>3, Working
  <2>2. what = IntakeRefusal(view[c], r)
    BY <1>3, RefusalOf
  <2>3. /\ what \in {"EXACT_REPLAY", "COMMAND_CONFLICT", "LOGICAL_REPLAY",
                     "IDEMPOTENCY_CONFLICT", "STALE_REVISION", "TRANSACTION_ABORTED"}
        /\ what = "EXACT_REPLAY" =>
               store.commands[r.command] # None /\ store.commands[r.command].payload = r.payload
        /\ what = "LOGICAL_REPLAY" =>
               store.reservations[r.key] # None /\ store.reservations[r.key].payload = r.payload
        /\ what = "COMMAND_CONFLICT" =>
               \/ store.commands[r.command] # None
                  /\ store.commands[r.command].payload # r.payload
               \/ store.approvals[r.approval] \notin {None, r.payload}
        /\ what = "IDEMPOTENCY_CONFLICT" =>
               store.reservations[r.key] # None /\ store.reservations[r.key].payload # r.payload
        /\ what \in {"STALE_REVISION", "TRANSACTION_ABORTED"} =>
               store.aggregates[r.aggregate] # None
    BY <1>1, <1>2, <1>3, <2>1, <2>2, RefusedOnCopy
  <2> HIDE DEF what
  <2>4. answer'[c] = what /\ job'[c].request = r /\ store' = store
    BY <1>1, Functions DEF End
  <2>5. IntakeAnswerHolds(c)'
    BY <2>3, <2>4 DEF IntakeAnswerHolds
  <2>6. what \in Answers \ {"SAVED", "ACCEPTED_FOR_DISPATCH"}
    BY <2>3 DEF Answers
  <2> QED BY <1>1, <2>5, <2>6, EndStep
<1>4. CASE unit[c] # "intake"
  <2>1. unit[c] # "control"
    BY <1>1, RefusalOf
  <2>2. job[c].kind # "intake"
    BY <1>1, <1>4, Working
  <2>3. what \in {"EXACT_REPLAY", "ALREADY_CLAIMED", "STOPPED", "BLOCKED",
                  "IDENTITY_CONFLICT", "UNRECORDED"}
    BY <1>1, <1>2, <1>4, <2>1, RefusalOf, ClaimRefusalOf, AuthorizationRefusalOf,
       OutcomeRefusalOf DEF UnitKinds
  <2> HIDE DEF what
  <2>4. what \in Answers \ {"SAVED", "ACCEPTED_FOR_DISPATCH"}
    BY <2>3 DEF Answers
  <2> QED BY <1>1, <2>2, <2>4, EndStep
<1> QED BY <1>3, <1>4

LEMMA RefuseCommitStep ==
  ASSUME IInv, NEW c \in Callers, RefuseCommit(c)
  PROVE  IInv'
<1> DEFINE what == RefusedCommit(unit[c])
<1>1. /\ at[c] = "staged" /\ lock = None /\ Conflict(store, writes[c]) /\ End(c, what)
      /\ store' = store /\ isolation' = isolation /\ lock' = lock
      /\ job' = job /\ unit' = unit
  BY DEF RefuseCommit
<1>2. lock' = Released(c)
  BY <1>1 DEF Released
<1>3. unit[c] \in UnitKinds /\ Coherent(store)
  BY <1>1, Working DEF IInv
<1>4. what \in {"TRANSACTION_ABORTED", "STALE_REVISION", "BLOCKED", "UNRECORDED"}
  BY <1>3, RefusedCommitOf DEF UnitKinds
<1>5. job[c].kind = "intake" => IntakeAnswerHolds(c)'
  <2> SUFFICES ASSUME job[c].kind = "intake" PROVE IntakeAnswerHolds(c)'
    OBVIOUS
  <2> DEFINE r == job[c].request
             w == writes[c]
  <2>1. unit[c] = "intake" /\ r \in Requests
    BY <1>1, Working
  <2>2. what = "TRANSACTION_ABORTED"
    BY <2>1, RefusedCommitOf
  <2>3. \/ w = IntakeWrites(EmptyStore, r)
        \/ /\ w = [IntakeWrites(EmptyStore, r) EXCEPT !.approvals = None]
           /\ store.approvals[r.approval] = r.payload
    BY <1>1, <2>1 DEF IInv, Waiting, IsStaged
  <2>4. \/ store.aggregates[r.aggregate] # None
        \/ store.commands[r.command] # None
        \/ store.reservations[r.key] # None
        \/ store.approvals[r.approval] # None
    <3> HIDE DEF r, w
    <3>1. Conflict(store, w)
      BY <1>1 DEF w
    <3> QED BY <1>3, <2>1, <2>3, <3>1, RefusedIntake
  <2>5. answer'[c] = "TRANSACTION_ABORTED" /\ job'[c].request = r /\ store' = store
    BY <1>1, <2>2, Functions DEF End
  <2> QED BY <2>4, <2>5 DEF IntakeAnswerHolds
<1> HIDE DEF what
<1>6. what \in Answers \ {"SAVED", "ACCEPTED_FOR_DISPATCH"}
  BY <1>4 DEF Answers
<1> QED BY <1>1, <1>2, <1>5, <1>6, EndStep

(***************************************************************************)
(* Commits.                                                                *)
(***************************************************************************)

LEMMA SavedCount ==
  ASSUME IInv, NEW c \in Callers, at[c] # "done"
  PROVE  /\ c \notin Saved
         /\ Cardinality(Saved) \in Nat
         /\ Cardinality(Saved \cup {c}) = Cardinality(Saved) + 1
         /\ Cardinality(Callers) \in Nat
         /\ Cardinality(Saved) + 1 <= Cardinality(Callers)
<1>1. c \notin Saved
  BY Answered, AnswersAreNotNone DEF Saved, Answers
<1>2. IsFiniteSet(Callers) /\ Saved \subseteq Callers /\ Saved \cup {c} \subseteq Callers
  BY IntakeAssumption DEF Saved
<1>3. IsFiniteSet(Saved)
  BY <1>2, FS_Subset
<1>4. Cardinality(Saved) \in Nat /\ Cardinality(Callers) \in Nat
  BY <1>2, <1>3, FS_CardinalityType
<1>5. Cardinality(Saved \cup {c}) = Cardinality(Saved) + 1
  BY <1>1, <1>3, FS_AddElement
<1>6. Cardinality(Saved \cup {c}) <= Cardinality(Callers)
  BY <1>2, FS_Subset
<1> QED BY <1>1, <1>4, <1>5, <1>6

\* A staged unit that fits leads to records that are ready.
LEMMA CommitIsReady ==
  ASSUME IInv, NEW c \in Callers, at[c] = "staged", ~ Publishing,
         Fits(unit[c], job[c], writes[c], store)
  PROVE  /\ Ready(c, Applied(store, writes[c]))
         /\ Commits(unit[c], job[c], store, Applied(store, writes[c]))
<1> DEFINE t == Applied(store, writes[c])
           r == job[c].request
<1>1. /\ unit[c] \in UnitKinds /\ Settled(store) /\ Waiting(c)
      /\ unit[c] = "intake" => r \in Requests
  BY Working DEF IInv
<1>2. Commits(unit[c], job[c], store, t)
  BY <1>1, UnitCommits DEF Waiting
<1> HIDE DEF t
<1>3. store.control.generation \in Nat
  <2>1. store \in Stores
    BY <1>1, SettledFacts
  <2> QED BY <2>1, StoreFields DEF ControlRecords
<1>4. store.control.generation = 1 + Cardinality(Saved) /\ Cardinality(Saved) \in Nat
  BY SavedCount DEF IInv, AnswersHold
<1>5. store.control.generation <= t.control.generation
      /\ t.control.generation = 1 + Cardinality(Saved) + (IF unit[c] = "control" THEN 1 ELSE 0)
  BY <1>2, <1>3, <1>4 DEF Commits
<1>6. ASSUME unit[c] = "intake"
      PROVE  /\ t.commands[r.command] # None
             /\ t.commands[r.command].payload = r.payload
             /\ t.aggregates[r.aggregate] # None
             /\ t.aggregates[r.aggregate].command = r.command
             /\ \A d \in Callers :
                    answer[d] = "ACCEPTED_FOR_DISPATCH" =>
                        /\ job[d].request.command # r.command
                        /\ job[d].request.aggregate # r.aggregate
  <2>1. /\ store.commands[r.command] = None /\ store.aggregates[r.aggregate] = None
        /\ t.commands[r.command] = CommandRecord(r)
        /\ t.aggregates[r.aggregate] # None
        /\ t.aggregates[r.aggregate].command = r.command
    BY <1>2, <1>6 DEF Commits
  <2>2. CommandRecord(r) # None /\ CommandRecord(r).payload = r.payload
    BY <1>1, <1>6, RequestRecords DEF CommandRecord
  <2>3. \A d \in Callers :
            answer[d] = "ACCEPTED_FOR_DISPATCH" =>
                /\ store.commands[job[d].request.command] # None
                /\ store.aggregates[job[d].request.aggregate] # None
    BY Answered DEF IntakeAnswerHolds
  <2> QED BY <2>1, <2>2, <2>3
<1>7. Ready(c, t)
  BY <1>2, <1>5, <1>6 DEF Commits, Ready
<1> QED BY <1>2, <1>7 DEF t

\* Who publishes holds the lock, and is alone.
LEMMA PublisherIsAlone ==
  ASSUME IInv
  PROVE  /\ Publishing => isolation = "snapshot"
         /\ \A c, d \in Callers : at[c] = "publishing" /\ at[d] = "publishing" => c = d
         /\ lock = None => ~ Publishing
         /\ isolation = "immediate" =>
                \A c, d \in Callers :
                    at[c] = "staged" /\ at[d] \in {"open", "staged"} => c = d
<1>1. \A c \in Callers : at[c] = "publishing" => isolation = "snapshot" /\ lock = c
  BY DEF IInv, Occupied, TypeOK
<1>2. isolation = "immediate" =>
          \A c \in Callers : at[c] \in {"open", "staged"} => lock = c
  BY DEF IInv, TypeOK
<1> QED BY <1>1, <1>2, NoneAssumption DEF Publishing

LEMMA ValidateStep ==
  ASSUME IInv, NEW c \in Callers, Validate(c)
  PROVE  IInv'
<1> DEFINE t == Applied(store, writes[c])
<1>1. /\ isolation = "snapshot" /\ at[c] = "staged" /\ lock = None
      /\ ~ Conflict(store, writes[c]) /\ lock' = c
      /\ view' = [view EXCEPT ![c] = t] /\ at' = [at EXCEPT ![c] = "publishing"]
      /\ store' = store /\ isolation' = isolation
      /\ job' = job /\ unit' = unit /\ writes' = writes /\ answer' = answer
  BY DEF Validate
<1>2. /\ ~ Publishing /\ \A d \in Callers : at[d] # "publishing"
  BY <1>1, PublisherIsAlone DEF Publishing
<1>3. /\ unit[c] \in UnitKinds /\ Settled(store) /\ Waiting(c)
      /\ unit[c] = "intake" => job[c].request \in Requests
  BY <1>1, <1>2, Working DEF IInv
<1>4. Fits(unit[c], job[c], writes[c], store)
  BY <1>1, <1>3, ValidatedFits DEF Waiting
<1>5. Ready(c, t)
  BY <1>1, <1>2, <1>4, CommitIsReady
<1> HIDE DEF t
<1>6. /\ at'[c] = "publishing" /\ view'[c] = t /\ DOMAIN view' = Callers
      /\ \A d \in Callers \ {c} : Same(d)
  BY <1>1, Functions DEF Same
<1>7. TypeOK'
  <2>1. at' \in [Callers -> Phases]
    BY <1>1 DEF IInv, TypeOK, Phases
  <2>2. \A d \in Callers : lock' = d <=> at'[d] = "publishing"
    BY <1>1, <1>2, <1>6 DEF Same
  <2> QED BY <1>1, <2>1, <2>2 DEF IInv, TypeOK
<1>8. Saved' = Saved
  BY <1>1 DEF Saved
<1>9. Publishing'
  BY <1>6 DEF Publishing
<1>10. store \in Stores /\ Coherent(store) /\ Grows(store, store')
  BY <1>1, GrowsReflexive DEF IInv, Coherent
<1>11. Occupied(c)' /\ Copied(c)' /\ Waiting(c)'
  BY <1>1, <1>6 DEF IInv, Occupied, Copied, Waiting
<1>12. \A d \in Callers : Occupied(d)' /\ Copied(d)' /\ Waiting(d)'
  BY <1>1, <1>6, <1>10, <1>11, SameStays
<1>13. InPublication(c)'
  BY <1>1, <1>5, <1>6, <1>8 DEF InPublication, Ready
<1>14. \A d \in Callers : InPublication(d)'
  BY <1>2, <1>6, <1>13 DEF InPublication, Same
<1>15. AnswersHold'
  <2>1. ASSUME NEW d \in Callers, answer'[d] # None, job'[d].kind = "intake"
        PROVE  IntakeAnswerHolds(d)'
    BY <1>1, <1>10, <2>1, Answered, AnswerStays
  <2>2. AcceptedOnce'
    BY <1>1 DEF IInv, AnswersHold, AcceptedOnce
  <2> QED BY <1>9, <2>1, <2>2 DEF AnswersHold
<1>16. DOMAIN writes' = Callers
  BY <1>1, Functions
<1> QED BY <1>1, <1>6, <1>7, <1>9, <1>10, <1>12, <1>14, <1>15, <1>16 DEF IInv

\* Replacing the collections in their order keeps the records coherent.
LEMMA ReplacedInOrder ==
  ASSUME NEW s, Coherent(s), NEW t, Coherent(t), Grows(s, t),
         s.control.generation <= t.control.generation,
         NEW f, IsNext(f, {g \in Range(Fields) : s[g] # t[g]})
  PROVE  /\ Coherent([s EXCEPT ![f] = t[f]])
         /\ Grows(s, [s EXCEPT ![f] = t[f]])
         /\ Grows([s EXCEPT ![f] = t[f]], t)
<1> DEFINE missing == {g \in Range(Fields) : s[g] # t[g]}
           u == [s EXCEPT ![f] = t[f]]
<1>1. s \in Stores /\ t \in Stores
  BY DEF Coherent
<1>2. /\ f \in Range(Fields)
      /\ f = "journal" => "aggregates" \notin missing
      /\ f = "claims" => "commands" \notin missing /\ "reservations" \notin missing
      /\ f = "authorizations" => "claims" \notin missing
      /\ f = "resolutions" => "authorizations" \notin missing
  BY FieldOrder
<1>3. /\ f = "journal" => s.aggregates = t.aggregates
      /\ f = "claims" => s.commands = t.commands /\ s.reservations = t.reservations
      /\ f = "authorizations" => s.claims = t.claims
      /\ f = "resolutions" => s.authorizations = t.authorizations
  BY <1>2, FieldNames
<1>4. u \in Stores /\ \A g \in Range(Fields) : u[g] = IF g = f THEN t[g] ELSE s[g]
  BY <1>1, <1>2, StoreReplaced
<1> HIDE DEF u, missing
<1>5. /\ u.aggregates = IF f = "aggregates" THEN t.aggregates ELSE s.aggregates
      /\ u.commands = IF f = "commands" THEN t.commands ELSE s.commands
      /\ u.reservations = IF f = "reservations" THEN t.reservations ELSE s.reservations
      /\ u.journal = IF f = "journal" THEN t.journal ELSE s.journal
      /\ u.approvals = IF f = "approvals" THEN t.approvals ELSE s.approvals
      /\ u.control = IF f = "control" THEN t.control ELSE s.control
      /\ u.claims = IF f = "claims" THEN t.claims ELSE s.claims
      /\ u.authorizations = IF f = "authorizations" THEN t.authorizations ELSE s.authorizations
      /\ u.resolutions = IF f = "resolutions" THEN t.resolutions ELSE s.resolutions
  BY <1>4, FieldNames
<1>6. Grows(s, u)
  BY <1>5, GrowsReflexive DEF Grows
<1>7. Grows(u, t)
  <2>1. Grows(t, t)
    BY GrowsReflexive
  <2> QED BY <1>5, <2>1 DEF Grows
<1>8. Coherent(u)
  <2>1. \A m \in Commands :
            u.commands[m] # None =>
                \E r \in Requests : r.command = m /\ u.commands[m] = CommandRecord(r)
    BY <1>5 DEF Coherent
  <2>2. \A a \in Aggregates : u.journal[a] # << >> => u.aggregates[a] # None
    BY <1>3, <1>5 DEF Coherent, Grows, AggregatesGrow
  <2>3. \A claim \in u.claims :
            /\ u.commands[claim.command] # None
            /\ u.commands[claim.command].aggregate = claim.aggregate
            /\ u.reservations[claim.key] # None
            /\ u.reservations[claim.key].command = claim.command
            /\ u.reservations[claim.key].aggregate = claim.aggregate
    <3>1. CASE f = "claims"
      BY <1>3, <1>5, <3>1 DEF Coherent
    <3>2. CASE f # "claims"
      <4> SUFFICES ASSUME NEW claim \in s.claims
                   PROVE  /\ u.commands[claim.command] = s.commands[claim.command]
                          /\ u.reservations[claim.key] = s.reservations[claim.key]
        BY <1>5, <3>2 DEF Coherent
      <4>1. claim \in Claims
        BY <1>1, StoreFields
      <4>2. claim.command \in DOMAIN s.commands /\ claim.key \in DOMAIN s.reservations
        BY <1>1, <4>1, StoreFields, ClaimFields
      <4>3. s.commands[claim.command] # None /\ s.reservations[claim.key] # None
        BY DEF Coherent
      <4> QED BY <1>6, <4>2, <4>3 DEF Grows, RecordsGrow
    <3> QED BY <3>1, <3>2
  <2>4. \A x, y \in u.claims : x # y => ~ SameAuthority(x, y)
    BY <1>5 DEF Coherent
  <2>5. u.authorizations \subseteq u.claims
    BY <1>3, <1>5 DEF Coherent, Grows
  <2>6. u.resolutions \subseteq u.authorizations
    BY <1>3, <1>5 DEF Coherent, Grows
  <2>7. u.control.generation >= 1
    BY <1>5 DEF Coherent
  <2> QED BY <1>4, <2>1, <2>2, <2>3, <2>4, <2>5, <2>6, <2>7 DEF Coherent
<1> QED BY <1>6, <1>7, <1>8 DEF u

LEMMA PublishStep ==
  ASSUME IInv, NEW c \in Callers, Publish(c)
  PROVE  IInv'
<1> DEFINE t == view[c]
<1>1. /\ at[c] = "publishing" /\ lock' = lock /\ isolation' = isolation /\ at' = at
      /\ job' = job /\ unit' = unit /\ view' = view /\ writes' = writes /\ answer' = answer
  BY DEF Publish
<1>2. PICK f : /\ IsNext(f, {g \in Range(Fields) : store[g] # t[g]})
               /\ store' = [store EXCEPT ![f] = t[f]]
  BY DEF Publish, Unpublished
<1>3. /\ Ready(c, t) /\ Coherent(store) /\ Coherent(t)
  BY <1>1 DEF IInv, InPublication, Ready, Settled
<1>4. /\ store.control.generation <= t.control.generation /\ Grows(store, t)
  BY <1>3 DEF Ready
<1> HIDE DEF t
<1>5. Coherent(store') /\ Grows(store, store') /\ Grows(store', t)
  BY <1>2, <1>3, <1>4, ReplacedInOrder
<1>6. /\ store \in Stores /\ t \in Stores /\ store' \in Stores /\ f \in Range(Fields)
  BY <1>2, <1>3, <1>5, FieldOrder DEF Coherent
<1>7. store'.control \in {store.control, t.control}
  BY <1>2, <1>6, StoreReplaced, FieldNames
<1>8. /\ isolation = "snapshot" /\ Publishing' /\ Saved' = Saved
      /\ \A d \in Callers : at[d] = "publishing" => d = c
      /\ \A d \in Callers : Same(d)
  BY <1>1, PublisherIsAlone DEF Publishing, Saved, Same
<1>9. TypeOK'
  <2>1. t.control.generation \in 1 .. (1 + Cardinality(Callers))
    <3>1. /\ Cardinality(Saved) \in Nat /\ Cardinality(Callers) \in Nat
          /\ Cardinality(Saved) + 1 <= Cardinality(Callers)
      BY <1>1, SavedCount
    <3> QED BY <1>3, <3>1 DEF Ready
  <2>2. store'.control.generation \in 1 .. (1 + Cardinality(Callers))
    BY <1>7, <2>1 DEF IInv, TypeOK
  <2> QED BY <1>1, <1>5, <2>2 DEF IInv, TypeOK, Coherent
<1>10. \A d \in Callers : Occupied(d)' /\ Copied(d)' /\ Waiting(d)'
  BY <1>1, <1>5, <1>6, <1>8, SameStays
<1>11. AnswersHold'
  <2>1. ASSUME NEW d \in Callers, answer'[d] # None, job'[d].kind = "intake"
        PROVE  IntakeAnswerHolds(d)'
    BY <1>1, <1>5, <1>6, <2>1, Answered, AnswerStays
  <2>2. AcceptedOnce'
    BY <1>1 DEF IInv, AnswersHold, AcceptedOnce
  <2> QED BY <1>8, <2>1, <2>2 DEF AnswersHold
<1>12. InPublication(c)'
  <2>1. \A claim \in (t.authorizations \ store'.authorizations)
                         \cup (t.resolutions \ store'.resolutions) :
            claim \in (t.authorizations \ store.authorizations)
                          \cup (t.resolutions \ store.resolutions)
    BY <1>5 DEF Grows
  <2>2. \A claim \in (t.authorizations \ store'.authorizations)
                         \cup (t.resolutions \ store'.resolutions) :
            /\ store'.control = t.control
            /\ store'.control.permits
            /\ store'.control.generation = claim.generation
    BY <1>3, <1>7, <2>1 DEF Ready
  <2>3. store'.control.generation <= t.control.generation
    <3>1. t.control.generation \in Nat
      BY <1>6, StoreFields DEF ControlRecords
    <3> QED BY <1>4, <1>7, <3>1
  <2>4. view'[c] = t
    BY <1>1 DEF t
  <2>5. /\ Settled(t)
        /\ t.control.generation =
               1 + Cardinality(Saved') + (IF unit'[c] = "control" THEN 1 ELSE 0)
        /\ unit'[c] = "claim" => Owns(t.claims, job'[c])
        /\ unit'[c] = "intake" =>
               LET r == job'[c].request IN
               /\ t.commands[r.command] # None
               /\ t.commands[r.command].payload = r.payload
               /\ t.aggregates[r.aggregate] # None
               /\ t.aggregates[r.aggregate].command = r.command
               /\ \A d \in Callers :
                      answer'[d] = "ACCEPTED_FOR_DISPATCH" =>
                          /\ job'[d].request.command # r.command
                          /\ job'[d].request.aggregate # r.aggregate
    BY <1>1, <1>3, <1>8 DEF Ready
  <2> QED BY <1>5, <2>2, <2>3, <2>4, <2>5 DEF InPublication, Ready
<1>13. \A d \in Callers : InPublication(d)'
  BY <1>1, <1>8, <1>12 DEF InPublication
<1>14. DOMAIN view' = Callers /\ DOMAIN writes' = Callers
  BY <1>1, Functions
<1> QED BY <1>1, <1>5, <1>8, <1>9, <1>10, <1>11, <1>13, <1>14 DEF IInv

\* The caller of a commit goes on to its next unit, or is told of its success.
LEMMA CommittedCaller ==
  ASSUME IInv, NEW c \in Callers, at[c] \notin {"idle", "done"}, Committed(c)
  PROVE  /\ \A d \in Callers \ {c} :
                /\ at'[d] = at[d] /\ unit'[d] = unit[d] /\ view'[d] = view[d]
                /\ writes'[d] = writes[d] /\ answer'[d] = answer[d]
         /\ at' \in [Callers -> Phases]
         /\ unit' \in [Callers -> UnitKinds \cup {None}]
         /\ answer' \in [Callers -> Answers \cup {None}]
         /\ DOMAIN view' = Callers /\ DOMAIN writes' = Callers
         /\ view'[c] = Nothing
         /\ unit[c] \in {"claim", "authorize"} =>
                /\ at'[c] = "begin" /\ answer'[c] = None
                /\ unit'[c] = IF unit[c] = "claim" THEN "authorize" ELSE "outcome"
         /\ unit[c] \in {"intake", "control", "outcome"} =>
                /\ at'[c] = "done" /\ unit'[c] = unit[c]
                /\ unit[c] = "intake" => answer'[c] = "ACCEPTED_FOR_DISPATCH"
                /\ unit[c] = "control" => answer'[c] = "SAVED"
                /\ unit[c] = "outcome" => answer'[c] = "RECORDED"
<1>1. /\ at \in [Callers -> Phases] /\ unit \in [Callers -> UnitKinds \cup {None}]
      /\ answer \in [Callers -> Answers \cup {None}]
      /\ DOMAIN view = Callers /\ DOMAIN writes = Callers
  BY DEF IInv, TypeOK
<1>2. unit[c] \in UnitKinds /\ answer[c] = None
  BY Working, Answered
<1>3. CASE unit[c] \in {"claim", "authorize"}
  <2>1. /\ unit' = [unit EXCEPT ![c] = IF unit[c] = "claim" THEN "authorize" ELSE "outcome"]
        /\ at' = [at EXCEPT ![c] = "begin"]
        /\ view' = [view EXCEPT ![c] = Nothing]
        /\ writes' = [writes EXCEPT ![c] = Nothing]
        /\ answer' = answer
    BY <1>3 DEF Committed
  <2> QED BY <1>1, <1>2, <1>3, <2>1 DEF Phases, UnitKinds
<1>4. CASE unit[c] \notin {"claim", "authorize"}
  <2>1. /\ unit' = unit
        /\ at' = [at EXCEPT ![c] = "done"]
        /\ view' = [view EXCEPT ![c] = Nothing]
        /\ writes' = [writes EXCEPT ![c] = Nothing]
        /\ answer' = [answer EXCEPT ![c] = CommittedAnswer(unit[c])]
    BY <1>4 DEF Committed, End
  <2>2. CommittedAnswer(unit[c]) \in Answers
    BY <1>2, <1>4, CommittedAnswerOf DEF UnitKinds, Answers
  <2>3. /\ unit[c] = "intake" => CommittedAnswer(unit[c]) = "ACCEPTED_FOR_DISPATCH"
        /\ unit[c] = "control" => CommittedAnswer(unit[c]) = "SAVED"
        /\ unit[c] = "outcome" => CommittedAnswer(unit[c]) = "RECORDED"
    BY CommittedAnswerOf
  <2> QED BY <1>1, <1>2, <1>4, <2>1, <2>2, <2>3 DEF Phases
<1> QED BY <1>3, <1>4

\* Records that are ready become durable, and their caller is told.
LEMMA CommitStep ==
  ASSUME IInv, NEW c \in Callers, at[c] \in {"publishing", "staged"}, Ready(c, store'),
         Committed(c), lock' = None, isolation' = isolation, job' = job,
         \A d \in Callers \ {c} :
             /\ at[d] # "publishing"
             /\ ~ (isolation = "immediate" /\ at[d] \in {"open", "staged"}),
         isolation = "immediate" =>
             \A m \in Commands :
                 store'.commands[m] # None =>
                     store'.reservations[store'.commands[m].key].command = m
  PROVE  IInv'
<1> DEFINE r == job[c].request
<1>1. /\ Settled(store') /\ Coherent(store') /\ store' \in Stores /\ Grows(store, store')
      /\ store \in Stores
  BY DEF IInv, Ready, Settled, Coherent
<1>2. \A d \in Callers \ {c} : Same(d)
  BY CommittedCaller DEF Same
<1>3. /\ at'[c] \in {"begin", "done"} /\ unit[c] \in UnitKinds
  BY Working, CommittedCaller DEF UnitKinds
<1>4. ~ Publishing'
  BY <1>2, <1>3 DEF Publishing, Same
<1>5. /\ Cardinality(Saved) \in Nat /\ Cardinality(Callers) \in Nat
      /\ Cardinality(Saved \cup {c}) = Cardinality(Saved) + 1
      /\ Cardinality(Saved) + 1 <= Cardinality(Callers)
      /\ c \notin Saved /\ answer[c] = None
  BY SavedCount, Answered
<1>6. Saved' = IF unit[c] = "control" THEN Saved \cup {c} ELSE Saved
  <2>1. c \in Saved' <=> unit[c] = "control"
    BY <1>3, CommittedCaller, AnswersAreNotNone DEF Saved, UnitKinds, Answers
  <2>2. \A d \in Callers \ {c} : d \in Saved' <=> d \in Saved
    BY <1>2 DEF Saved, Same
  <2>3. Saved \subseteq Callers /\ Saved' \subseteq Callers
    BY DEF Saved
  <2>4. CASE unit[c] = "control"
    <3>1. \A d : d \in Saved' <=> d \in Saved \cup {c}
      BY <2>1, <2>2, <2>3, <2>4
    <3> QED BY <2>4, <3>1
  <2>5. CASE unit[c] # "control"
    <3>1. \A d : d \in Saved' <=> d \in Saved
      BY <1>5, <2>1, <2>2, <2>3, <2>5
    <3> QED BY <2>5, <3>1
  <2> QED BY <2>4, <2>5
<1>7. store'.control.generation = 1 + Cardinality(Saved')
  BY <1>5, <1>6 DEF Ready
<1>8. TypeOK'
  <2>1. store'.control.generation \in 1 .. (1 + Cardinality(Callers))
    BY <1>5, <1>6, <1>7
  <2>2. \A d \in Callers : at'[d] \notin IF isolation = "immediate"
                                        THEN {"open", "staged"} ELSE {"publishing"}
    BY <1>2, <1>3 DEF Same
  <2>3. None \notin Callers
    BY NoneAssumption
  <2> QED BY <1>1, <2>1, <2>2, <2>3, CommittedCaller DEF IInv, TypeOK, Coherent
<1>9. Occupied(c)'
  <2>1. unit'[c] \in {"authorize", "outcome"} => Owns(store'.claims, job[c])
    <3>1. unit[c] = "claim" => Owns(store'.claims, job[c])
      BY DEF Ready
    <3>2. unit[c] \in {"authorize", "outcome"} => Owns(store'.claims, job[c])
      BY <1>1, OwnershipStays DEF IInv, Occupied, Grows
    <3> QED BY <1>3, <3>1, <3>2, CommittedCaller DEF UnitKinds
  <2>2. job[c] # None /\ unit'[c] \in Units(job[c])
    BY <1>3, Working, CommittedCaller DEF Units, UnitKinds
  <2>3. answer'[c] = "ACCEPTED_FOR_DISPATCH" => job[c].kind = "intake"
    BY <1>3, Working, CommittedCaller, AnswersAreNotNone DEF UnitKinds, Answers
  <2>4. at'[c] # "done" => answer'[c] = None
    BY <1>3, CommittedCaller DEF UnitKinds
  <2> QED BY <1>3, <2>1, <2>2, <2>3, <2>4 DEF Occupied
<1>10. Copied(c)'
  <2>1. view'[c] = Nothing
    BY CommittedCaller
  <2>2. \A f \in Range(Fields) : ~ Has(c, f)'
    BY <1>3, <2>1, NothingFields DEF Has
  <2> QED BY <1>3, <2>1, <2>2, NothingFields, FieldNames DEF Copied
<1>11. Waiting(c)'
  BY <1>3 DEF Waiting
<1>12. \A d \in Callers : Occupied(d)' /\ Copied(d)' /\ Waiting(d)'
  BY <1>1, <1>2, <1>9, <1>10, <1>11, SameStays
<1>13. ASSUME NEW d \in Callers, answer'[d] # None, job'[d].kind = "intake"
       PROVE  IntakeAnswerHolds(d)'
  <2>1. CASE d = c
    <3>1. unit[c] = "intake"
      BY <1>13, <2>1, Working
    <3>2. answer'[c] = "ACCEPTED_FOR_DISPATCH"
      BY <3>1, CommittedCaller
    <3>3. /\ store'.commands[r.command] # None
          /\ store'.commands[r.command].payload = r.payload
          /\ store'.aggregates[r.aggregate] # None
          /\ store'.aggregates[r.aggregate].command = r.command
      BY <3>1 DEF Ready
    <3> QED BY <2>1, <3>2, <3>3 DEF IntakeAnswerHolds
  <2>2. CASE d # c
    BY <1>1, <1>2, <1>13, <2>2, Answered, AnswerStays DEF Same
  <2> QED BY <2>1, <2>2
<1>14. AcceptedOnce'
  <2>1. \A d \in Callers \ {c} :
            answer'[d] = "ACCEPTED_FOR_DISPATCH" => answer[d] = "ACCEPTED_FOR_DISPATCH"
    BY <1>2 DEF Same
  <2>2. answer'[c] = "ACCEPTED_FOR_DISPATCH" =>
            \A d \in Callers :
                answer[d] = "ACCEPTED_FOR_DISPATCH" =>
                    /\ job[d].request.command # r.command
                    /\ job[d].request.aggregate # r.aggregate
    <3>1. answer'[c] = "ACCEPTED_FOR_DISPATCH" => unit[c] = "intake"
      BY <1>3, CommittedCaller, AnswersAreNotNone DEF UnitKinds, Answers
    <3> QED BY <3>1 DEF Ready
  <2> QED BY <2>1, <2>2 DEF IInv, AnswersHold, AcceptedOnce
<1>15. AnswersHold'
  BY <1>7, <1>13, <1>14 DEF AnswersHold
<1>16. \A d \in Callers : InPublication(d)'
  BY <1>4 DEF Publishing, InPublication
<1>17. (isolation = "immediate" => OneCommandPerKey)'
  BY DEF OneCommandPerKey
<1> QED BY <1>1, <1>8, <1>12, <1>15, <1>16, <1>17, CommittedCaller DEF IInv

LEMMA FinishPublishingStep ==
  ASSUME IInv, NEW c \in Callers, FinishPublishing(c)
  PROVE  IInv' /\ Ready(c, store')
<1>1. /\ at[c] = "publishing" /\ store' = view[c] /\ lock' = None /\ Committed(c)
      /\ isolation' = isolation /\ job' = job
  BY DEF FinishPublishing
<1>2. Ready(c, view[c])
  BY <1>1 DEF IInv, InPublication
<1>3. Ready(c, store')
  BY <1>1, <1>2
<1>4. isolation = "snapshot" /\ \A d \in Callers \ {c} : at[d] # "publishing"
  BY <1>1, PublisherIsAlone DEF Publishing
<1> QED BY <1>1, <1>3, <1>4, CommitStep

\* The one command that a commit adds is that of an intake.
LEMMA AddedCommand ==
  ASSUME NEW s \in Stores, NEW kind \in UnitKinds, NEW j, NEW w,
         kind = "intake" => j.request \in Requests,
         IsStaged(kind, j, w, s)
  PROVE  /\ kind # "intake" => Applied(s, w).commands = s.commands
         /\ kind = "intake" =>
                LET r == j.request IN
                /\ \A m \in Commands : m # r.command =>
                       Applied(s, w).commands[m] = s.commands[m]
                /\ s.reservations[r.key] = None =>
                       Applied(s, w).reservations[r.key] = ReservationRecord(r)
<1>1. /\ Applied(s, w).commands = WithNew(s.commands, w.commands)
      /\ Applied(s, w).reservations = WithNew(s.reservations, w.reservations)
  BY DEF Applied
<1>2. ASSUME kind # "intake"
      PROVE  Applied(s, w).commands = s.commands
  <2>1. w.commands = None
    <3>1. CASE kind = "outcome"
      <4>1. w = Outcome(w.resolutions) /\ w.resolutions \in Claims
        BY <3>1, StoreFields DEF IsStaged
      <4> QED BY <4>1, OutcomeWriteFields
    <3>2. CASE kind \in {"control", "claim", "authorize"}
      BY <3>2, NothingFields, FieldNames DEF IsStaged
    <3> QED BY <1>2, <3>1, <3>2 DEF UnitKinds
  <2> QED BY <1>1, <2>1 DEF WithNew
<1>3. ASSUME kind = "intake"
      PROVE  LET r == j.request IN
             /\ \A m \in Commands : m # r.command =>
                    Applied(s, w).commands[m] = s.commands[m]
             /\ s.reservations[r.key] = None =>
                    Applied(s, w).reservations[r.key] = ReservationRecord(r)
  <2> DEFINE r == j.request
  <2>1. r \in Requests
    BY <1>3
  <2>2. \/ w = IntakeWrites(EmptyStore, r)
        \/ /\ w = [IntakeWrites(EmptyStore, r) EXCEPT !.approvals = None]
           /\ s.approvals[r.approval] = r.payload
    BY <1>3 DEF IsStaged
  <2> HIDE DEF r
  <2>3. /\ w.commands # None /\ w.commands.id = r.command
        /\ w.commands.record = CommandRecord(r)
        /\ w.reservations # None /\ w.reservations.id = r.key
        /\ w.reservations.record = ReservationRecord(r)
    BY <2>1, <2>2, IntakeWriteFields, SMTT(30)
  <2>4. /\ DOMAIN s.commands = Commands /\ DOMAIN s.reservations = Keys /\ r.key \in Keys
    BY <2>1, StoreFields, RequestFields
  <2> QED BY <1>1, <2>3, <2>4 DEF WithNew, r
<1> QED BY <1>2, <1>3

LEMMA CommitImmediateStep ==
  ASSUME IInv, NEW c \in Callers, CommitImmediate(c)
  PROVE  IInv' /\ Ready(c, store')
<1> DEFINE r == job[c].request
           t == Applied(store, writes[c])
<1>1. /\ isolation = "immediate" /\ at[c] = "staged" /\ store' = t /\ lock' = None
      /\ Committed(c) /\ isolation' = isolation /\ job' = job
  BY DEF CommitImmediate
<1>2. ~ Publishing /\ \A d \in Callers : at[d] # "publishing"
  BY <1>1, PublisherIsAlone DEF Publishing
<1>3. /\ unit[c] \in UnitKinds /\ Settled(store) /\ Waiting(c)
      /\ unit[c] = "intake" => r \in Requests
  BY <1>1, <1>2, Working DEF IInv
<1>4. /\ store \in Stores
      /\ IsStaged(unit[c], job[c], writes[c], store)
      /\ Fits(unit[c], job[c], writes[c], store)
      /\ unit[c] = "intake" => store.reservations[r.key] = None
  BY <1>1, <1>3, SettledFacts DEF Waiting
<1>5. Ready(c, t) /\ Commits(unit[c], job[c], store, t)
  BY <1>1, <1>2, <1>4, CommitIsReady
<1>6. Ready(c, store')
  BY <1>1, <1>5
<1>7. \A d \in Callers \ {c} : ~ (isolation = "immediate" /\ at[d] \in {"open", "staged"})
  BY <1>1, PublisherIsAlone
<1>8. ASSUME NEW m \in Commands, t.commands[m] # None
      PROVE  t.reservations[t.commands[m].key].command = m
  <2>1. CASE store.commands[m] # None
    <3>1. /\ store.commands[m].key \in Keys
          /\ store.reservations[store.commands[m].key] # None
      BY <1>3, <2>1, SettledFacts
    <3>2. store.reservations[store.commands[m].key].command = m
      BY <1>1, <1>2, <2>1 DEF IInv, OneCommandPerKey
    <3>3. /\ m \in DOMAIN store.commands
          /\ store.commands[m].key \in DOMAIN store.reservations
      BY <1>4, <3>1, StoreFields
    <3>4. /\ t.commands[m] = store.commands[m]
          /\ t.reservations[store.commands[m].key] = store.reservations[store.commands[m].key]
      <4> HIDE DEF t
      <4> QED BY <1>5, <2>1, <3>1, <3>3 DEF Commits, Grows, RecordsGrow
    <3> QED BY <3>2, <3>4
  <2>2. CASE store.commands[m] = None
    <3>1. /\ unit[c] = "intake" /\ m = r.command
          /\ t.reservations[r.key] = ReservationRecord(r)
      BY <1>3, <1>4, <1>8, <2>2, AddedCommand
    <3>2. t.commands[r.command] = CommandRecord(r)
      BY <1>5, <3>1 DEF Commits
    <3>3. CommandRecord(r).key = r.key /\ ReservationRecord(r).command = r.command
      BY DEF CommandRecord, ReservationRecord
    <3> HIDE DEF t, r
    <3> QED BY <3>1, <3>2, <3>3
  <2> QED BY <2>1, <2>2
<1>9. \A m \in Commands :
          store'.commands[m] # None =>
              store'.reservations[store'.commands[m].key].command = m
  <2> HIDE DEF t
  <2> QED BY <1>1, <1>8
<1>10. IInv'
  <2> HIDE DEF t
  <2> QED BY <1>1, <1>2, <1>6, <1>7, <1>9, CommitStep
<1> QED BY <1>6, <1>10

(***************************************************************************)
(* The inductive invariant, and what it implies.                           *)
(***************************************************************************)

LEMMA EmptyIsSettled ==
  /\ Settled(EmptyStore)
  /\ EmptyStore.control.generation = 1
  /\ \A m \in Commands : EmptyStore.commands[m] = None
  /\ \A k \in Keys : EmptyStore.reservations[k] = None
<1> DEFINE s == EmptyStore
<1>1. /\ s.aggregates = [a \in Aggregates |-> None] /\ s.commands = [m \in Commands |-> None]
      /\ s.reservations = [k \in Keys |-> None] /\ s.journal = [a \in Aggregates |-> << >>]
      /\ s.approvals = [p \in Approvals |-> None] /\ s.control = ControlRecord(1, TRUE)
      /\ s.claims = {} /\ s.authorizations = {} /\ s.resolutions = {}
  BY DEF EmptyStore
<1>2. s.control \in ControlRecords /\ s.control.generation = 1
  BY <1>1 DEF ControlRecord, ControlRecords
<1>3. << >> \in Seq(EntryRecords)
  OBVIOUS
<1>4. s \in Stores
  BY <1>1, <1>2, <1>3 DEF EmptyStore, Stores, Collections
<1> HIDE DEF s
<1>5. /\ \A a \in Aggregates : s.aggregates[a] = None /\ s.journal[a] = << >>
      /\ \A m \in Commands : s.commands[m] = None
      /\ \A k \in Keys : s.reservations[k] = None
  BY <1>1
<1>6. s.claims = {} /\ s.authorizations = {} /\ s.resolutions = {}
  BY <1>1
<1>7. Coherent(s)
  BY <1>2, <1>4, <1>5, <1>6 DEF Coherent
<1>8. Whole(s)
  BY <1>5 DEF Whole
<1>9. Settled(s)
  BY <1>5, <1>6, <1>7, <1>8 DEF Settled
<1> QED BY <1>2, <1>5, <1>9 DEF s

LEMMA InitIInv ==
  ASSUME Init
  PROVE  IInv
<1>1. /\ isolation \in Isolations /\ lock = None
      /\ at = [c \in Callers |-> "idle"] /\ job \in [Callers -> {None}]
      /\ unit = [c \in Callers |-> None] /\ view = [c \in Callers |-> Nothing]
      /\ writes = [c \in Callers |-> Nothing] /\ answer = [c \in Callers |-> None]
  BY DEF Init
<1>2. /\ Settled(store) /\ store.control.generation = 1
      /\ \A m \in Commands :
             store.commands[m] # None => store.reservations[store.commands[m].key].command = m
  <2>1. CASE store = EmptyStore
    BY <2>1, EmptyIsSettled
  <2>2. CASE \E r \in Prior : store = Applied(EmptyStore, IntakeWrites(EmptyStore, r))
    <3>1. PICK r \in Prior : store = Applied(EmptyStore, IntakeWrites(EmptyStore, r))
      BY <2>2
    <3> DEFINE j == [request |-> r]
               w == IntakeWrites(EmptyStore, r)
               s == EmptyStore
    <3>2. r \in Requests /\ j.request = r
      BY IntakeAssumption
    <3>3. IsStaged("intake", j, w, s)
      BY <3>2 DEF IsStaged
    <3>4. Settled(s) /\ s \in Stores /\ s.control.generation = 1
      BY EmptyIsSettled, SettledFacts
    <3>5. Fits("intake", j, w, s)
      BY <3>2, RequestFields DEF Fits, EmptyStore
    <3> HIDE DEF j, w, s
    <3>6. Commits("intake", j, s, Applied(s, w))
      BY <3>2, <3>3, <3>4, <3>5, IntakeCommits
    <3>7. /\ \A m \in Commands : m # r.command => Applied(s, w).commands[m] = s.commands[m]
          /\ s.reservations[r.key] = None =>
                 Applied(s, w).reservations[r.key] = ReservationRecord(r)
      BY <3>2, <3>3, <3>4, AddedCommand DEF UnitKinds
    <3>8. store = Applied(s, w)
      BY <3>1 DEF s, w
    <3>9. s.reservations[r.key] = None /\ \A m \in Commands : s.commands[m] = None
      BY <3>2, RequestFields, EmptyIsSettled DEF s
    <3>10. /\ store.commands[r.command] = CommandRecord(r)
           /\ Settled(store)
           /\ store.control.generation = 1
      BY <3>2, <3>4, <3>6, <3>8 DEF Commits
    <3>11. CommandRecord(r).key = r.key /\ ReservationRecord(r).command = r.command
      BY DEF CommandRecord, ReservationRecord
    <3> QED BY <3>7, <3>8, <3>9, <3>10, <3>11
  <2>3. None \notin Prior
    BY IntakeAssumption, NoneAssumption
  <2> QED BY <2>1, <2>2, <2>3 DEF Init
<1>3. Saved = {} /\ Cardinality(Saved) = 0
  <2>1. Saved = {}
    BY <1>1, AnswersAreNotNone DEF Saved, Answers
  <2> QED BY <2>1, FS_EmptySet
<1>4. /\ ~ Publishing
      /\ \A c \in Callers : /\ at[c] = "idle" /\ job[c] = None /\ unit[c] = None
                            /\ view[c] = Nothing /\ answer[c] = None
  BY <1>1 DEF Publishing
<1>5. TypeOK
  <2>1. Cardinality(Callers) \in Nat
    BY IntakeAssumption, FS_CardinalityType
  <2>2. store.authorizations \subseteq store.claims
        /\ store.resolutions \subseteq store.authorizations
    BY <1>2 DEF Settled, Coherent
  <2>3. None \notin Callers
    BY NoneAssumption
  <2>4. at \in [Callers -> Phases]
    BY <1>1 DEF Phases
  <2> QED BY <1>1, <1>2, <1>4, <2>1, <2>2, <2>3, <2>4 DEF TypeOK
<1>6. AnswersHold
  BY <1>2, <1>3, <1>4, AnswersAreNotNone DEF AnswersHold, AcceptedOnce, Answers
<1>7. \A c \in Callers : Occupied(c) /\ Copied(c) /\ Waiting(c) /\ InPublication(c)
  BY <1>4, NoneAssumption, AnswersAreNotNone
     DEF Occupied, Copied, Waiting, InPublication, Answers, UnitKinds
<1> QED BY <1>1, <1>2, <1>4, <1>5, <1>6, <1>7 DEF IInv, Settled, OneCommandPerKey

LEMMA NextIInv ==
  ASSUME IInv, [Next]_vars
  PROVE  IInv'
<1>1. CASE Next
  <2> SUFFICES ASSUME NEW c \in Callers,
                      \/ \E j \in Jobs : Call(c, j)
                      \/ CopyField(c)
                      \/ BeginImmediate(c)
                      \/ Busy(c)
                      \/ RollBack(c)
                      \/ Stage(c)
                      \/ RefuseCommit(c)
                      \/ Validate(c)
                      \/ Publish(c)
                      \/ FinishPublishing(c)
                      \/ CommitImmediate(c)
                      \/ Crash(c)
               PROVE  IInv'
    BY <1>1 DEF Next
  <2> QED BY CallStep, CopyFieldStep, BeginImmediateStep, BusyStep, RollBackStep, StageStep,
             RefuseCommitStep, ValidateStep, PublishStep, FinishPublishingStep,
             CommitImmediateStep, CrashStep
<1>2. CASE UNCHANGED vars
  <2>1. /\ store' = store /\ lock' = lock /\ isolation' = isolation /\ at' = at /\ job' = job
        /\ unit' = unit /\ view' = view /\ writes' = writes /\ answer' = answer
    BY <1>2 DEF vars
  <2>2. TypeOK' /\ AnswersHold' /\ (isolation = "immediate" => OneCommandPerKey)'
    BY <2>1 DEF IInv, TypeOK, AnswersHold, AcceptedOnce, IntakeAnswerHolds, Saved,
                OneCommandPerKey, Publishing
  <2>3. \A c \in Callers : Occupied(c)' /\ Copied(c)' /\ Waiting(c)'
    <3>1. store \in Stores /\ Grows(store, store') /\ \A c \in Callers : Same(c)
      BY <2>1, GrowsReflexive DEF IInv, Coherent, Same
    <3> QED BY <2>1, <3>1, SameStays
  <2>4. Saved' = Saved
    BY <2>1 DEF Saved
  <2>5. \A c \in Callers : InPublication(c)'
    BY <2>1, <2>4 DEF IInv, InPublication, Ready
  <2> QED BY <2>1, <2>2, <2>3, <2>5 DEF IInv, Publishing
<1> QED BY <1>1, <1>2

\* In every reachable state, the middle of a publication included, the records
\* agree with each other, with what each unit copied or staged, and with what
\* each caller was told.
THEOREM InductiveInvariant == Spec => []IInv
<1>1. Init => IInv
  BY InitIInv
<1>2. IInv /\ [Next]_vars => IInv'
  BY NextIInv
<1> QED BY <1>1, <1>2, PTL DEF Spec

\* Every variable has its type, the generation of the control is bounded by the
\* callers, and the lock is with the caller that publishes or has a write
\* transaction open: no unit leaves it behind.
THEOREM Typing == Spec => []TypeOK
<1>1. IInv => TypeOK
  BY DEF IInv
<1> QED BY <1>1, InductiveInvariant, PTL

\* The intake is all or nothing under both adapters: an aggregate is durable with
\* its command, approval and journal, and a command with its aggregate.
THEOREM IntakeIsWhole == Spec => []AcceptedIsWhole
<1>1. IInv => AcceptedIsWhole
  BY DEF IInv, AcceptedIsWhole, Settled
<1> QED BY <1>1, InductiveInvariant, PTL

\* What callers are told of their intakes is and stays true, and the generation
\* of the control counts the operators that were told theirs is saved.
THEOREM AnswersStayTrue == Spec => []AnswersHold
<1>1. IInv => AnswersHold
  BY DEF IInv
<1> QED BY <1>1, InductiveInvariant, PTL

\* A claim is of the command that owns its key, excludes every other, and finds
\* its aggregate where it left it until its outcome is recorded.
THEOREM ClaimsAreExclusive == Spec => []ClaimsFollowReservations
<1>1. IInv => ClaimsFollowReservations
  BY DEF IInv, Coherent, Settled, ClaimsFollowReservations
<1> QED BY <1>1, InductiveInvariant, PTL

\* A claim is authorized, and its outcome recorded, only under the control it was
\* granted under.
THEOREM ControlInForce == Spec => AuthorizedUnderControl
<1> DEFINE Added == (store'.authorizations \ store.authorizations)
                        \cup (store'.resolutions \ store.resolutions)
           InForce == \A claim \in Added :
                          store.control.permits /\ store.control.generation = claim.generation
<1>1. ASSUME NEW c \in Callers, Ready(c, store')
      PROVE  InForce
  BY <1>1 DEF Ready
<1>2. ASSUME IInv, NEW c \in Callers, Publish(c)
      PROVE  InForce
  <2>1. at[c] = "publishing" /\ Ready(c, view[c])
    BY <1>2 DEF Publish, IInv, InPublication
  <2>2. store \in Stores /\ view[c] \in Stores
    BY <1>2, <2>1 DEF IInv, Ready, Settled, Coherent
  <2>3. PICK f : /\ f \in Range(Fields)
                 /\ store' = [store EXCEPT ![f] = view[c][f]]
    BY <1>2 DEF Publish, Unpublished
  <2>4. /\ store'.authorizations \in {store.authorizations, view[c].authorizations}
        /\ store'.resolutions \in {store.resolutions, view[c].resolutions}
    BY <2>2, <2>3, StoreReplaced, FieldNames
  <2> QED BY <2>1, <2>4 DEF Ready
<1>3. ASSUME IInv, Next
      PROVE  InForce
  <2>1. PICK c \in Callers :
            \/ FinishPublishing(c) \/ CommitImmediate(c) \/ Publish(c)
            \/ store' = store
    BY <1>3 DEF Next, Call, CopyField, BeginImmediate, Busy, RollBack, Stage, RefuseCommit,
                Validate, Crash
  <2>2. CASE FinishPublishing(c) \/ CommitImmediate(c)
    <3>1. Ready(c, store')
      BY <1>3, <2>2, FinishPublishingStep, CommitImmediateStep
    <3> QED BY <1>1, <3>1
  <2>3. CASE Publish(c)
    BY <1>2, <1>3, <2>3
  <2>4. CASE store' = store
    BY <2>4
  <2> QED BY <2>1, <2>2, <2>3, <2>4
<1>4. IInv /\ [Next]_vars =>
          [\A claim \in (store'.authorizations \ store.authorizations)
                            \cup (store'.resolutions \ store.resolutions) :
              /\ store.control.permits
              /\ store.control.generation = claim.generation]_vars
  BY <1>3
<1> QED BY <1>4, InductiveInvariant, PTL DEF Spec, AuthorizedUnderControl

=============================================================================
