----------------------- MODULE QualificationCampaign -----------------------
(***************************************************************************)
(* One Paper qualification run, the service that executes commands against *)
(* it, and its callers: the scenario harness and free operators.  A call   *)
(* of the service is a sequence of reads and writes of two ports, the run  *)
(* repository and the evidence recorder; calls interleave between any two  *)
(* of them, and any port may fail.                                         *)
(***************************************************************************)
EXTENDS QualificationScenarios

CONSTANTS Operators,     \* the callers that follow no scenario
          Harness,       \* the caller that runs a scenario
          Offered,       \* the scenarios the harness may be given
          Keys,          \* the idempotency keys the operators use
          Recoverable,   \* the states a restart may claim to have recovered
          MaxCommands,   \* how many of the operators' commands may leave evidence
          MaxFaults      \* how many port calls fail

Callers == Operators \cup {Harness}
ScenarioKeys ==
  UNION {{scenario.steps[i].key : i \in DOMAIN scenario.steps}
           : scenario \in Offered}
AllKeys == Keys \cup ScenarioKeys

\* The steps of a scenario are a sequence.  A step that must be rejected is
\* the last: the harness stops at it, and no validation says so.
WellFormedSteps(steps) ==
  /\ Len(steps) \in Nat \ {0} /\ DOMAIN steps = 1 .. Len(steps)
  /\ \A i \in DOMAIN steps : steps[i].kind = "rejected" => i = Len(steps)

ASSUME CampaignAssumption ==
  /\ Offered # {}
  /\ Harness \notin Operators
  /\ Keys \cap ScenarioKeys = {}
  /\ Recoverable \subseteq ActiveStates \cup {"same"}
  /\ MaxCommands \in Nat /\ MaxFaults \in Nat
  /\ \A scenario \in Offered : WellFormedSteps(scenario.steps)

VARIABLES
  stored,     \* the run in the repository
  records,    \* the command record of each key, id 0 when there is none
  evidence,   \* the records of the evidence recorder
  calls,      \* each caller's call of the service
  harness,    \* the scenario under way and how it stands
  issued,     \* the operators' commands in flight or that left evidence
  faults,     \* how many port calls failed so far
  trail,      \* history: the transitions saved, in order
  proposals   \* history: how often an answer proposed each broker action

vars ==
  <<stored, records, evidence, calls, harness, issued, faults, trail,
    proposals>>

Absent == [state |-> "none", result |-> "PENDING", revision |-> 0]
Fresh == [state |-> "NOT_STARTED", result |-> "PENDING", revision |-> 0]
NoRecord == [id |-> 0, next |-> 0, fingerprint |-> <<"none", "none">>]
NoCommand ==
  [event |-> "none", id |-> "none", key |-> "none", payload |-> "none",
   guards |-> {}, expected |-> 0, recovered |-> "same"]

Idle ==
  [at |-> "idle", command |-> NoCommand, loaded |-> Absent,
   decision |-> Rejected("none", Absent)]

Waiting ==
  [scenario |-> CHOOSE scenario \in Offered : TRUE, next |-> 1,
   status |-> "waiting"]

BrokerActions == {"SEND", "CANCEL"}

Init ==
  /\ stored = Absent
  /\ records = [key \in AllKeys |-> NoRecord]
  /\ evidence = {}
  /\ calls = [c \in Callers |-> Idle]
  /\ harness = Waiting
  /\ issued = {}
  /\ faults = 0
  /\ trail = <<>>
  /\ proposals = [action \in BrokerActions |-> 0]
-----------------------------------------------------------------------------
(***************************************************************************)
(* The harness.  It looks at the run, sends the next step's command, and   *)
(* holds the answer against the step; the first failure ends the scenario. *)
(***************************************************************************)
CurrentStep == harness.scenario.steps[harness.next]

Start(scenario) ==
  /\ harness.status = "waiting"
  /\ harness' = [scenario |-> scenario, next |-> 1,
                 status |-> IF Executable(scenario) THEN "running"
                            ELSE "INVALID_SPECIFICATION"]
  /\ UNCHANGED <<stored, records, evidence, calls, issued, faults, trail,
                 proposals>>

SourceAgrees ==
  IF stored = Absent THEN harness.next = 1
  ELSE stored.state = CurrentStep.source

Look ==
  /\ harness.status = "running"
  /\ calls[Harness].at = "idle"
  /\ IF SourceAgrees
     THEN /\ calls' = [calls EXCEPT ![Harness].at = "issued",
                                    ![Harness].command = CommandOf(CurrentStep)]
          /\ harness' = harness
     ELSE /\ harness' = [harness EXCEPT !.status = "FAILED"]
          /\ calls' = calls
  /\ UNCHANGED <<stored, records, evidence, issued, faults, trail, proposals>>

\* The scenario after an answer: a rejection that was expected stops it too.
Judged(decision) ==
  LET scenario == harness.scenario
      last == harness.next = Len(scenario.steps)
               \/ CurrentStep.kind = "rejected"
  IN  IF ~AsExpected(CurrentStep, decision)
      THEN [harness EXCEPT !.status = "FAILED"]
      ELSE IF ~last THEN [harness EXCEPT !.next = @ + 1]
      ELSE IF ~Ends(scenario, decision.after)
      THEN [harness EXCEPT !.status = "FAILED"]
      ELSE IF harness.next = 1 /\ CurrentStep.kind = "rejected"
      THEN [harness EXCEPT !.status = "EXPECTED_REJECTION_CONFIRMED"]
      ELSE [harness EXCEPT !.status = "PASSED"]

\* A command that left evidence, whatever became of it.
Left(command) == \E record \in evidence : record.command = command.id

\* A call returns its answer, with the plan its caller is to carry out.
Answer(c, decision) ==
  /\ calls' = [calls EXCEPT ![c] = Idle]
  /\ harness' = IF c = Harness THEN Judged(decision) ELSE harness
  /\ issued' = IF decision.kind = "rejected" /\ ~Left(calls[c].command)
               THEN issued \ {calls[c].command} ELSE issued
  /\ proposals' = [action \in BrokerActions |->
                     proposals[action]
                       + IF action \in decision.effects THEN 1 ELSE 0]

\* A call ends with an exception, and its caller gets no plan.
Raise(c) ==
  /\ calls' = [calls EXCEPT ![c] = Idle]
  /\ harness' = IF c = Harness THEN [harness EXCEPT !.status = "FAILED"]
                ELSE harness
  /\ UNCHANGED <<issued, proposals>>
-----------------------------------------------------------------------------
(***************************************************************************)
(* The operators.  They state the revision the repository holds and an     *)
(* event the table has a row for in the state it holds (any other is       *)
(* rejected at that revision), with the guards of one row or of all rows.  *)
(***************************************************************************)
SeenState == IF stored = Absent THEN "NOT_STARTED" ELSE stored.state
GuardsFor(event) ==
  LET sets == {row.guards : row \in Candidates(SeenState, event)}
  IN  sets \cup {UNION sets}

Issuable ==
  UNION {{[event |-> event, id |-> key, key |-> key, payload |-> "stated",
           guards |-> guards, expected |-> stored.revision,
           recovered |-> recovered]
            : key \in Keys \ {command.id : command \in issued},
              guards \in GuardsFor(event),
              recovered \in IF event = "PROCESS_RESTARTED" THEN Recoverable
                            ELSE {"same"}}
           : event \in {row.event : row \in
                           {r \in Rows : SeenState \in r.sources}}}

\* A command sent again: as it was, at the revision now stored, or under
\* another key.
Repetitions ==
  UNION {{command, [command EXCEPT !.expected = stored.revision]}
           \cup {[command EXCEPT !.key = key] : key \in Keys}
           : command \in issued}

Issue(c) ==
  /\ calls[c].at = "idle"
  /\ \E command \in Issuable \cup Repetitions :
       /\ calls' = [calls EXCEPT ![c].at = "issued", ![c].command = command]
       /\ issued' = issued \cup {command}
       /\ Cardinality(issued') <= MaxCommands
  /\ UNCHANGED <<stored, records, evidence, harness, faults, trail, proposals>>
-----------------------------------------------------------------------------
(***************************************************************************)
(* PaperQualificationService.execute.                                      *)
(***************************************************************************)
Started(command) == command.event = "START_QUALIFICATION"

\* A run that is not there can only be started, and one that is there and
\* stands where it would begin cannot be started over.
Unloadable(command) ==
  \/ stored = Absent /\ ~Started(command)
  \/ stored.state = "NOT_STARTED" /\ Started(command) /\ command.expected = 0

Load(c) ==
  LET command == calls[c].command
  IN  /\ calls[c].at = "issued"
      /\ \/ /\ Unloadable(command)
            /\ Raise(c)
         \/ /\ ~Unloadable(command)
            /\ calls' = [calls EXCEPT ![c].at = "loaded",
                                      ![c].loaded = IF stored = Absent
                                                    THEN Fresh ELSE stored]
            /\ UNCHANGED <<harness, issued, proposals>>
      /\ UNCHANGED <<stored, records, evidence, faults, trail>>

\* The record of the key is read after the run: a call that finishes between
\* the two reads is answered as a repetition of a transition the loaded run
\* has not made yet.
ReadPrior(c) ==
  LET command == calls[c].command
      decision == Decide(calls[c].loaded, command, records[command.key])
  IN  /\ calls[c].at = "loaded"
      /\ \/ /\ decision.kind # "accepted"
            /\ Answer(c, decision)
         \/ /\ decision.kind = "accepted"
            /\ calls' = [calls EXCEPT ![c].at = "accepted",
                                      ![c].decision = decision]
            /\ UNCHANGED <<harness, issued, proposals>>
      /\ UNCHANGED <<stored, records, evidence, faults, trail>>

\* Mutant: the evidence names the revision the run leaves.
EvidenceOfBefore(command, decision) ==
  [id |-> decision.id, command |-> command.id, key |-> command.key,
   before |-> decision.before.state, after |-> decision.after.state,
   result |-> decision.after.result, revision |-> decision.before.revision]

EvidenceOf(command, decision) ==
  [id |-> decision.id, command |-> command.id, key |-> command.key,
   before |-> decision.before.state, after |-> decision.after.state,
   result |-> decision.after.result, revision |-> decision.after.revision]

\* Two records of one evidence identity that differ in what it leaves out.
Clashes(new) ==
  \E old \in evidence :
    /\ old # new
    /\ [old EXCEPT !.key = new.key, !.result = new.result] = new

RecordEvidence(c) ==
  LET new == EvidenceOf(calls[c].command, calls[c].decision)
  IN  /\ calls[c].at = "accepted"
      /\ \/ /\ Clashes(new)
            /\ Raise(c)
            /\ UNCHANGED evidence
         \/ /\ ~Clashes(new)
            /\ evidence' = evidence \cup {new}
            /\ calls' = [calls EXCEPT ![c].at = "evidenced"]
            /\ UNCHANGED <<harness, issued, proposals>>
      /\ UNCHANGED <<stored, records, faults, trail>>

\* Mutant: the repository saves without comparing revisions.
SaveableAnyway(decision) == TRUE

\* The repository refuses a run that was decided from another revision.
Saveable(decision) ==
  stored = Absent \/ stored.revision = decision.before.revision

\* Mutant: a refused save is not noticed.
SaveRunUnchecked(c) ==
  LET decision == calls[c].decision
  IN  /\ calls[c].at = "evidenced"
      /\ calls' = [calls EXCEPT ![c].at = "saved"]
      /\ IF Saveable(decision)
         THEN /\ stored' = decision.after
              /\ trail' = Append(trail, [id |-> decision.id,
                                         key |-> calls[c].command.key])
         ELSE UNCHANGED <<stored, trail>>
      /\ UNCHANGED <<records, evidence, harness, issued, faults, proposals>>

SaveRun(c) ==
  LET decision == calls[c].decision
  IN  /\ calls[c].at = "evidenced"
      /\ \/ /\ Saveable(decision)
            /\ stored' = decision.after
            /\ trail' = Append(trail, [id |-> decision.id,
                                       key |-> calls[c].command.key])
            /\ calls' = [calls EXCEPT ![c].at = "saved"]
            /\ UNCHANGED <<harness, issued, proposals>>
         \/ /\ ~Saveable(decision)
            /\ Raise(c)
            /\ UNCHANGED <<stored, trail>>
      /\ UNCHANGED <<records, evidence, faults>>

RecordCommand(c) ==
  LET command == calls[c].command
      decision == calls[c].decision
  IN  /\ calls[c].at = "saved"
      /\ records' = [records EXCEPT
                       ![command.key] =
                         [id |-> decision.id,
                          next |-> decision.after.revision,
                          fingerprint |-> Fingerprint(command)]]
      /\ Answer(c, decision)
      /\ UNCHANGED <<stored, evidence, faults, trail>>

\* The port a call is about to use fails: what it did so far stays.
PortFails(c) ==
  /\ calls[c].at # "idle"
  /\ faults < MaxFaults
  /\ faults' = faults + 1
  /\ Raise(c)
  /\ UNCHANGED <<stored, records, evidence, trail>>

ServiceStep(c) ==
  \/ Load(c)
  \/ ReadPrior(c)
  \/ RecordEvidence(c)
  \/ SaveRun(c)
  \/ RecordCommand(c)
  \/ PortFails(c)

Next ==
  \/ \E scenario \in Offered : Start(scenario)
  \/ Look
  \/ \E c \in Operators : Issue(c)
  \/ \E c \in Callers : ServiceStep(c)

Spec == Init /\ [][Next]_vars
-----------------------------------------------------------------------------
Runs ==
  [state : States \cup {"none"}, result : Results, revision : Nat]

Phases == {"idle", "issued", "loaded", "accepted", "evidenced", "saved"}

\* A command has the fields of a command and names a known key and state.
CommandOK(command) ==
  /\ command = [event |-> command.event, id |-> command.id,
                key |-> command.key, payload |-> command.payload,
                guards |-> command.guards, expected |-> command.expected,
                recovered |-> command.recovered]
  /\ command.key \in AllKeys
  /\ command.recovered \in Recoverable \cup {"same"}

CallOK(call) ==
  /\ call \in [at : Phases, command : {call.command}, loaded : Runs,
               decision : {call.decision}]
  /\ call.at # "idle" => CommandOK(call.command)
  /\ call.decision.after \in Runs

\* Every variable keeps its type, and the run is where its trail ends.
TypeOK ==
  /\ stored \in Runs
  /\ trail \in Seq([id : 1 .. 35, key : AllKeys])
  /\ stored.revision = Len(trail)
  /\ records = [key \in AllKeys |-> records[key]]
  /\ calls = [c \in Callers |-> calls[c]]
  /\ \A c \in Callers : CallOK(calls[c])
  /\ harness = [scenario |-> harness.scenario, next |-> harness.next,
                status |-> harness.status]
  /\ harness.scenario \in Offered
  /\ \A command \in issued : CommandOK(command)

\* Every transition the run made was evidenced before it was made, by the
\* command that made it: there is no revision without its evidence, whatever
\* call failed or lost the race to save.
TrailIsEvidenced ==
  \A i \in DOMAIN trail :
    \E record \in evidence :
      record.id = trail[i].id /\ record.key = trail[i].key
        /\ record.revision = i

\* The run made a transition by a key, and came to a revision by it.
Made(revision, id, key) ==
  /\ revision \in DOMAIN trail
  /\ trail[revision] = [id |-> id, key |-> key]

\* A key that is answered as a repetition names a transition the run really
\* made, at the revision its record says and by that very key.
ReplayedWasMade ==
  \A key \in AllKeys :
    records[key].id # 0 => Made(records[key].next, records[key].id, key)

\* The order is sent once: whatever the callers repeat, race and recover,
\* one answer at most ever proposes to send it.
SentOnce == proposals["SEND"] <= 1

\* A scenario passes only if the run made each of its accepted steps, at the
\* step's revision and by the step's own command.
PassedWasPerformed ==
  harness.status = "PASSED" =>
    \A i \in DOMAIN harness.scenario.steps :
      LET step == harness.scenario.steps[i]
      IN  step.kind = "accepted" =>
            /\ step.revision \in DOMAIN trail
            /\ trail[step.revision] = [id |-> step.id, key |-> step.key]

Current == IF stored = Absent THEN Fresh ELSE stored

\* The run as a machine of its own: it moves by one row of the table from
\* the state it is in.
MovesByARow ==
  \E row \in Rows, recovered \in Recoverable \cup {"same"} :
    /\ Current.state \in row.sources
    /\ stored' = After(row, Current, [recovered |-> recovered])

\* However stale the run a decision was taken from, whoever else decided and
\* whatever failed, the run only ever moves by a row of the table from the
\* state the repository holds.
AdvancesByRows == [][MovesByARow]_stored
-----------------------------------------------------------------------------
(***************************************************************************)
(* The inductive invariant behind the theorems.                            *)
(***************************************************************************)
\* There is a run exactly if a transition was saved, and it is in a state.
StoredAgrees ==
  /\ stored = Absent <=> trail = <<>>
  /\ stored # Absent => stored.state \in States

\* What a call loaded is the run, or an earlier revision of it.
LoadedIsOfTheRun(call) ==
  call.at \in {"loaded", "accepted", "evidenced", "saved"} =>
    /\ call.loaded.state \in States
    /\ call.loaded.revision <= stored.revision
    /\ call.loaded.revision = stored.revision => call.loaded = Current

\* What a call decided is a row of the table, taken from what it loaded.
DecidedByARow(call) ==
  call.at \in {"accepted", "evidenced", "saved"} =>
    /\ call.decision.kind = "accepted"
    /\ call.decision.before = call.loaded
    /\ \E row \in Rows :
         /\ call.loaded.state \in row.sources
         /\ call.decision.id = row.id
         /\ call.decision.after = After(row, call.loaded, call.command)
         /\ call.decision.effects = row.effects

\* What a call wrote so far is there.
WrittenIsThere(call) ==
  /\ call.at \in {"evidenced", "saved"} =>
       EvidenceOf(call.command, call.decision) \in evidence
  /\ call.at = "saved" =>
       Made(call.decision.after.revision, call.decision.id, call.command.key)

\* The steps of the scenario before the n-th are made.
MadeUntil(n) ==
  \A i \in DOMAIN harness.scenario.steps :
    LET step == harness.scenario.steps[i]
    IN  i < n /\ step.kind = "accepted" =>
          Made(step.revision, step.id, step.key)

\* A scenario under way is at one of its steps, and its call is that step's.
HarnessFollows ==
  /\ harness.status = "running" =>
       /\ harness.next \in DOMAIN harness.scenario.steps
       /\ MadeUntil(harness.next)
  /\ calls[Harness].at # "idle" =>
       /\ harness.status = "running"
       /\ calls[Harness].command = CommandOf(CurrentStep)

IInv ==
  /\ TypeOK
  /\ StoredAgrees
  /\ \A c \in Callers : LoadedIsOfTheRun(calls[c])
  /\ \A c \in Callers : DecidedByARow(calls[c])
  /\ \A c \in Callers : WrittenIsThere(calls[c])
  /\ HarnessFollows
  /\ TrailIsEvidenced
  /\ ReplayedWasMade
  /\ PassedWasPerformed

\* The states in which the order is not sent: rows lead out of them, never in.
Unsent ==
  {"NOT_STARTED", "PRECHECK_PENDING", "PRECHECK_FAILED", "READY_FOR_APPROVAL",
   "APPROVAL_PENDING", "APPROVED", "SUBMISSION_PENDING"}

\* No restart claims to have recovered such a state, except the one it is in.
RecoversForward == Recoverable \cap Unsent = {}

\* The calls that made the transition that sends and have not answered.
Sending ==
  {c \in Callers : calls[c].at = "saved" /\ "SEND" \in calls[c].decision.effects}

\* Then the run is past sending once a call sends or has proposed to, and
\* after one of them there is no other.
SendsOnce ==
  /\ proposals["SEND"] \in 0 .. 1
  /\ Sending # {} \/ proposals["SEND"] = 1 => Current.state \notin Unsent
  /\ \A c, d \in Sending : c = d
  /\ proposals["SEND"] = 1 => Sending = {}
=============================================================================
