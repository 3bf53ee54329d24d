--------------------- MODULE QualificationCampaignProofs ---------------------
(***************************************************************************)
(* Proofs about QualificationCampaign, for any number of operators, any    *)
(* well-formed scenarios, any keys and any recoverable states.             *)
(*                                                                         *)
(* The calls interleave between any two of their port calls, so that what  *)
(* a call loaded may be behind the run.  What carries the proof is that a  *)
(* revision is never taken twice: a call whose revision is still the run's *)
(* loaded the run as it is, and only such a call can save.                 *)
(***************************************************************************)
EXTENDS QualificationCampaign, FiniteSetTheorems, TLAPS

\* Every row has a number, and but for the restart names where it leads.
LEMMA RowTypes ==
  \A row \in Rows :
    /\ row.id \in 1 .. 35
    /\ row = RestartRow \/ (row.destination \in States /\ row.result \in Results)
<1> DEFINE P(row) ==
      /\ row.id \in 1 .. 35
      /\ row = RestartRow \/ (row.destination \in States /\ row.result \in Results)
<1>1. \A row \in PrecheckRows : P(row)
  BY DEF PrecheckRows, Step, Row, States, Results
<1>2. \A row \in ApprovalRows : P(row)
  BY DEF ApprovalRows, Step, Row, States, Results
<1>3. \A row \in BrokerRows : P(row)
  BY DEF BrokerRows, Step, Row, States, Results
<1>4. \A row \in BrokerEndRows : P(row)
  BY DEF BrokerEndRows, Step, Row, States, Results
<1>5. \A row \in ReconciliationRows : P(row)
  BY DEF ReconciliationRows, Step, Row, States, Results
<1>6. \A row \in ClosingRows : P(row)
  BY DEF ClosingRows, Met, Row, States, Results
<1>7. P(RestartRow)
  BY DEF RestartRow, Row
<1> QED BY <1>1, <1>2, <1>3, <1>4, <1>5, <1>6, <1>7 DEF Rows

\* A row that is taken is a row of the table that starts where the run is.
LEMMA TakenIsARow ==
  ASSUME NEW run, NEW command, Taken(run, command).id # 0
  PROVE  /\ Taken(run, command) \in Rows
         /\ run.state \in Taken(run, command).sources
<1> DEFINE candidates == Candidates(run.state, command.event)
           matches == Matches(run.state, command)
<1>1. Cardinality({}) = 0
  BY FS_EmptySet
<1>2. matches \subseteq candidates
  BY DEF Matches
<1>3. \A row \in candidates : row \in Rows /\ run.state \in row.sources
  BY DEF Candidates
<1>4. CASE Cardinality(matches) = 1
  <2>1. \E row \in matches : TRUE
    BY <1>1, <1>4
  <2>2. Taken(run, command) = CHOOSE row \in matches : TRUE
    BY <1>1, <1>4 DEF Taken
  <2> QED BY <2>1, <2>2, <1>2, <1>3
<1>5. CASE matches = {} /\ Cardinality(candidates) = 1
  <2>1. \E row \in candidates : TRUE
    BY <1>1, <1>5
  <2>2. Taken(run, command) = CHOOSE row \in candidates : TRUE
    BY <1>1, <1>5 DEF Taken
  <2> QED BY <2>1, <2>2, <1>3
<1>6. CASE /\ Cardinality(matches) # 1
           /\ ~(matches = {} /\ Cardinality(candidates) = 1)
  <2>1. Taken(run, command) = Row(0, {}, "none", "none", {}, {}, "none")
    BY <1>6 DEF Taken
  <2> QED BY <2>1 DEF Row
<1> QED BY <1>4, <1>5, <1>6

\* A decision accepts a row that starts where the run is, or leaves the run.
LEMMA DecisionFacts ==
  ASSUME NEW run, NEW command, NEW prior
  PROVE  LET decision == Decide(run, command, prior)
         IN  /\ decision.kind # "accepted" =>
                  decision.after = run /\ decision.effects = {}
             /\ decision.kind = "accepted" =>
                  /\ decision.before = run
                  /\ \E row \in Rows :
                       /\ run.state \in row.sources
                       /\ decision.id = row.id
                       /\ decision.after = After(row, run, command)
                       /\ decision.effects = row.effects
<1> DEFINE row == Taken(run, command)
           decision == Decide(run, command, prior)
<1>1. CASE prior.id # 0
  BY <1>1 DEF Decide, Replayed, Rejected, Decided
<1>2. CASE prior.id = 0 /\ (\/ run.revision # command.expected
                            \/ run.state \in TerminalStates
                            \/ row.id = 0
                            \/ Missing(row, command) # {})
  BY <1>2 DEF Decide, Rejected, Decided
<1>3. CASE /\ prior.id = 0 /\ run.revision = command.expected
           /\ run.state \notin TerminalStates /\ row.id # 0
           /\ Missing(row, command) = {}
  <2>1. decision = Accepted(row, run, command)
    BY <1>3 DEF Decide
  <2>2. row \in Rows /\ run.state \in row.sources
    BY <1>3, TakenIsARow
  <2> QED BY <2>1, <2>2 DEF Accepted, Decided
<1> QED BY <1>1, <1>2, <1>3

\* A row leads a run to a run, one revision on.
LEMMA RowLeadsToARun ==
  ASSUME NEW row \in Rows, NEW run \in Runs, run.state \in States,
         NEW command, CommandOK(command)
  PROVE  /\ After(row, run, command) \in Runs
         /\ After(row, run, command).state \in States
         /\ After(row, run, command).revision = run.revision + 1
<1>1. Destination(row, run, command) \in States
  BY RowTypes, CampaignAssumption DEF Destination, CommandOK, ActiveStates
<1>2. ResultAfter(row, run) \in Results
  BY RowTypes DEF ResultAfter, Runs
<1> QED BY <1>1, <1>2 DEF After, Runs

\* The harness sends commands of known keys, and so do the operators.
LEMMA HarnessCommands ==
  ASSUME NEW scenario \in Offered, NEW i \in DOMAIN scenario.steps
  PROVE  CommandOK(CommandOf(scenario.steps[i]))
<1>1. scenario.steps[i].key \in ScenarioKeys
  BY DEF ScenarioKeys
<1> QED BY <1>1 DEF CommandOK, CommandOf, AllKeys

LEMMA OperatorCommands ==
  ASSUME TypeOK, NEW command \in Issuable \cup Repetitions
  PROVE  CommandOK(command)
<1>1. CASE command \in Issuable
  <2>1. PICK event \in {row.event : row \in {r \in Rows : SeenState \in r.sources}} :
          command \in
            {[event |-> event, id |-> key, key |-> key, payload |-> "stated",
              guards |-> guards, expected |-> stored.revision,
              recovered |-> recovered]
               : key \in Keys \ {old.id : old \in issued},
                 guards \in GuardsFor(event),
                 recovered \in IF event = "PROCESS_RESTARTED" THEN Recoverable
                               ELSE {"same"}}
    BY <1>1 DEF Issuable
  <2> QED BY <2>1 DEF CommandOK, AllKeys
<1>2. CASE command \in Repetitions
  <2>1. PICK old \in issued :
          \/ command = old
          \/ command = [old EXCEPT !.expected = stored.revision]
          \/ \E key \in Keys : command = [old EXCEPT !.key = key]
    BY <1>2 DEF Repetitions
  <2>2. CommandOK(old)
    BY DEF TypeOK
  <2> QED BY <2>1, <2>2 DEF CommandOK, AllKeys
<1> QED BY <1>1, <1>2
-----------------------------------------------------------------------------
(***************************************************************************)
(* Every variable keeps its type.                                          *)
(***************************************************************************)
\* A call that ends leaves a caller that does nothing.
LEMMA IdleIsACall == CallOK(Idle)
BY DEF CallOK, Idle, Phases, Runs, Absent, Rejected, Decided, Results

\* How a call ends keeps types.
LEMMA EndTypes ==
  ASSUME TypeOK, NEW c \in Callers, NEW decision, Answer(c, decision) \/ Raise(c)
  PROVE  /\ calls' = [d \in Callers |-> calls'[d]]
         /\ \A d \in Callers : CallOK(calls'[d])
         /\ harness' = [scenario |-> harness'.scenario, next |-> harness'.next,
                        status |-> harness'.status]
         /\ harness'.scenario \in Offered
         /\ \A command \in issued' : CommandOK(command)
<1>1. calls' = [calls EXCEPT ![c] = Idle]
  BY DEF Answer, Raise
<1>2. calls' = [d \in Callers |-> calls'[d]] /\ \A d \in Callers : CallOK(calls'[d])
  BY <1>1, IdleIsACall DEF TypeOK
<1>3. /\ harness' = [scenario |-> harness'.scenario, next |-> harness'.next,
                     status |-> harness'.status]
      /\ harness'.scenario \in Offered
  BY DEF Answer, Raise, Judged, TypeOK
<1>4. \A command \in issued' : CommandOK(command)
  BY DEF Answer, Raise, TypeOK
<1> QED BY <1>2, <1>3, <1>4

\* A call that goes on is a call.
LEMMA CallGoesOn ==
  ASSUME TypeOK, NEW c \in Callers, NEW call,
         NEW at \in Phases, NEW command, NEW loaded \in Runs, NEW decision,
         CommandOK(command), decision.after \in Runs,
         call \in [at : {at}, command : {command}, loaded : {loaded},
                   decision : {decision}],
         calls' = [calls EXCEPT ![c] = call]
  PROVE  /\ calls' = [d \in Callers |-> calls'[d]]
         /\ \A d \in Callers : CallOK(calls'[d])
<1>1. CallOK(call)
  BY DEF CallOK
<1> QED BY <1>1 DEF TypeOK

\* The fields of a call.
LEMMA CallFields ==
  ASSUME TypeOK, NEW c \in Callers
  PROVE  /\ calls[c] \in [at : {calls[c].at}, command : {calls[c].command},
                          loaded : {calls[c].loaded},
                          decision : {calls[c].decision}]
         /\ calls[c].at \in Phases
         /\ calls[c].at # "idle" => CommandOK(calls[c].command)
         /\ calls[c].loaded \in Runs
         /\ calls[c].decision.after \in Runs
         /\ calls = [d \in Callers |-> calls[d]]
BY DEF TypeOK, CallOK

LEMMA TypeInit == Init => TypeOK
<1> SUFFICES ASSUME Init PROVE TypeOK
  OBVIOUS
<1>1. stored \in Runs /\ trail \in Seq([id : 1 .. 35, key : AllKeys])
        /\ stored.revision = Len(trail)
  BY DEF Init, Runs, Absent, Results
<1>2. records = [key \in AllKeys |-> records[key]]
  BY DEF Init
<1>3. calls = [c \in Callers |-> calls[c]] /\ \A c \in Callers : CallOK(calls[c])
  BY IdleIsACall DEF Init
<1>4. /\ harness = [scenario |-> harness.scenario, next |-> harness.next,
                    status |-> harness.status]
      /\ harness.scenario \in Offered
  BY CampaignAssumption DEF Init, Waiting
<1> QED BY <1>1, <1>2, <1>3, <1>4 DEF TypeOK, Init

\* The steps that neither save nor record a command keep types.
LEMMA TypeQuiet ==
  ASSUME TypeOK, NEW c \in Callers,
         LoadedIsOfTheRun(calls[c]), HarnessFollows,
         \/ Look
         \/ c \in Operators /\ Issue(c)
         \/ Load(c)
         \/ ReadPrior(c)
         \/ RecordEvidence(c)
         \/ PortFails(c)
  PROVE  TypeOK'
<1> SUFFICES
      /\ stored' = stored /\ trail' = trail /\ records' = records
      /\ calls' = [d \in Callers |-> calls'[d]]
      /\ \A d \in Callers : CallOK(calls'[d])
      /\ harness' = [scenario |-> harness'.scenario, next |-> harness'.next,
                     status |-> harness'.status]
      /\ harness'.scenario \in Offered
      /\ \A command \in issued' : CommandOK(command)
  BY DEF TypeOK
<1>1. CASE Look
  <2>1. CASE SourceAgrees
    <3>1. harness.status = "running" /\ CommandOK(CommandOf(CurrentStep))
      BY <1>1, HarnessCommands DEF Look, HarnessFollows, CurrentStep, TypeOK
    <3>2. Harness \in Callers
      BY DEF Callers
    <3> DEFINE call == [calls[Harness] EXCEPT !.at = "issued",
                                              !.command = CommandOf(CurrentStep)]
    <3>3. /\ calls' = [calls EXCEPT ![Harness] = call]
          /\ call \in [at : {"issued"}, command : {CommandOf(CurrentStep)},
                       loaded : {calls[Harness].loaded},
                       decision : {calls[Harness].decision}]
      BY <1>1, <2>1, <3>2, CallFields DEF Look
    <3> HIDE DEF call
    <3>4. /\ calls' = [d \in Callers |-> calls'[d]]
          /\ \A d \in Callers : CallOK(calls'[d])
      <4>1. /\ "issued" \in Phases /\ calls[Harness].loaded \in Runs
            /\ calls[Harness].decision.after \in Runs
        BY <3>2, CallFields DEF Phases
      <4> QED BY <3>1, <3>2, <3>3, <4>1, CallGoesOn
    <3> QED BY <1>1, <2>1, <3>4 DEF Look, TypeOK
  <2>2. CASE ~SourceAgrees
    BY <1>1, <2>2 DEF Look, TypeOK
  <2> QED BY <2>1, <2>2
<1>2. CASE c \in Operators /\ Issue(c)
  <2>1. PICK command \in Issuable \cup Repetitions :
          /\ calls' = [calls EXCEPT ![c].at = "issued", ![c].command = command]
          /\ issued' = issued \cup {command}
    BY <1>2 DEF Issue
  <2>2. CommandOK(command)
    BY OperatorCommands
  <2> DEFINE call == [calls[c] EXCEPT !.at = "issued", !.command = command]
  <2>3. /\ calls' = [calls EXCEPT ![c] = call]
        /\ call \in [at : {"issued"}, command : {command},
                     loaded : {calls[c].loaded}, decision : {calls[c].decision}]
    BY <2>1, CallFields
  <2> HIDE DEF call
  <2>4. /\ calls' = [d \in Callers |-> calls'[d]]
        /\ \A d \in Callers : CallOK(calls'[d])
    <3>1. /\ "issued" \in Phases /\ calls[c].loaded \in Runs
          /\ calls[c].decision.after \in Runs
      BY CallFields DEF Phases
    <3> QED BY <2>2, <2>3, <3>1, CallGoesOn
  <2> QED BY <1>2, <2>1, <2>2, <2>4 DEF Issue, TypeOK
<1>3. CASE Load(c)
  <2>1. CASE Raise(c)
    BY <1>3, <2>1, EndTypes DEF Load
  <2>2. CASE calls' = [calls EXCEPT ![c].at = "loaded",
                                    ![c].loaded = IF stored = Absent
                                                  THEN Fresh ELSE stored]
              /\ UNCHANGED <<harness, issued, proposals>>
    <3>1. Current \in Runs
      BY DEF TypeOK, Current, Fresh, Runs, States, Results
    <3> DEFINE call == [calls[c] EXCEPT !.at = "loaded", !.loaded = Current]
    <3>2. /\ calls' = [calls EXCEPT ![c] = call]
          /\ call \in [at : {"loaded"}, command : {calls[c].command},
                       loaded : {Current}, decision : {calls[c].decision}]
      BY <2>2, CallFields DEF Current
    <3> HIDE DEF call
    <3>3. /\ calls' = [d \in Callers |-> calls'[d]]
          /\ \A d \in Callers : CallOK(calls'[d])
      <4>1. /\ "loaded" \in Phases /\ CommandOK(calls[c].command)
            /\ calls[c].decision.after \in Runs
        BY <1>3, CallFields DEF Load, Phases
      <4> QED BY <3>1, <3>2, <4>1, CallGoesOn
    <3> QED BY <1>3, <2>2, <3>3 DEF Load, TypeOK
  <2> QED BY <1>3, <2>1, <2>2 DEF Load
<1>4. CASE ReadPrior(c)
  <2> DEFINE decision == Decide(calls[c].loaded, calls[c].command,
                                records[calls[c].command.key])
  <2>1. CASE Answer(c, decision)
    BY <1>4, <2>1, EndTypes DEF ReadPrior
  <2>2. CASE /\ decision.kind = "accepted"
             /\ calls' = [calls EXCEPT ![c].at = "accepted", ![c].decision = decision]
             /\ UNCHANGED <<harness, issued, proposals>>
    <3>1. /\ calls[c].loaded \in Runs /\ calls[c].loaded.state \in States
          /\ CommandOK(calls[c].command)
      BY <1>4 DEF ReadPrior, LoadedIsOfTheRun, TypeOK, CallOK
    <3>2. decision.after \in Runs
      BY <2>2, <3>1, DecisionFacts, RowLeadsToARun
    <3> DEFINE call == [calls[c] EXCEPT !.at = "accepted", !.decision = decision]
    <3>3. /\ calls' = [calls EXCEPT ![c] = call]
          /\ call \in [at : {"accepted"}, command : {calls[c].command},
                       loaded : {calls[c].loaded}, decision : {decision}]
      BY <2>2, CallFields
    <3> HIDE DEF call
    <3>4. /\ calls' = [d \in Callers |-> calls'[d]]
          /\ \A d \in Callers : CallOK(calls'[d])
      <4>1. "accepted" \in Phases
        BY DEF Phases
      <4> QED BY <3>1, <3>2, <3>3, <4>1, CallGoesOn
    <3> QED BY <1>4, <2>2, <3>4 DEF ReadPrior, TypeOK
  <2> QED BY <1>4, <2>1, <2>2 DEF ReadPrior
<1>5. CASE RecordEvidence(c)
  <2>1. CASE Raise(c)
    BY <1>5, <2>1, EndTypes DEF RecordEvidence
  <2>2. CASE calls' = [calls EXCEPT ![c].at = "evidenced"]
              /\ UNCHANGED <<harness, issued, proposals>>
    <3> DEFINE call == [calls[c] EXCEPT !.at = "evidenced"]
    <3>1. /\ calls' = [calls EXCEPT ![c] = call]
          /\ call \in [at : {"evidenced"}, command : {calls[c].command},
                       loaded : {calls[c].loaded},
                       decision : {calls[c].decision}]
      BY <2>2, CallFields
    <3> HIDE DEF call
    <3>2. /\ calls' = [d \in Callers |-> calls'[d]]
          /\ \A d \in Callers : CallOK(calls'[d])
      <4>1. /\ "evidenced" \in Phases /\ CommandOK(calls[c].command)
            /\ calls[c].loaded \in Runs /\ calls[c].decision.after \in Runs
        BY <1>5, CallFields DEF RecordEvidence, Phases
      <4> QED BY <3>1, <4>1, CallGoesOn
    <3> QED BY <1>5, <2>2, <3>2 DEF RecordEvidence, TypeOK
  <2> QED BY <1>5, <2>1, <2>2 DEF RecordEvidence
<1>6. CASE PortFails(c)
  BY <1>6, EndTypes DEF PortFails
<1> QED BY <1>1, <1>2, <1>3, <1>4, <1>5, <1>6

\* A call that may save loaded the run as it is, and takes its next revision.
LEMMA OnlyTheCurrentSaves ==
  ASSUME TypeOK, StoredAgrees, NEW c \in Callers,
         LoadedIsOfTheRun(calls[c]), DecidedByARow(calls[c]),
         calls[c].at = "evidenced", Saveable(calls[c].decision)
  PROVE  /\ calls[c].loaded = Current
         /\ calls[c].decision.after \in Runs
         /\ calls[c].decision.after.state \in States
         /\ calls[c].decision.after.revision = Len(trail) + 1
         /\ calls[c].decision.id \in 1 .. 35
         /\ \E row \in Rows :
              /\ Current.state \in row.sources
              /\ calls[c].decision.after = After(row, Current, calls[c].command)
<1> DEFINE call == calls[c]
<1>1. /\ call.loaded \in Runs /\ call.loaded.state \in States
      /\ CommandOK(call.command)
  BY CallFields DEF LoadedIsOfTheRun
<1>2. stored.revision = Len(trail) /\ Len(trail) \in Nat
  BY DEF TypeOK, Runs
<1>3. call.loaded.revision = stored.revision
  <2>1. CASE stored = Absent
    <3>1. stored.revision = 0
      BY <2>1 DEF Absent
    <3> QED BY <1>1, <3>1 DEF LoadedIsOfTheRun, Runs
  <2>2. CASE stored # Absent
    BY <2>2 DEF Saveable, DecidedByARow
  <2> QED BY <2>1, <2>2
<1>4. call.loaded = Current
  BY <1>3 DEF LoadedIsOfTheRun
<1>5. PICK row \in Rows :
        /\ call.loaded.state \in row.sources
        /\ call.decision.id = row.id
        /\ call.decision.after = After(row, call.loaded, call.command)
  BY DEF DecidedByARow
<1>6. /\ After(row, call.loaded, call.command) \in Runs
      /\ After(row, call.loaded, call.command).state \in States
      /\ After(row, call.loaded, call.command).revision = call.loaded.revision + 1
  BY <1>1, RowLeadsToARun
<1> HIDE DEF call
<1>7. /\ call.decision.after \in Runs
      /\ call.decision.after.state \in States
      /\ call.decision.after.revision = Len(trail) + 1
      /\ call.decision.id \in 1 .. 35
  BY <1>2, <1>3, <1>5, <1>6, RowTypes
<1>8. /\ call.loaded = Current
      /\ \E r \in Rows :
           /\ Current.state \in r.sources
           /\ call.decision.after = After(r, Current, call.command)
  BY <1>4, <1>5
<1> QED BY <1>7, <1>8 DEF call

\* A save keeps types: the trail grows by what the run came to.
LEMMA TypeSave ==
  ASSUME TypeOK, StoredAgrees, NEW c \in Callers,
         LoadedIsOfTheRun(calls[c]), DecidedByARow(calls[c]), SaveRun(c)
  PROVE  TypeOK'
<1> DEFINE decision == calls[c].decision
<1>1. CASE Saveable(decision) /\ calls' = [calls EXCEPT ![c].at = "saved"]
  <2> DEFINE call == [calls[c] EXCEPT !.at = "saved"]
  <2>1. /\ calls' = [calls EXCEPT ![c] = call]
        /\ call \in [at : {"saved"}, command : {calls[c].command},
                     loaded : {calls[c].loaded}, decision : {decision}]
    BY <1>1, CallFields
  <2> HIDE DEF call
  <2>2. /\ "saved" \in Phases /\ CommandOK(calls[c].command)
        /\ calls[c].loaded \in Runs /\ decision.after \in Runs
    BY CallFields DEF SaveRun, Phases
  <2>3. /\ calls' = [d \in Callers |-> calls'[d]]
        /\ \A d \in Callers : CallOK(calls'[d])
    BY <2>1, <2>2, CallGoesOn
  <2>4. /\ decision.after \in Runs
        /\ decision.after.revision = Len(trail) + 1
        /\ decision.id \in 1 .. 35
    BY <1>1, OnlyTheCurrentSaves DEF SaveRun
  <2>5. calls[c].command.key \in AllKeys
    BY <2>2 DEF CommandOK
  <2>6. /\ stored' = decision.after
        /\ trail' = Append(trail, [id |-> decision.id, key |-> calls[c].command.key])
        /\ records' = records /\ harness' = harness /\ issued' = issued
    BY <1>1 DEF SaveRun, Raise
  <2>7. /\ trail' \in Seq([id : 1 .. 35, key : AllKeys])
        /\ Len(trail') = Len(trail) + 1
    BY <2>4, <2>5, <2>6 DEF TypeOK
  <2> QED BY <2>3, <2>4, <2>6, <2>7 DEF TypeOK
<1>2. CASE ~Saveable(decision)
  BY <1>2, EndTypes DEF SaveRun, TypeOK
<1> QED BY <1>1, <1>2 DEF SaveRun

LEMMA TypeRecord ==
  ASSUME TypeOK, NEW c \in Callers, RecordCommand(c)
  PROVE  TypeOK'
BY EndTypes DEF RecordCommand, TypeOK
-----------------------------------------------------------------------------
(***************************************************************************)
(* What a step does to the run, to its records and to a call.              *)
(***************************************************************************)
\* What a step leaves of the run: all of it, or all of it and one transition.
Quiet == stored' = stored /\ trail' = trail

Saves(c) ==
  /\ calls[c].at = "evidenced" /\ Saveable(calls[c].decision)
  /\ stored' = calls[c].decision.after
  /\ trail' = Append(trail, [id |-> calls[c].decision.id,
                             key |-> calls[c].command.key])
  /\ evidence' = evidence /\ records' = records /\ harness' = harness
  /\ calls' = [calls EXCEPT ![c].at = "saved"]

\* A call of the service either leaves the run or saves, and forgets nothing.
LEMMA RunSteps ==
  ASSUME NEW c \in Callers, ServiceStep(c)
  PROVE  /\ Quiet \/ Saves(c)
         /\ evidence \subseteq evidence'
         /\ RecordCommand(c) \/ records' = records
<1>1. CASE SaveRun(c)
  <2>1. CASE Saveable(calls[c].decision) /\ calls' = [calls EXCEPT ![c].at = "saved"]
    BY <1>1, <2>1 DEF SaveRun, Saves, Raise, Quiet
  <2>2. CASE ~Saveable(calls[c].decision)
    BY <1>1, <2>2 DEF SaveRun, Quiet
  <2> QED BY <1>1, <2>1, <2>2 DEF SaveRun
<1>2. CASE Load(c) \/ ReadPrior(c) \/ RecordEvidence(c) \/ RecordCommand(c)
             \/ PortFails(c)
  BY <1>2 DEF Load, ReadPrior, RecordEvidence, RecordCommand, PortFails, Quiet
<1> QED BY <1>1, <1>2 DEF ServiceStep

\* What a call of the service has become after a step of its own.
Loads(call) ==
  /\ call.at = "loaded" /\ call.loaded = Current
  /\ Quiet

Accepts(c, call) ==
  /\ calls[c].at = "loaded" /\ call.at = "accepted"
  /\ call.command = calls[c].command /\ call.loaded = calls[c].loaded
  /\ call.decision = Decide(calls[c].loaded, calls[c].command,
                            records[calls[c].command.key])
  /\ call.decision.kind = "accepted"
  /\ Quiet

GoesOn(c, call) ==
  /\ \/ calls[c].at = "accepted" /\ call.at = "evidenced" /\ Quiet
     \/ calls[c].at = "evidenced" /\ call.at = "saved" /\ Saves(c)
  /\ call.command = calls[c].command /\ call.loaded = calls[c].loaded
  /\ call.decision = calls[c].decision
  /\ EvidenceOf(call.command, call.decision) \in evidence'
       \/ calls[c].at = "evidenced"

\* A call that the caller's own step moves on.
LEMMA OwnSteps ==
  ASSUME TypeOK, NEW c \in Callers, ServiceStep(c)
  PROVE  \/ calls'[c] = Idle
         \/ Loads(calls'[c]) /\ calls'[c].command = calls[c].command
         \/ Accepts(c, calls'[c])
         \/ GoesOn(c, calls'[c])
<1>0. /\ calls = [d \in Callers |-> calls[d]]
      /\ calls[c] \in [at : {calls[c].at}, command : {calls[c].command},
                       loaded : {calls[c].loaded},
                       decision : {calls[c].decision}]
  BY CallFields
<1>1. CASE Raise(c) \/ \E decision : Answer(c, decision)
  BY <1>0, <1>1 DEF Raise, Answer
<1>2. CASE Load(c) /\ ~Raise(c)
  <2>1. calls' = [calls EXCEPT ![c].at = "loaded", ![c].loaded = Current] /\ Quiet
    BY <1>2 DEF Load, Current, Quiet
  <2> QED BY <1>0, <2>1 DEF Loads
<1>3. CASE ReadPrior(c) /\ ~(\E decision : Answer(c, decision))
  <2> DEFINE decision == Decide(calls[c].loaded, calls[c].command,
                                records[calls[c].command.key])
  <2>1. /\ calls[c].at = "loaded" /\ decision.kind = "accepted" /\ Quiet
        /\ calls' = [calls EXCEPT ![c].at = "accepted", ![c].decision = decision]
    BY <1>3 DEF ReadPrior, Quiet
  <2> QED BY <1>0, <2>1 DEF Accepts
<1>4. CASE RecordEvidence(c) /\ ~Raise(c)
  <2>1. /\ calls[c].at = "accepted" /\ Quiet
        /\ EvidenceOf(calls[c].command, calls[c].decision) \in evidence'
        /\ calls' = [calls EXCEPT ![c].at = "evidenced"]
    BY <1>4 DEF RecordEvidence, Quiet
  <2> QED BY <1>0, <2>1 DEF GoesOn
<1>5. CASE SaveRun(c) /\ ~Raise(c)
  <2>1. Saves(c)
    BY <1>5 DEF SaveRun, Saves
  <2> QED BY <1>0, <2>1 DEF GoesOn, Saves
<1>6. CASE RecordCommand(c) \/ PortFails(c)
  BY <1>1, <1>6 DEF RecordCommand, PortFails
<1> QED BY <1>1, <1>2, <1>3, <1>4, <1>5, <1>6 DEF ServiceStep

\* What a step of anyone does to a call.
LEMMA CallSteps ==
  ASSUME TypeOK, Next, NEW d \in Callers
  PROVE  \/ calls'[d] = calls[d]
         \/ calls'[d].at \in {"idle", "issued"}
         \/ Loads(calls'[d])
         \/ Accepts(d, calls'[d])
         \/ GoesOn(d, calls'[d])
<1>0. calls = [c \in Callers |-> calls[c]]
  BY CallFields
<1>1. ASSUME NEW c \in Callers, NEW at, calls[c].at = "idle",
             \E command :
               calls' = [calls EXCEPT ![c].at = "issued", ![c].command = command]
      PROVE  calls'[d] = calls[d] \/ calls'[d].at = "issued"
  <2>1. calls[c] \in [at : {calls[c].at}, command : {calls[c].command},
                      loaded : {calls[c].loaded}, decision : {calls[c].decision}]
    BY CallFields
  <2> QED BY <1>0, <1>1, <2>1
<1>2. CASE \E scenario \in Offered : Start(scenario)
  BY <1>2 DEF Start
<1>3. CASE Look
  BY <1>1, <1>3 DEF Look, Callers
<1>4. CASE \E c \in Operators : Issue(c)
  BY <1>1, <1>4 DEF Issue, Callers
<1>5. CASE \E c \in Callers : ServiceStep(c)
  <2>1. PICK c \in Callers : ServiceStep(c)
    BY <1>5
  <2>2. CASE c = d
    BY <2>1, <2>2, OwnSteps DEF Idle
  <2>3. CASE c # d
    BY <1>0, <2>1, <2>3 DEF ServiceStep, Load, ReadPrior, RecordEvidence, SaveRun,
       RecordCommand, PortFails, Raise, Answer
  <2> QED BY <2>2, <2>3
<1> QED BY <1>2, <1>3, <1>4, <1>5 DEF Next

\* What a step of anyone does to the run.
LEMMA NextRun ==
  ASSUME Next
  PROVE  /\ Quiet \/ \E c \in Callers : Saves(c)
         /\ evidence \subseteq evidence'
         /\ records' = records \/ \E c \in Callers : RecordCommand(c)
<1>1. CASE \E scenario \in Offered : Start(scenario)
  BY <1>1 DEF Start, Quiet
<1>2. CASE Look
  BY <1>2 DEF Look, Quiet
<1>3. CASE \E c \in Operators : Issue(c)
  BY <1>3 DEF Issue, Quiet
<1>4. CASE \E c \in Callers : ServiceStep(c)
  BY <1>4, RunSteps
<1> QED BY <1>1, <1>2, <1>3, <1>4 DEF Next

-----------------------------------------------------------------------------
(***************************************************************************)
(* The inductive invariant, conjunct by conjunct.                          *)
(***************************************************************************)
LEMMA TypeStep ==
  ASSUME IInv, Next
  PROVE  TypeOK'
<1> USE DEF IInv
<1>1. CASE \E scenario \in Offered : Start(scenario)
  BY <1>1 DEF Start, TypeOK
<1>2. CASE Look
  <2>1. Harness \in Callers
    BY DEF Callers
  <2> QED BY <1>2, <2>1, TypeQuiet
<1>3. CASE \E c \in Operators : Issue(c)
  <2>1. PICK c \in Operators : Issue(c)
    BY <1>3
  <2>2. c \in Callers
    BY DEF Callers
  <2> QED BY <2>1, <2>2, TypeQuiet
<1>4. CASE \E c \in Callers : ServiceStep(c)
  <2>1. PICK c \in Callers : ServiceStep(c)
    BY <1>4
  <2>2. CASE Load(c) \/ ReadPrior(c) \/ RecordEvidence(c) \/ PortFails(c)
    BY <2>2, TypeQuiet
  <2>3. CASE SaveRun(c)
    BY <2>3, TypeSave
  <2>4. CASE RecordCommand(c)
    BY <2>4, TypeRecord
  <2> QED BY <2>1, <2>2, <2>3, <2>4 DEF ServiceStep
<1> QED BY <1>1, <1>2, <1>3, <1>4 DEF Next

\* A save is by a call that loaded the run as it is.
LEMMA SaveFacts ==
  ASSUME IInv, NEW c \in Callers, Saves(c)
  PROVE  /\ stored'.state \in States
         /\ stored'.revision = stored.revision + 1
         /\ calls[c].decision.after.revision = Len(trail) + 1
         /\ [id |-> calls[c].decision.id, key |-> calls[c].command.key]
              \in [id : 1 .. 35, key : AllKeys]
         /\ \E row \in Rows :
              /\ Current.state \in row.sources
              /\ stored' = After(row, Current, calls[c].command)
<1>1. /\ TypeOK /\ StoredAgrees /\ LoadedIsOfTheRun(calls[c])
      /\ DecidedByARow(calls[c])
      /\ calls[c].at = "evidenced" /\ Saveable(calls[c].decision)
      /\ stored' = calls[c].decision.after
  BY DEF IInv, Saves
<1>2. CommandOK(calls[c].command)
  BY <1>1, CallFields
<1> QED BY <1>1, <1>2, OnlyTheCurrentSaves DEF TypeOK, CommandOK

\* What was made stays made.
LEMMA MadeStays ==
  ASSUME IInv, Next, NEW revision, NEW id, NEW key, Made(revision, id, key)
  PROVE  Made(revision, id, key)'
<1>1. CASE Quiet
  BY <1>1 DEF Quiet, Made
<1>2. CASE \E c \in Callers : Saves(c)
  <2>1. PICK entry \in [id : 1 .. 35, key : AllKeys] : trail' = Append(trail, entry)
    BY <1>2, SaveFacts DEF Saves
  <2>2. trail \in Seq([id : 1 .. 35, key : AllKeys])
    BY DEF IInv, TypeOK
  <2> QED BY <2>1, <2>2 DEF Made
<1> QED BY <1>1, <1>2, NextRun

\* The last transition of the trail is the one just saved.
LEMMA SavedIsMade ==
  ASSUME IInv, NEW c \in Callers, Saves(c)
  PROVE  Made(calls[c].decision.after.revision, calls[c].decision.id,
              calls[c].command.key)'
<1> DEFINE entry == [id |-> calls[c].decision.id, key |-> calls[c].command.key]
<1>1. /\ entry \in [id : 1 .. 35, key : AllKeys]
      /\ calls[c].decision.after.revision = Len(trail) + 1
      /\ trail' = Append(trail, entry)
      /\ trail \in Seq([id : 1 .. 35, key : AllKeys])
  BY SaveFacts DEF Saves, IInv, TypeOK
<1> HIDE DEF entry
<1>2. trail'[Len(trail) + 1] = entry /\ Len(trail) + 1 \in DOMAIN trail'
  BY <1>1
<1>3. calls'[c].decision = calls[c].decision /\ calls'[c].command = calls[c].command
  BY CallFields DEF Saves, IInv
<1> QED BY <1>1, <1>2, <1>3 DEF Made, entry

LEMMA StoredStep ==
  ASSUME IInv, Next
  PROVE  StoredAgrees'
<1>1. CASE Quiet
  BY <1>1 DEF Quiet, IInv, StoredAgrees, Absent
<1>2. CASE \E c \in Callers : Saves(c)
  <2>1. PICK c \in Callers : Saves(c)
    BY <1>2
  <2>2. stored' # Absent
    BY <2>1, SaveFacts DEF Absent, States
  <2>3. PICK entry \in [id : 1 .. 35, key : AllKeys] : trail' = Append(trail, entry)
    BY <2>1, SaveFacts DEF Saves
  <2>4. trail \in Seq([id : 1 .. 35, key : AllKeys])
    BY DEF IInv, TypeOK
  <2>5. trail' # <<>>
    BY <2>3, <2>4
  <2>6. stored'.state \in States
    BY <2>1, SaveFacts
  <2> QED BY <2>2, <2>5, <2>6 DEF StoredAgrees, Absent
<1> QED BY <1>1, <1>2, NextRun

\* The run the repository holds, or would create, is in a state.
LEMMA CurrentIsARun ==
  ASSUME IInv
  PROVE  /\ Current \in Runs /\ Current.state \in States
         /\ Current.revision = stored.revision
BY DEF IInv, TypeOK, StoredAgrees, Current, Fresh, Runs, States, Results, Absent

LEMMA LoadedStep ==
  ASSUME IInv, Next, NEW d \in Callers
  PROVE  LoadedIsOfTheRun(calls[d])'
<1>0. stored.revision \in Nat /\ calls[d].loaded.revision \in Nat
  BY CallFields DEF IInv, TypeOK, Runs
<1>1. CASE \/ calls'[d] = calls[d]
           \/ Accepts(d, calls'[d])
           \/ GoesOn(d, calls'[d])
  <2>1. /\ LoadedIsOfTheRun(calls[d])
        /\ calls'[d].at \in {"loaded", "accepted", "evidenced", "saved"} =>
             /\ calls'[d].loaded = calls[d].loaded
             /\ calls[d].at \in {"loaded", "accepted", "evidenced", "saved"}
    BY <1>1 DEF Accepts, GoesOn, IInv
  <2>2. CASE Quiet
    BY <2>1, <2>2 DEF Quiet, LoadedIsOfTheRun, Current
  <2>3. CASE \E c \in Callers : Saves(c)
    <3>1. stored'.revision = stored.revision + 1
      BY <2>3, SaveFacts
    <3> QED BY <1>0, <2>1, <3>1 DEF LoadedIsOfTheRun
  <2> QED BY <2>2, <2>3, NextRun
<1>2. CASE calls'[d].at \in {"idle", "issued"}
  BY <1>2 DEF LoadedIsOfTheRun
<1>3. CASE Loads(calls'[d])
  BY <1>0, <1>3, CurrentIsARun DEF Loads, Quiet, LoadedIsOfTheRun, Current, Runs
<1> QED BY <1>1, <1>2, <1>3, CallSteps DEF IInv

LEMMA DecidedStep ==
  ASSUME IInv, Next, NEW d \in Callers
  PROVE  DecidedByARow(calls[d])'
<1>1. CASE calls'[d] = calls[d] \/ GoesOn(d, calls'[d])
  <2>1. /\ DecidedByARow(calls[d])
        /\ calls'[d].at \in {"accepted", "evidenced", "saved"} =>
             /\ calls'[d].loaded = calls[d].loaded
             /\ calls'[d].command = calls[d].command
             /\ calls'[d].decision = calls[d].decision
             /\ calls[d].at \in {"accepted", "evidenced", "saved"}
    BY <1>1 DEF GoesOn, IInv
  <2> QED BY <2>1 DEF DecidedByARow
<1>2. CASE calls'[d].at \in {"idle", "issued"} \/ Loads(calls'[d])
  BY <1>2 DEF DecidedByARow, Loads
<1>3. CASE Accepts(d, calls'[d])
  <2> DEFINE decision == Decide(calls[d].loaded, calls[d].command,
                                records[calls[d].command.key])
  <2>1. /\ calls'[d].decision = decision /\ decision.kind = "accepted"
        /\ calls'[d].loaded = calls[d].loaded
        /\ calls'[d].command = calls[d].command
    BY <1>3 DEF Accepts
  <2>2. /\ decision.before = calls[d].loaded
        /\ \E row \in Rows :
             /\ calls[d].loaded.state \in row.sources
             /\ decision.id = row.id
             /\ decision.after = After(row, calls[d].loaded, calls[d].command)
             /\ decision.effects = row.effects
    BY <2>1, DecisionFacts
  <2> HIDE DEF decision
  <2> QED BY <2>1, <2>2 DEF DecidedByARow
<1> QED BY <1>1, <1>2, <1>3, CallSteps DEF IInv

LEMMA WrittenStep ==
  ASSUME IInv, Next, NEW d \in Callers
  PROVE  WrittenIsThere(calls[d])'
<1>1. evidence \subseteq evidence'
  BY NextRun
<1>2. CASE calls'[d] = calls[d]
  <2>1. calls[d].at = "saved" =>
          Made(calls[d].decision.after.revision, calls[d].decision.id,
               calls[d].command.key)'
    <3>1. SUFFICES ASSUME calls[d].at = "saved"
          PROVE Made(calls[d].decision.after.revision, calls[d].decision.id,
                     calls[d].command.key)'
      OBVIOUS
    <3>2. Made(calls[d].decision.after.revision, calls[d].decision.id,
               calls[d].command.key)
      BY <3>1 DEF IInv, WrittenIsThere
    <3> QED BY <1>2, <3>2, MadeStays
  <2> QED BY <1>1, <1>2, <2>1 DEF IInv, WrittenIsThere
<1>3. CASE \/ calls'[d].at \in {"idle", "issued"}
           \/ Loads(calls'[d]) \/ Accepts(d, calls'[d])
  BY <1>3 DEF WrittenIsThere, Loads, Accepts
<1>4. CASE GoesOn(d, calls'[d])
  <2>1. EvidenceOf(calls'[d].command, calls'[d].decision) \in evidence'
    BY <1>1, <1>4 DEF GoesOn, IInv, WrittenIsThere
  <2>2. calls'[d].at = "saved" =>
          Made(calls[d].decision.after.revision, calls[d].decision.id,
               calls[d].command.key)'
    BY <1>4, SavedIsMade DEF GoesOn
  <2> QED BY <2>1, <2>2 DEF WrittenIsThere, EvidenceOf
<1> QED BY <1>2, <1>3, <1>4, CallSteps DEF IInv

-----------------------------------------------------------------------------
(***************************************************************************)
(* The harness.                                                            *)
(***************************************************************************)
\* An answer the harness accepts bears out the step it is at, and a step that
\* must be rejected is the last.
LEMMA JudgedFollows ==
  ASSUME IInv, harness.status = "running", NEW decision,
         decision.kind = "accepted" =>
           Made(decision.after.revision, decision.id, CurrentStep.key)
  PROVE  /\ Judged(decision).scenario = harness.scenario
         /\ Judged(decision).status = "running" =>
              /\ Judged(decision).next \in DOMAIN harness.scenario.steps
              /\ MadeUntil(Judged(decision).next)
         /\ Judged(decision).status = "PASSED" =>
              \A i \in DOMAIN harness.scenario.steps :
                harness.scenario.steps[i].kind = "accepted" =>
                  Made(harness.scenario.steps[i].revision,
                       harness.scenario.steps[i].id,
                       harness.scenario.steps[i].key)
<1> DEFINE steps == harness.scenario.steps
           n == harness.next
           h == Judged(decision)
<1>1. /\ harness = [scenario |-> harness.scenario, next |-> n,
                    status |-> harness.status]
      /\ Len(steps) \in Nat /\ DOMAIN steps = 1 .. Len(steps)
      /\ \A i \in DOMAIN steps : steps[i].kind = "rejected" => i = Len(steps)
      /\ n \in 1 .. Len(steps)
      /\ MadeUntil(n)
  BY CampaignAssumption DEF IInv, TypeOK, HarnessFollows, WellFormedSteps
<1>2. CASE ~AsExpected(CurrentStep, decision)
  <2>1. h = [harness EXCEPT !.status = "FAILED"]
    BY <1>2 DEF Judged
  <2> QED BY <1>1, <2>1
<1>3. CASE AsExpected(CurrentStep, decision)
  <2>1. steps[n].kind = "accepted" =>
          Made(steps[n].revision, steps[n].id, steps[n].key)
    BY <1>3 DEF AsExpected, CurrentStep
  <2>2. MadeUntil(n + 1)
    BY <1>1, <2>1 DEF MadeUntil
  <2>3. CASE n # Len(steps) /\ steps[n].kind # "rejected"
    <3>1. h = [harness EXCEPT !.next = n + 1]
      BY <1>3, <2>3 DEF Judged, CurrentStep
    <3>2. h.scenario = harness.scenario /\ h.status = "running" /\ h.next = n + 1
      BY <1>1, <3>1
    <3>3. n + 1 \in DOMAIN steps
      BY <1>1, <2>3
    <3> QED BY <2>2, <3>2, <3>3
  <2>4. CASE n = Len(steps) \/ steps[n].kind = "rejected"
    <3>1. h.scenario = harness.scenario /\ h.status # "running"
      BY <1>1, <1>3, <2>4 DEF Judged, CurrentStep
    <3>2. n = Len(steps)
      BY <1>1, <2>4
    <3>3. \A i \in DOMAIN steps :
            steps[i].kind = "accepted" =>
              Made(steps[i].revision, steps[i].id, steps[i].key)
      BY <1>1, <2>2, <3>2 DEF MadeUntil
    <3> QED BY <3>1, <3>3
  <2> QED BY <2>3, <2>4
<1> QED BY <1>2, <1>3

\* The harness holds an answer against the step it sent.
Judges(decision) ==
  /\ calls[Harness].at # "idle"
  /\ calls'[Harness] = Idle
  /\ harness' = Judged(decision)
  /\ trail' = trail
  /\ decision.kind = "accepted" =>
       Made(decision.after.revision, decision.id, calls[Harness].command.key)

Fails ==
  /\ harness' = [harness EXCEPT !.status = "FAILED"]
  /\ calls'[Harness].at = "idle"

Proceeds ==
  /\ harness' = harness
  /\ \/ calls'[Harness] = calls[Harness]
     \/ /\ calls[Harness].at # "idle"
        /\ calls'[Harness].command = calls[Harness].command
     \/ /\ harness.status = "running"
        /\ calls'[Harness].command = CommandOf(CurrentStep)

\* What a step of anyone does to the harness.
LEMMA HarnessMoves ==
  ASSUME IInv, Next
  PROVE  \/ \E scenario \in Offered : Start(scenario)
         \/ Proceeds
         \/ Fails
         \/ \E decision : Judges(decision)
<1>0. /\ TypeOK /\ Harness \in Callers
      /\ calls = [d \in Callers |-> calls[d]]
      /\ calls[Harness] \in [at : {calls[Harness].at},
                             command : {calls[Harness].command},
                             loaded : {calls[Harness].loaded},
                             decision : {calls[Harness].decision}]
  BY CallFields DEF IInv, Callers
<1>1. CASE Look
  BY <1>0, <1>1 DEF Look, Proceeds, Fails
<1>2. CASE \E c \in Operators : Issue(c)
  BY <1>0, <1>2, CampaignAssumption DEF Issue, Proceeds
<1>3. ASSUME NEW c \in Callers, ServiceStep(c), c # Harness
      PROVE  Proceeds
  BY <1>0, <1>3 DEF ServiceStep, Load, ReadPrior, RecordEvidence, SaveRun,
     RecordCommand, PortFails, Raise, Answer, Proceeds
<1>4. ASSUME ServiceStep(Harness)
      PROVE  Proceeds \/ Fails \/ \E decision : Judges(decision)
  <2>0. calls[Harness].at # "idle"
    BY <1>4 DEF ServiceStep, Load, ReadPrior, RecordEvidence, SaveRun,
       RecordCommand, PortFails
  <2>1. CASE Raise(Harness)
    BY <1>0, <2>1 DEF Raise, Fails, Idle
  <2>2. CASE ReadPrior(Harness)
    <3> DEFINE decision == Decide(calls[Harness].loaded, calls[Harness].command,
                                  records[calls[Harness].command.key])
    <3>1. CASE Answer(Harness, decision) /\ decision.kind # "accepted"
      <4>1. Judges(decision)
        BY <1>0, <2>0, <2>2, <3>1 DEF ReadPrior, Answer, Judges
      <4> QED BY <4>1
    <3>2. CASE /\ calls' = [calls EXCEPT ![Harness].at = "accepted",
                                         ![Harness].decision = decision]
               /\ harness' = harness
      BY <1>0, <2>0, <3>2 DEF Proceeds
    <3> QED BY <2>2, <3>1, <3>2 DEF ReadPrior
  <2>3. CASE RecordCommand(Harness)
    <3>1. Made(calls[Harness].decision.after.revision,
               calls[Harness].decision.id, calls[Harness].command.key)
      BY <1>0, <2>3 DEF RecordCommand, IInv, WrittenIsThere
    <3>2. Judges(calls[Harness].decision)
      BY <1>0, <2>0, <2>3, <3>1 DEF RecordCommand, Answer, Judges
    <3> QED BY <3>2
  <2>4. CASE (Load(Harness) \/ RecordEvidence(Harness) \/ SaveRun(Harness)
                \/ PortFails(Harness)) /\ ~Raise(Harness)
    BY <1>0, <2>0, <2>4 DEF Load, RecordEvidence, SaveRun, PortFails, Proceeds
  <2> QED BY <1>4, <2>1, <2>2, <2>3, <2>4 DEF ServiceStep
<1> QED BY <1>1, <1>2, <1>3, <1>4 DEF Next

\* The steps that are made stay made while the scenario is the same.
LEMMA StepsStayMade ==
  ASSUME IInv, Next, harness'.scenario = harness.scenario, NEW n, MadeUntil(n)
  PROVE  MadeUntil(n)'
<1> SUFFICES ASSUME NEW i \in DOMAIN harness.scenario.steps,
                    i < n, harness.scenario.steps[i].kind = "accepted"
             PROVE  Made(harness.scenario.steps[i].revision,
                         harness.scenario.steps[i].id,
                         harness.scenario.steps[i].key)'
  BY DEF MadeUntil
<1> DEFINE step == harness.scenario.steps[i]
<1>1. Made(step.revision, step.id, step.key)
  BY DEF MadeUntil
<1> QED BY <1>1, MadeStays DEF Made

LEMMA HarnessStep ==
  ASSUME IInv, Next
  PROVE  HarnessFollows'
<1>0. TypeOK /\ HarnessFollows
  BY DEF IInv
<1>1. CASE \E scenario \in Offered : Start(scenario)
  <2>1. PICK scenario \in Offered : Start(scenario)
    BY <1>1
  <2>2. /\ harness'.scenario = scenario /\ harness'.next = 1
        /\ calls' = calls /\ calls[Harness].at = "idle"
    BY <1>0, <2>1 DEF Start, HarnessFollows
  <2>3. 1 \in DOMAIN scenario.steps
    BY CampaignAssumption DEF WellFormedSteps
  <2>4. \A i \in DOMAIN scenario.steps : ~(i < 1)
    BY CampaignAssumption DEF WellFormedSteps
  <2> QED BY <2>2, <2>3, <2>4 DEF HarnessFollows, MadeUntil
<1>2. CASE Proceeds
  <2>1. harness' = harness
    BY <1>2 DEF Proceeds
  <2>2. harness.status = "running" => MadeUntil(harness.next)'
    <3>1. SUFFICES ASSUME harness.status = "running"
                   PROVE  MadeUntil(harness.next)'
      OBVIOUS
    <3>2. MadeUntil(harness.next)
      BY <1>0, <3>1 DEF HarnessFollows
    <3> QED BY <2>1, <3>2, StepsStayMade DEF MadeUntil
  <2>3. calls'[Harness].at # "idle" =>
          /\ harness.status = "running"
          /\ calls'[Harness].command = CommandOf(CurrentStep)
    BY <1>0, <1>2 DEF Proceeds, HarnessFollows
  <2> QED BY <1>0, <2>1, <2>2, <2>3 DEF HarnessFollows, CurrentStep
<1>3. CASE Fails
  <2>1. harness'.status = "FAILED" /\ calls'[Harness].at = "idle"
    BY <1>0, <1>3 DEF Fails, TypeOK
  <2> QED BY <2>1 DEF HarnessFollows
<1>4. CASE \E decision : Judges(decision)
  <2>1. PICK decision : Judges(decision)
    BY <1>4
  <2>2. harness.status = "running" /\ calls[Harness].command.key = CurrentStep.key
    BY <1>0, <2>1 DEF Judges, HarnessFollows, CommandOf
  <2>3. /\ harness'.scenario = harness.scenario /\ trail' = trail
        /\ harness'.status = "running" =>
             harness'.next \in DOMAIN harness.scenario.steps /\ MadeUntil(harness'.next)
    BY <2>1, <2>2, JudgedFollows DEF Judges
  <2>4. calls'[Harness].at = "idle"
    BY <2>1 DEF Judges, Idle
  <2> QED BY <2>3, <2>4 DEF HarnessFollows, MadeUntil, Made
<1> QED BY <1>1, <1>2, <1>3, <1>4, HarnessMoves

LEMMA PassedStep ==
  ASSUME IInv, Next
  PROVE  PassedWasPerformed'
<1>0. TypeOK /\ HarnessFollows /\ PassedWasPerformed
  BY DEF IInv
<1>1. CASE \E scenario \in Offered : Start(scenario)
  BY <1>1 DEF Start, PassedWasPerformed
<1>2. CASE Proceeds
  <2>1. SUFFICES ASSUME harness.status = "PASSED",
                        NEW i \in DOMAIN harness.scenario.steps,
                        harness.scenario.steps[i].kind = "accepted"
                 PROVE  Made(harness.scenario.steps[i].revision,
                             harness.scenario.steps[i].id,
                             harness.scenario.steps[i].key)'
    BY <1>2 DEF Proceeds, PassedWasPerformed, Made
  <2>2. Made(harness.scenario.steps[i].revision, harness.scenario.steps[i].id,
             harness.scenario.steps[i].key)
    BY <1>0, <2>1 DEF PassedWasPerformed, Made
  <2> QED BY <1>2, <2>2, MadeStays DEF Proceeds, Made
<1>3. CASE Fails
  BY <1>0, <1>3 DEF Fails, PassedWasPerformed, TypeOK
<1>4. CASE \E decision : Judges(decision)
  <2>1. PICK decision : Judges(decision)
    BY <1>4
  <2>2. harness.status = "running" /\ calls[Harness].command.key = CurrentStep.key
    BY <1>0, <2>1 DEF Judges, HarnessFollows, CommandOf
  <2>3. /\ harness'.scenario = harness.scenario /\ trail' = trail
        /\ harness'.status = "PASSED" =>
             \A i \in DOMAIN harness.scenario.steps :
               harness.scenario.steps[i].kind = "accepted" =>
                 Made(harness.scenario.steps[i].revision,
                      harness.scenario.steps[i].id,
                      harness.scenario.steps[i].key)
    BY <2>1, <2>2, JudgedFollows DEF Judges
  <2> QED BY <2>3 DEF PassedWasPerformed, Made
<1> QED BY <1>1, <1>2, <1>3, <1>4, HarnessMoves
-----------------------------------------------------------------------------
(***************************************************************************)
(* The evidence and the records.                                           *)
(***************************************************************************)
LEMMA EvidencedStep ==
  ASSUME IInv, Next
  PROVE  TrailIsEvidenced'
<1>0. TrailIsEvidenced /\ trail \in Seq([id : 1 .. 35, key : AllKeys])
        /\ evidence \subseteq evidence'
  BY NextRun DEF IInv, TypeOK
<1>1. CASE Quiet
  BY <1>0, <1>1 DEF Quiet, TrailIsEvidenced
<1>2. CASE \E c \in Callers : Saves(c)
  <2>1. PICK c \in Callers : Saves(c)
    BY <1>2
  <2> DEFINE entry == [id |-> calls[c].decision.id, key |-> calls[c].command.key]
             record == EvidenceOf(calls[c].command, calls[c].decision)
  <2>2. /\ entry \in [id : 1 .. 35, key : AllKeys]
        /\ calls[c].decision.after.revision = Len(trail) + 1
        /\ trail' = Append(trail, entry)
    BY <2>1, SaveFacts DEF Saves
  <2>3. record \in evidence
    BY <2>1 DEF Saves, IInv, WrittenIsThere
  <2>4. record.id = entry.id /\ record.key = entry.key /\ record.revision = Len(trail) + 1
    BY <2>2 DEF EvidenceOf
  <2> HIDE DEF entry, record
  <2>5. ASSUME NEW i \in DOMAIN trail'
        PROVE  \E r \in evidence' :
                 r.id = trail'[i].id /\ r.key = trail'[i].key /\ r.revision = i
    <3>1. CASE i = Len(trail) + 1
      <4>1. trail'[i] = entry
        BY <1>0, <2>2, <3>1
      <4> QED BY <1>0, <2>3, <2>4, <3>1, <4>1
    <3>2. CASE i # Len(trail) + 1
      <4>1. i \in DOMAIN trail /\ trail'[i] = trail[i]
        BY <1>0, <2>2, <2>5, <3>2
      <4> QED BY <1>0, <4>1 DEF TrailIsEvidenced
    <3> QED BY <3>1, <3>2
  <2> QED BY <2>5 DEF TrailIsEvidenced
<1> QED BY <1>1, <1>2, NextRun

LEMMA ReplayedStep ==
  ASSUME IInv, Next
  PROVE  ReplayedWasMade'
<1> SUFFICES ASSUME NEW key \in AllKeys, records'[key].id # 0
             PROVE  Made(records[key].next, records[key].id, key)'
  BY DEF ReplayedWasMade
<1>1. CASE records'[key] = records[key]
  <2>1. Made(records[key].next, records[key].id, key)
    BY <1>1 DEF IInv, ReplayedWasMade
  <2> QED BY <1>1, <2>1, MadeStays DEF Made
<1>2. CASE records'[key] # records[key]
  <2>1. PICK c \in Callers : RecordCommand(c)
    BY <1>2, NextRun
  <2> DEFINE decision == calls[c].decision
  <2>2. records = [k \in AllKeys |-> records[k]]
    BY DEF IInv, TypeOK
  <2>3. /\ key = calls[c].command.key
        /\ records'[key].id = decision.id
        /\ records'[key].next = decision.after.revision
        /\ trail' = trail
    BY <1>2, <2>1, <2>2 DEF RecordCommand
  <2>4. Made(decision.after.revision, decision.id, calls[c].command.key)
    BY <2>1 DEF RecordCommand, IInv, WrittenIsThere
  <2> QED BY <2>3, <2>4 DEF Made
<1> QED BY <1>1, <1>2
-----------------------------------------------------------------------------
LEMMA InitHolds == Init => IInv
<1> SUFFICES ASSUME Init PROVE IInv
  OBVIOUS
<1>1. TypeOK /\ Harness \in Callers
  BY TypeInit DEF Callers
<1>2. /\ StoredAgrees
      /\ \A c \in Callers : LoadedIsOfTheRun(calls[c])
      /\ \A c \in Callers : DecidedByARow(calls[c])
      /\ \A c \in Callers : WrittenIsThere(calls[c])
  BY DEF Init, StoredAgrees, Idle, LoadedIsOfTheRun, DecidedByARow, WrittenIsThere
<1>3. HarnessFollows /\ PassedWasPerformed
  BY <1>1 DEF Init, Idle, Waiting, HarnessFollows, PassedWasPerformed
<1>4. TrailIsEvidenced /\ ReplayedWasMade
  BY DEF Init, TrailIsEvidenced, ReplayedWasMade, NoRecord
<1> QED BY <1>1, <1>2, <1>3, <1>4 DEF IInv

LEMMA StepHolds == IInv /\ [Next]_vars => IInv'
<1>1. ASSUME IInv, Next PROVE IInv'
  BY <1>1, TypeStep, StoredStep, LoadedStep, DecidedStep, WrittenStep,
     HarnessStep, EvidencedStep, ReplayedStep, PassedStep DEF IInv, Callers
<1>2. ASSUME IInv, UNCHANGED vars PROVE IInv'
  BY <1>2 DEF vars, IInv, TypeOK, StoredAgrees, LoadedIsOfTheRun, Current,
     DecidedByARow, WrittenIsThere, Made, HarnessFollows, MadeUntil, CurrentStep,
     TrailIsEvidenced, ReplayedWasMade, PassedWasPerformed
<1> QED BY <1>1, <1>2

\* Whatever the callers do and whichever ports fail, the strengthening of the
\* properties below holds of the run, its evidence, its records and its calls.
THEOREM Invariance == Spec => []IInv
BY InitHolds, StepHolds, PTL DEF Spec

\* Every variable keeps its type, and the run's revision counts the
\* transitions that were saved.
THEOREM TypeCorrect == Spec => []TypeOK
<1>1. IInv => TypeOK
  BY DEF IInv
<1> QED BY <1>1, Invariance, PTL

\* Every transition the run made was evidenced before it was made, by the
\* command that made it, for any callers and failures of the ports.
THEOREM EvidencedTrail == Spec => []TrailIsEvidenced
<1>1. IInv => TrailIsEvidenced
  BY DEF IInv
<1> QED BY <1>1, Invariance, PTL

\* A key that is answered as a repetition names a transition the run made, at
\* its revision and by that key, for any callers and failures of the ports.
THEOREM ReplaysAreTrue == Spec => []ReplayedWasMade
<1>1. IInv => ReplayedWasMade
  BY DEF IInv
<1> QED BY <1>1, Invariance, PTL

\* A scenario passes only if the run made each of its accepted steps, for any
\* scenarios whose rejected steps come last.
THEOREM PassIsEarned == Spec => []PassedWasPerformed
<1>1. IInv => PassedWasPerformed
  BY DEF IInv
<1> QED BY <1>1, Invariance, PTL

\* The run is a machine of its own: whatever a call loaded, whoever else
\* decided and whatever failed, it moves by a row of the table from the state
\* the repository holds, or not at all.
THEOREM RunAdvancesByRows == Spec => AdvancesByRows
<1>1. ASSUME IInv, [Next]_vars PROVE [MovesByARow]_stored
  <2>1. CASE UNCHANGED vars \/ Quiet
    BY <2>1 DEF vars, Quiet
  <2>2. CASE Next /\ \E c \in Callers : Saves(c)
    <3>1. PICK c \in Callers : Saves(c)
      BY <2>2
    <3>2. PICK row \in Rows :
            /\ Current.state \in row.sources
            /\ stored' = After(row, Current, calls[c].command)
      BY <1>1, <3>1, SaveFacts
    <3>3. CommandOK(calls[c].command)
      BY <1>1, <3>1, CallFields DEF Saves, IInv
    <3> DEFINE recovered == calls[c].command.recovered
    <3>4. recovered \in Recoverable \cup {"same"}
      BY <3>3 DEF CommandOK
    <3>5. stored' = After(row, Current, [recovered |-> recovered])
      BY <3>2 DEF After, Destination
    <3> QED BY <3>2, <3>4, <3>5 DEF MovesByARow
  <2> QED BY <1>1, <2>1, <2>2, NextRun
<1> QED BY <1>1, Invariance, PTL DEF Spec, AdvancesByRows
-----------------------------------------------------------------------------
(***************************************************************************)
(* The order is sent once.                                                 *)
(***************************************************************************)
\* One row sends, and no row but the restart leads back to before it.
LEMMA RowsLeadOn ==
  \A row \in Rows :
    /\ "SEND" \in row.effects =>
         /\ row.sources = {"SUBMISSION_PENDING"} /\ row.destination = "SUBMITTED"
         /\ row # RestartRow
    /\ row # RestartRow /\ row.destination \in Unsent => row.sources \subseteq Unsent
<1> DEFINE P(row) ==
      /\ "SEND" \in row.effects =>
           /\ row.sources = {"SUBMISSION_PENDING"} /\ row.destination = "SUBMITTED"
           /\ row # RestartRow
      /\ row # RestartRow /\ row.destination \in Unsent => row.sources \subseteq Unsent
<1>1. \A row \in PrecheckRows : P(row)
  BY DEF PrecheckRows, Step, Row, Unsent
<1>2. \A row \in ApprovalRows : P(row)
  <2>1. \A row \in ApprovalRows : row # RestartRow
    BY DEF ApprovalRows, Step, Row, RestartRow
  <2> QED BY <2>1 DEF ApprovalRows, Step, Row, Unsent
<1>3. \A row \in BrokerRows : P(row)
  BY DEF BrokerRows, Step, Row, Unsent
<1>4. \A row \in BrokerEndRows : P(row)
  BY DEF BrokerEndRows, Step, Row, Unsent
<1>5. \A row \in ReconciliationRows : P(row)
  BY DEF ReconciliationRows, Step, Row, Unsent
<1>6. \A row \in ClosingRows : P(row)
  BY DEF ClosingRows, Met, Row, Unsent
<1>7. P(RestartRow)
  BY DEF RestartRow, Row
<1> QED BY <1>1, <1>2, <1>3, <1>4, <1>5, <1>6, <1>7 DEF Rows

\* A transition is made from a state before sending if it sends, and leads to
\* one past sending if it sends or starts from one.
LEMMA SaveLeadsOn ==
  ASSUME RecoversForward, IInv, NEW c \in Callers, Saves(c)
  PROVE  /\ "SEND" \in calls[c].decision.effects =>
              Current.state \in Unsent /\ Current'.state \notin Unsent
         /\ Current.state \notin Unsent => Current'.state \notin Unsent
<1> DEFINE command == calls[c].command
<1>1. /\ calls[c].at = "evidenced" /\ stored' = calls[c].decision.after
      /\ calls[c].loaded = Current /\ calls[c].decision.after.state \in States
  BY OnlyTheCurrentSaves DEF Saves, IInv
<1>2. PICK row \in Rows : /\ Current.state \in row.sources
                          /\ stored' = After(row, Current, command)
                          /\ calls[c].decision.effects = row.effects
  BY <1>1 DEF IInv, DecidedByARow
<1>3. Current' = stored'
  BY <1>1 DEF Current, Absent, States
<1>4. Current'.state = Destination(row, Current, command)
  BY <1>2, <1>3 DEF After
<1>5. CommandOK(command)
  BY <1>1, CallFields DEF IInv
<1>6. CASE row = RestartRow
  <2>1. "SEND" \notin row.effects
    BY <1>6, RowsLeadOn
  <2>2. Current'.state = Current.state \/ Current'.state \in Recoverable
    BY <1>4, <1>5, <1>6 DEF Destination, CommandOK
  <2> QED BY <1>2, <2>1, <2>2 DEF RecoversForward
<1>7. CASE row # RestartRow
  <2>1. Current'.state = row.destination
    BY <1>4, <1>7 DEF Destination
  <2>2. /\ "SEND" \in row.effects =>
             row.sources = {"SUBMISSION_PENDING"} /\ row.destination = "SUBMITTED"
        /\ row.destination \in Unsent => row.sources \subseteq Unsent
    BY <1>7, RowsLeadOn
  <2> QED BY <1>2, <2>1, <2>2 DEF Unsent
<1> QED BY <1>6, <1>7

\* What a step does to the proposals to send.
LEMMA ProposalSteps ==
  ASSUME proposals["SEND"] \in Nat, Next
  PROVE  \/ proposals'["SEND"] = proposals["SEND"]
         \/ \E c \in Callers :
              /\ RecordCommand(c) /\ "SEND" \in calls[c].decision.effects
              /\ proposals'["SEND"] = proposals["SEND"] + 1
<1> DEFINE Same == proposals'["SEND"] = proposals["SEND"]
<1>1. ASSUME NEW c, NEW decision, Answer(c, decision)
      PROVE  proposals'["SEND"] = proposals["SEND"]
                                    + (IF "SEND" \in decision.effects THEN 1 ELSE 0)
  BY <1>1 DEF Answer, BrokerActions
<1>2. ASSUME NEW c \in Callers, RecordCommand(c)
      PROVE  Same \/ ("SEND" \in calls[c].decision.effects
                        /\ proposals'["SEND"] = proposals["SEND"] + 1)
  <2>1. Answer(c, calls[c].decision)
    BY <1>2 DEF RecordCommand
  <2> QED BY <1>1, <2>1
<1>3. ASSUME NEW c \in Callers, ReadPrior(c) PROVE Same
  <2> DEFINE decision == Decide(calls[c].loaded, calls[c].command,
                                records[calls[c].command.key])
  <2>1. CASE decision.kind # "accepted" /\ Answer(c, decision)
    <3>1. decision.effects = {}
      BY <2>1, DecisionFacts
    <3> QED BY <1>1, <2>1, <3>1
  <2>2. CASE UNCHANGED proposals
    BY <2>2
  <2> QED BY <1>3, <2>1, <2>2 DEF ReadPrior
<1>4. ASSUME NEW c \in Callers,
             Load(c) \/ RecordEvidence(c) \/ SaveRun(c) \/ PortFails(c)
      PROVE  Same
  BY <1>4 DEF Load, RecordEvidence, SaveRun, PortFails, Raise
<1>5. CASE Look \/ (\E scenario \in Offered : Start(scenario)) \/ \E c \in Operators : Issue(c)
  BY <1>5 DEF Look, Start, Issue
<1> QED BY <1>2, <1>3, <1>4, <1>5 DEF Next, ServiceStep

\* A call that answers or saves is the only one that moves.
LEMMA OneMoves ==
  ASSUME TypeOK, NEW c \in Callers, NEW d \in Callers, Saves(d)
  PROVE  ~RecordCommand(c) /\ (Saves(c) => c = d)
<1>1. /\ calls = [b \in Callers |-> calls[b]] /\ calls[d].at = "evidenced"
      /\ calls' = [calls EXCEPT ![d].at = "saved"]
  BY DEF Saves, TypeOK
<1>2. \A b \in Callers \ {d} : calls'[b] = calls[b]
  BY <1>1
<1>3. ~RecordCommand(c)
  <2> SUFFICES ASSUME RecordCommand(c) PROVE FALSE
    OBVIOUS
  <2>1. calls[c].at = "saved" /\ calls' = [calls EXCEPT ![c] = Idle]
    BY DEF RecordCommand, Answer
  <2>2. calls'[c] = Idle /\ c # d
    BY <1>1, <2>1
  <2> QED BY <1>2, <2>1, <2>2 DEF Idle
<1>4. ASSUME Saves(c), c # d PROVE FALSE
  <2>1. calls[c] \in [at : {calls[c].at}, command : {calls[c].command},
                      loaded : {calls[c].loaded}, decision : {calls[c].decision}]
    BY CallFields
  <2>2. calls[c].at = "evidenced" /\ calls'[c].at = "saved"
    BY <1>1, <1>4, <2>1 DEF Saves
  <2> QED BY <1>2, <1>4, <2>2
<1> QED BY <1>3, <1>4

\* A call comes to have sent by saving a transition that sends.
LEMMA SendingSteps ==
  ASSUME TypeOK, Next, NEW d \in Sending'
  PROVE  \/ d \in Sending
         \/ Saves(d) /\ "SEND" \in calls[d].decision.effects
<1>1. d \in Callers /\ calls'[d].at = "saved" /\ "SEND" \in calls'[d].decision.effects
  BY DEF Sending
<1>2. CASE calls'[d] = calls[d]
  BY <1>1, <1>2 DEF Sending
<1>3. CASE GoesOn(d, calls'[d])
  BY <1>1, <1>3 DEF GoesOn
<1> QED BY <1>1, <1>2, <1>3, CallSteps DEF Loads, Accepts

LEMMA SendsOnceStep ==
  ASSUME RecoversForward, IInv, SendsOnce, Next
  PROVE  SendsOnce'
<1>0. TypeOK /\ proposals["SEND"] \in {0, 1}
  BY DEF IInv, SendsOnce
<1>1. CASE \E c \in Callers : Saves(c)
  <2>1. PICK c \in Callers : Saves(c)
    BY <1>1
  <2>2. proposals'["SEND"] = proposals["SEND"]
    BY <1>0, <2>1, OneMoves, ProposalSteps
  <2>3. \A d \in Sending' : d \in Sending \/ (d = c /\ "SEND" \in calls[c].decision.effects)
    <3> SUFFICES ASSUME NEW d \in Sending', d \notin Sending
                 PROVE  d = c /\ "SEND" \in calls[c].decision.effects
      OBVIOUS
    <3>1. d \in Callers /\ Saves(d) /\ "SEND" \in calls[d].decision.effects
      BY <1>0, SendingSteps DEF Sending
    <3> QED BY <1>0, <2>1, <3>1, OneMoves
  <2>4. CASE "SEND" \in calls[c].decision.effects
    <3>1. Current.state \in Unsent /\ Current'.state \notin Unsent
      BY <2>1, <2>4, SaveLeadsOn
    <3>2. Sending = {} /\ proposals["SEND"] = 0
      BY <1>0, <3>1 DEF SendsOnce
    <3> QED BY <2>2, <2>3, <3>1, <3>2 DEF SendsOnce
  <2>5. CASE "SEND" \notin calls[c].decision.effects
    <3>1. Sending' \subseteq Sending
      BY <2>3, <2>5
    <3>2. Current.state \notin Unsent => Current'.state \notin Unsent
      BY <2>1, SaveLeadsOn
    <3> QED BY <2>2, <3>1, <3>2 DEF SendsOnce
  <2> QED BY <2>4, <2>5
<1>2. CASE ~ \E c \in Callers : Saves(c)
  <2>1. Sending' \subseteq Sending
    BY <1>0, <1>2, SendingSteps DEF Sending
  <2>2. Current' = Current
    BY <1>2, NextRun DEF Quiet, Current
  <2>3. CASE proposals'["SEND"] = proposals["SEND"]
    BY <2>1, <2>2, <2>3 DEF SendsOnce
  <2>4. ASSUME NEW c \in Callers, RecordCommand(c), "SEND" \in calls[c].decision.effects,
               proposals'["SEND"] = proposals["SEND"] + 1
        PROVE  SendsOnce'
    <3>1. c \in Sending /\ calls' = [calls EXCEPT ![c] = Idle]
      BY <2>4 DEF RecordCommand, Answer, Sending
    <3>2. c \notin Sending'
      BY <1>0, <3>1 DEF Sending, Idle, TypeOK
    <3>3. Sending' = {} /\ proposals["SEND"] = 0
      BY <1>0, <2>1, <3>1, <3>2 DEF SendsOnce
    <3> QED BY <2>2, <2>4, <3>1, <3>3 DEF SendsOnce
  <2> QED BY <1>0, <2>3, <2>4, ProposalSteps
<1> QED BY <1>1, <1>2

\* If no restart claims a state from before sending, the order is sent once:
\* whatever the callers repeat, race and recover, and whichever ports fail.
THEOREM SendIsProposedOnce == RecoversForward => (Spec => []SentOnce)
<1> SUFFICES ASSUME RecoversForward PROVE Spec => []SentOnce
  OBVIOUS
<1>1. Init => SendsOnce
  BY DEF Init, SendsOnce, Sending, Idle, BrokerActions
<1>2. IInv /\ SendsOnce /\ [Next]_vars => SendsOnce'
  <2>1. ASSUME SendsOnce, UNCHANGED vars PROVE SendsOnce'
    BY <2>1 DEF vars, SendsOnce, Sending, Current
  <2> QED BY <2>1, SendsOnceStep
<1>3. SendsOnce => SentOnce
  BY DEF SendsOnce, SentOnce
<1> QED BY <1>1, <1>2, <1>3, Invariance, PTL DEF Spec
=============================================================================
