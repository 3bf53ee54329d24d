----------------------- MODULE PaperSubmissionProofs -----------------------
(***************************************************************************)
(* Proofs about PaperSubmission, for every set of workers, commands,       *)
(* submissions, references and requests and every bound.                   *)
(***************************************************************************)
EXTENDS PaperSubmission, TLAPS

USE DEF ControlFlags

(***************************************************************************)
(* Type correctness.                                                       *)
(***************************************************************************)
LEMMA RequestType ==
  ASSUME MemoryTypeOK, NEW w \in Workers, pc[w] # "idle"
  PROVE  /\ request[w] \in Requests
         /\ request[w].command \in Commands
         /\ request[w].key \in Commands
         /\ request[w].submission \in Submissions
BY RequestsAssumption, NoneAssumption DEF MemoryTypeOK

LEMMA ReplyType ==
  ASSUME MemoryTypeOK, NEW w \in Workers, pc[w] # "idle",
         NEW status, NEW token \in BOOLEAN, NEW ref \in References \cup {None},
         status \in {"BLOCKED", "IDENTITY_CONFLICT", "EXACT_REPLAY",
                     "ACKNOWLEDGED", "BROKER_REJECTED",
                     "PRE_DISPATCH_FAILURE", "OUTCOME_UNKNOWN"},
         Reply(w, status, token, ref)
  PROVE  MemoryTypeOK'
<1> DEFINE a == [status |-> status, command |-> request[w].command,
                 token |-> token, reference |-> ref]
<1>1. a \in Answer
  BY RequestType DEF Answer
<1>2. /\ pc' \in [Workers -> Steps]
      /\ request' \in [Workers -> Requests \cup {None}]
      /\ now' \in [Workers -> Nat]
      /\ outcome' \in [Workers -> Resolution \cup {None}]
  BY DEF Reply, MemoryTypeOK, Steps
<1>3. answer' \in [Workers -> Answer \cup {None}]
  BY <1>1 DEF Reply, MemoryTypeOK
<1>4. /\ \A v \in Workers : request'[v] = None <=> pc'[v] = "idle"
      /\ \A v \in Workers :
           outcome'[v] # None <=> pc'[v] \in {"record", "conflict"}
  BY DEF Reply, MemoryTypeOK, Steps
<1> QED BY <1>2, <1>3, <1>4 DEF MemoryTypeOK

LEMMA ConcludeType ==
  ASSUME MemoryTypeOK, NEW w \in Workers, pc[w] # "idle",
         NEW status, NEW ref \in References \cup {None},
         status \in {"PRE_EFFECT_BLOCKED", "ACKNOWLEDGED", "BROKER_REJECTED",
                     "OUTCOME_UNKNOWN"},
         Conclude(w, status, ref)
  PROVE  MemoryTypeOK'
<1>1. [status |-> status, reference |-> ref, owner |-> None] \in Resolution
  BY DEF Resolution
<1> QED BY <1>1, NoneAssumption DEF Conclude, MemoryTypeOK, Steps

LEMMA InitType == Init => TypeOK
BY NoneAssumption, ApprovalAssumption
   DEF Init, TypeOK, DurableTypeOK, EnvironmentTypeOK, MemoryTypeOK,
       AggregateStates, BrokerStates, Steps

LEMMA OutcomeEdgesType ==
  ASSUME NEW status
  PROVE  /\ Len(OutcomeEdges(status)) \in Nat
         /\ OutcomeEdges(status)[Len(OutcomeEdges(status))].destination
              \in AggregateStates
         /\ DOMAIN OutcomeEdges(status) \subseteq Nat
BY DEF OutcomeEdges, Edge, Dispatched, AggregateStates

LEMMA IntakeChainType ==
  /\ Len(IntakeChain) \in Nat
  /\ DOMAIN IntakeChain \subseteq Nat
BY DEF IntakeChain, Edge

LEMMA ChainRowsType ==
  ASSUME NEW c \in Commands, NEW first \in Nat, NEW edges,
         DOMAIN edges \subseteq Nat
  PROVE  \A row \in ChainRows(c, first, edges) :
           row.command \in Commands /\ row.revision \in Nat
BY DEF ChainRows

LEMMA CommitOutcomeType ==
  ASSUME DurableTypeOK, NEW c \in Commands, NEW o \in Resolution,
         CommitOutcome(c, o),
         UNCHANGED <<control, claims, authorizations, permitted>>,
         brokerReferences' \in [References -> Commands \cup {None}]
  PROVE  DurableTypeOK'
<1> DEFINE edges == OutcomeEdges(o.status)
           snapshot == [state |-> edges[Len(edges)].destination,
                        revision |-> aggregates[c].revision + Len(edges),
                        reference |-> o.reference]
<1>1. aggregates[c].revision \in Nat
  BY DEF DurableTypeOK
<1>2. snapshot \in [state : AggregateStates, revision : Nat,
                    reference : References \cup {None}]
  BY <1>1, OutcomeEdgesType DEF Resolution
<1>3. aggregates' = [aggregates EXCEPT ![c] = snapshot]
  BY DEF CommitOutcome
<1>4. aggregates' \in [Commands -> [state : AggregateStates, revision : Nat,
                                    reference : References \cup {None}]]
  BY <1>2, <1>3 DEF DurableTypeOK
<1>5. \A row \in journal' : row.command \in Commands /\ row.revision \in Nat
  BY <1>1, OutcomeEdgesType, ChainRowsType DEF CommitOutcome, DurableTypeOK
<1>6. resolutions' \in [Commands -> Resolution \cup {None}]
  BY DEF CommitOutcome, DurableTypeOK
<1> QED BY <1>4, <1>5, <1>6 DEF DurableTypeOK

LEMMA RecordedAnswerType ==
  ASSUME MemoryTypeOK, NEW w \in Workers, pc[w] \in {"record", "conflict"},
         RecordedAnswer(w)
  PROVE  MemoryTypeOK'
<1>1. outcome[w] \in Resolution
  BY DEF MemoryTypeOK
<1> QED BY <1>1, ReplyType DEF RecordedAnswer, Resolution

LEMMA UnrecordedAnswerType ==
  ASSUME MemoryTypeOK, NEW w \in Workers, pc[w] \in {"record", "conflict"},
         UnrecordedAnswer(w)
  PROVE  MemoryTypeOK'
<1>1. outcome[w] \in Resolution
  BY DEF MemoryTypeOK
<1> QED BY <1>1, ReplyType DEF UnrecordedAnswer, Resolution

LEMMA NextType == TypeOK /\ [Next]_vars => TypeOK'
<1> SUFFICES ASSUME TypeOK, [Next]_vars PROVE TypeOK'
  OBVIOUS
<1> USE DEF TypeOK
<1>durable. UNCHANGED durable => DurableTypeOK'
  BY DEF durable, DurableTypeOK
<1>environment. UNCHANGED environment => EnvironmentTypeOK'
  BY DEF environment, EnvironmentTypeOK
<1>memory. UNCHANGED memory => MemoryTypeOK'
  BY DEF memory, MemoryTypeOK
<1>1. ASSUME NEW c \in Commands, Intake(c) PROVE TypeOK'
  <2>1. [state |-> "DISPATCH_PENDING", revision |-> Len(IntakeChain),
         reference |-> None]
          \in [state : AggregateStates, revision : Nat,
               reference : References \cup {None}]
    BY IntakeChainType DEF AggregateStates
  <2>2. \A row \in journal' : row.command \in Commands /\ row.revision \in Nat
    BY <1>1, IntakeChainType, ChainRowsType DEF Intake, DurableTypeOK
  <2> QED BY <1>1, <2>1, <2>2, <1>environment, <1>memory
          DEF Intake, DurableTypeOK
<1>2. ASSUME NEW c \in Commands, Broker(c) PROVE TypeOK'
  <2> PICK verdict \in {"ACCEPTED", "REJECTED"}, ref \in References :
             BrokerReceives(c, verdict, ref)
    BY <1>2 DEF Broker
  <2> QED BY <1>durable, <1>memory
          DEF BrokerReceives, EnvironmentTypeOK, BrokerStates
<1>3. ASSUME NEW setting \in ControlSettings, SaveControl(setting)
      PROVE  TypeOK'
  <2>1. setting \in ControlFlags /\ control.generation \in Nat
    BY ControlAssumption DEF DurableTypeOK
  <2>2. control' \in [enabled : BOOLEAN, emergencyStop : BOOLEAN,
                      legacyAuthority : BOOLEAN, generation : Nat]
    BY <1>3, <2>1 DEF SaveControl
  <2>3. permitted' \subseteq Nat
    <3>1. permitted' \subseteq permitted \cup {control.generation + 1}
      BY <1>3, Zenon DEF SaveControl
    <3> QED BY <2>1, <3>1 DEF DurableTypeOK
  <2> QED BY <1>3, <2>2, <2>3, <1>environment, <1>memory
          DEF SaveControl, DurableTypeOK
<1>4. CASE Tick
  BY <1>4, <1>durable, <1>memory DEF Tick, EnvironmentTypeOK
<1>5. ASSUME NEW w \in Workers, NEW r \in Requests, Start(w, r) PROVE TypeOK'
  <2>1. MemoryTypeOK'
    BY <1>5, NoneAssumption
       DEF Start, MemoryTypeOK, EnvironmentTypeOK, Steps
  <2> QED BY <1>5, <2>1, <1>durable, <1>environment DEF Start
<1>6. ASSUME NEW w \in Workers, Interrupt(w) PROVE TypeOK'
  <2>1. MemoryTypeOK'
    BY <1>6 DEF Interrupt, MemoryTypeOK, Steps
  <2> QED BY <1>6, <2>1, <1>durable, <1>environment DEF Interrupt
<1>7. ASSUME NEW w \in Workers, ApplyOnce(w) PROVE TypeOK'
  <2> DEFINE c == request[w].command
  <2>type. pc[w] # "idle" => c \in Commands
    BY RequestType
  <2>1. CASE AcquireExisting(w)
    <3>1. ASSUME pc' = [pc EXCEPT ![w] = "replay"],
                 UNCHANGED <<request, now, outcome, answer>>
          PROVE  MemoryTypeOK'
      BY <2>1, <3>1 DEF AcquireExisting, MemoryTypeOK, Steps
    <3>2. ASSUME Reply(w, "IDENTITY_CONFLICT", FALSE, None)
          PROVE  MemoryTypeOK'
      BY <2>1, <3>2, ReplyType DEF AcquireExisting
    <3> QED BY <2>1, <3>1, <3>2, <1>durable, <1>environment
            DEF AcquireExisting
  <2>2. CASE AcquireBlocked(w)
    BY <2>2, ReplyType, <1>durable, <1>environment DEF AcquireBlocked
  <2>3. CASE AcquireMismatch(w)
    BY <2>3, ReplyType, <1>durable, <1>environment DEF AcquireMismatch
  <2>4. CASE AcquireClaim(w)
    <3>1. [submission |-> request[w].submission,
           generation |-> control.generation,
           revision |-> aggregates[c].revision] \in Claim
      BY <2>4, RequestType DEF AcquireClaim, Claim, DurableTypeOK
    <3>2. DurableTypeOK'
      BY <2>4, <3>1 DEF AcquireClaim, DurableTypeOK
    <3>3. MemoryTypeOK'
      BY <2>4 DEF AcquireClaim, MemoryTypeOK, Steps
    <3> QED BY <2>4, <3>2, <3>3, <1>environment DEF AcquireClaim
  <2>5. CASE Authorize(w)
    <3>1. DurableTypeOK'
      BY <2>5 DEF Authorize, DurableTypeOK
    <3>2. MemoryTypeOK'
      BY <2>5 DEF Authorize, MemoryTypeOK, Steps
    <3> QED BY <2>5, <3>1, <3>2, <1>environment DEF Authorize
  <2>6. CASE AuthorizeRefused(w)
    BY <2>6, ReplyType, <1>durable, <1>environment DEF AuthorizeRefused
  <2>7. CASE RejectOrder(w)
    BY <2>7, ConcludeType, <1>durable, <1>environment DEF RejectOrder
  <2>8. CASE Dispatch(w)
    <3>1. MemoryTypeOK'
      BY <2>8 DEF Dispatch, MemoryTypeOK, Steps
    <3>2. EnvironmentTypeOK'
      BY <2>8 DEF Dispatch, EnvironmentTypeOK, BrokerStates
    <3> QED BY <2>8, <3>1, <3>2, <1>durable DEF Dispatch
  <2>9. CASE ReturnObservation(w)
    <3>1. broker[c].reference \in References \cup {None}
      BY <2>9, <2>type DEF ReturnObservation, EnvironmentTypeOK
    <3> QED BY <2>9, <3>1, ConcludeType, <1>durable, <1>environment
            DEF ReturnObservation
  <2>10. CASE ReturnUnknown(w)
    BY <2>10, ConcludeType, <1>durable, <1>environment DEF ReturnUnknown
  <2>11. CASE ReturnPreDispatch(w)
    <3>1. EnvironmentTypeOK'
      BY <2>11 DEF ReturnPreDispatch, EnvironmentTypeOK, BrokerStates
    <3> QED BY <2>11, <3>1, ConcludeType, <1>durable DEF ReturnPreDispatch
  <2>12. CASE Record(w)
    <3>1. c \in Commands /\ outcome[w] \in Resolution
      BY <2>12, <2>type DEF Record, MemoryTypeOK
    <3>2. brokerReferences' \in [References -> Commands \cup {None}]
      BY <2>12, <3>1 DEF Record, DurableTypeOK
    <3>3. DurableTypeOK'
      BY <2>12, <3>1, <3>2, CommitOutcomeType DEF Record
    <3> QED BY <2>12, <3>3, RecordedAnswerType, <1>environment DEF Record
  <2>13. CASE FindConflict(w)
    <3>1. outcome[w] \in Resolution /\ c \in Commands
      BY <2>13, <2>type DEF FindConflict, MemoryTypeOK
    <3>2. outcome[w].reference \in References
      BY <2>13, <3>1 DEF FindConflict, ReferenceFree, Resolution
    <3>3. ReportedOwner(c, outcome[w].reference) \in Commands
      BY <3>1, <3>2 DEF ReportedOwner, DurableTypeOK
    <3>4. [status |-> "BROKER_REFERENCE_CONFLICT",
           reference |-> outcome[w].reference,
           owner |-> ReportedOwner(c, outcome[w].reference)] \in Resolution
      BY <3>2, <3>3 DEF Resolution
    <3>5. MemoryTypeOK'
      BY <2>13, <3>4, NoneAssumption DEF FindConflict, MemoryTypeOK, Steps
    <3> QED BY <2>13, <3>5, <1>durable, <1>environment DEF FindConflict
  <2>14. CASE RecordConflict(w)
    <3>1. c \in Commands /\ outcome[w] \in Resolution
      BY <2>14, <2>type DEF RecordConflict, MemoryTypeOK
    <3>2. DurableTypeOK'
      BY <2>14, <3>1, CommitOutcomeType DEF RecordConflict, DurableTypeOK
    <3> QED BY <2>14, <3>2, RecordedAnswerType, <1>environment
            DEF RecordConflict
  <2>15. CASE RecordRefused(w)
    BY <2>15, UnrecordedAnswerType, <1>durable, <1>environment
       DEF RecordRefused
  <2>16. CASE RecordFails(w)
    <3>1. c \in Commands
      BY <2>16, <2>type DEF RecordFails
    <3>2. EnvironmentTypeOK'
      BY <2>16, <3>1 DEF RecordFails, EnvironmentTypeOK
    <3> QED BY <2>16, <3>2, UnrecordedAnswerType, <1>durable DEF RecordFails
  <2>17. CASE Replay(w)
    <3>1. resolutions[c] \in Resolution \cup {None} /\ pc[w] # "idle"
      BY <2>17, <2>type DEF Replay, DurableTypeOK
    <3>2. resolutions[c] # None =>
            resolutions[c].reference \in References \cup {None}
      BY <3>1 DEF Resolution
    <3>3. MemoryTypeOK'
      BY <2>17, <3>1, <3>2, ReplyType DEF Replay
    <3> QED BY <2>17, <3>3, <1>durable, <1>environment DEF Replay
  <2> QED BY <1>7, <2>1, <2>2, <2>3, <2>4, <2>5, <2>6, <2>7, <2>8, <2>9,
             <2>10, <2>11, <2>12, <2>13, <2>14, <2>15, <2>16, <2>17
          DEF ApplyOnce
<1>8. CASE UNCHANGED vars
  BY <1>8, <1>durable, <1>environment, <1>memory DEF vars
<1> QED BY <1>1, <1>2, <1>3, <1>4, <1>5, <1>6, <1>7, <1>8 DEF Next

\* Every reachable state is well typed, and a worker holds a request exactly
\* while one of its calls runs (TypeOK).
THEOREM TypeCorrect == Spec => []TypeOK
BY InitType, NextType, PTL DEF Spec

(***************************************************************************)
(* The inductive invariant.                                                *)
(***************************************************************************)
Safe == Elected /\ OwnerPhase /\ Ledger /\ VerdictIsTruthful

LEMMA InitSafe == Init => Safe
BY NoneAssumption
   DEF Init, Safe, Elected, OwnerPhase, Ledger, VerdictIsTruthful, Owning,
       Permits

\* A call that ends, or a worker that dies, leaves the invariant alone as
\* long as the tables and the broker stay as they are.
LEMMA WorkerLeaves ==
  ASSUME TypeOK, Safe, NEW w \in Workers,
         pc' = [pc EXCEPT ![w] = "idle"],
         request' = [request EXCEPT ![w] = None],
         outcome' = [outcome EXCEPT ![w] = None],
         UNCHANGED durable, UNCHANGED <<broker, effects>>
  PROVE  Safe'
<1> USE DEF TypeOK, MemoryTypeOK, durable
<1>1. \A v \in Workers :
        pc'[v] # "idle" => /\ v # w
                           /\ pc'[v] = pc[v]
                           /\ request'[v] = request[v]
                           /\ outcome'[v] = outcome[v]
  OBVIOUS
<1>2. Elected'
  BY <1>1 DEF Safe, Elected, Owning
<1>3. OwnerPhase'
  BY <1>1 DEF Safe, OwnerPhase, Owning, Truthful
<1>4. Ledger' /\ VerdictIsTruthful'
  BY DEF Safe, Ledger, Permits, VerdictIsTruthful, Truthful
<1> QED BY <1>2, <1>3, <1>4 DEF Safe

\* A worker that was no owner and becomes none leaves it alone too.
LEMMA BystanderMoves ==
  ASSUME TypeOK, Safe, NEW w \in Workers,
         pc[w] \notin Owning, pc'[w] \notin Owning,
         \A v \in Workers \ {w} :
           pc'[v] = pc[v] /\ request'[v] = request[v] /\ outcome'[v] = outcome[v],
         UNCHANGED durable, UNCHANGED environment
  PROVE  Safe'
<1> USE DEF durable, environment
<1>1. \A v \in Workers :
        pc'[v] \in Owning => /\ v # w
                             /\ pc'[v] = pc[v]
                             /\ request'[v] = request[v]
                             /\ outcome'[v] = outcome[v]
  OBVIOUS
<1>2. Elected'
  BY <1>1 DEF Safe, Elected
<1>3. OwnerPhase'
  BY <1>1 DEF Safe, OwnerPhase, Owning, Truthful
<1>4. Ledger' /\ VerdictIsTruthful'
  BY DEF Safe, Ledger, Permits, VerdictIsTruthful, Truthful
<1> QED BY <1>2, <1>3, <1>4 DEF Safe

\* An owner that concludes on a truthful outcome, the broker moving no
\* further than that.
LEMMA OwnerConcludes ==
  ASSUME TypeOK, Safe, NEW w \in Workers, NEW status, NEW ref,
         NEW c \in Commands, c = request[w].command,
         NEW o, o = [status |-> status, reference |-> ref, owner |-> None],
         pc[w] \in {"dispatch", "await"},
         Conclude(w, status, ref),
         UNCHANGED durable, UNCHANGED <<clock, effects>>,
         Truthful(c, o)',
         \A d \in Commands : broker'[d] # broker[d] =>
           /\ d = c
           /\ broker[c].state \notin {"UNSENT", "ACCEPTED", "REJECTED"}
           /\ broker'[c].state = "WITHDRAWN"
  PROVE  Safe'
<1> USE DEF TypeOK, durable
<1>1. /\ \A v \in Workers : request'[v] = request[v]
      /\ \A v \in Workers \ {w} : pc'[v] = pc[v] /\ outcome'[v] = outcome[v]
      /\ pc'[w] = "record"
      /\ outcome'[w] = o
  BY DEF Conclude, MemoryTypeOK
<1>2. Elected'
  BY <1>1 DEF Safe, Elected, Owning
<1>3. ASSUME NEW v \in Workers, v # w, pc[v] \in Owning
      PROVE  request[v].command # c
  BY <1>3 DEF Safe, Elected, Owning
<1>4. ASSUME NEW v \in Workers, v # w, pc[v] \in Owning
      PROVE  broker'[request[v].command] = broker[request[v].command]
  <2>1. pc[v] # "idle"
    BY <1>4 DEF Owning
  <2> QED BY <1>3, <1>4, <2>1, RequestType
<1>5. OwnerPhase'
  <2> DEFINE Phase(v) ==
        LET d == request[v].command IN
        /\ pc[v] = "authorize" => authorizations[d] = None
        /\ pc[v] \in Owning \ {"authorize"} => authorizations[d] # None
        /\ pc[v] = "dispatch" => broker[d].state = "UNSENT"
        /\ pc[v] = "await" =>
             broker[d].state \in {"IN_FLIGHT", "ACCEPTED", "REJECTED"}
        /\ pc[v] \in {"record", "conflict"} => Truthful(d, outcome[v])
  <2>1. Phase(w)'
    BY <1>1 DEF Safe, OwnerPhase, Owning
  <2>2. ASSUME NEW v \in Workers, v # w, pc[v] \in Owning
        PROVE  Phase(v)'
    BY <1>1, <1>4, <2>2 DEF Safe, OwnerPhase, Owning, Truthful
  <2>3. ASSUME NEW v \in Workers, v # w, pc[v] \notin Owning
        PROVE  Phase(v)'
    BY <1>1, <2>3 DEF Owning
  <2> QED BY <2>1, <2>2, <2>3 DEF OwnerPhase
<1>6. Ledger'
  BY DEF Safe, Ledger, Permits
<1>7. resolutions[c] = None
  BY DEF Safe, Elected, Owning
<1>8. VerdictIsTruthful'
  BY <1>7 DEF Safe, VerdictIsTruthful, Truthful
<1> QED BY <1>2, <1>5, <1>6, <1>8 DEF Safe

\* The owner records its outcome and leaves.
LEMMA OwnerRecords ==
  ASSUME TypeOK, Safe, NEW w \in Workers,
         pc[w] \in {"record", "conflict"},
         pc' = [pc EXCEPT ![w] = "idle"],
         request' = [request EXCEPT ![w] = None],
         outcome' = [outcome EXCEPT ![w] = None],
         resolutions' = [resolutions EXCEPT ![request[w].command] = outcome[w]],
         UNCHANGED <<control, claims, authorizations, permitted, broker,
                     effects>>
  PROVE  Safe'
<1> DEFINE c == request[w].command
<1> USE DEF TypeOK, MemoryTypeOK
<1>type. c \in Commands
  BY RequestType
<1>1. /\ \A v \in Workers \ {w} : /\ pc'[v] = pc[v]
                                  /\ request'[v] = request[v]
                                  /\ outcome'[v] = outcome[v]
      /\ pc'[w] = "idle"
  OBVIOUS
<1>2. ASSUME NEW v \in Workers, pc'[v] \in Owning
      PROVE  /\ v # w
             /\ request[v].command \in Commands
             /\ request[v].command # c
             /\ resolutions'[request[v].command]
                  = resolutions[request[v].command]
  <2>1. v # w /\ pc[v] \in Owning
    BY <1>1, <1>2 DEF Owning
  <2>2. request[v].command # c
    BY <2>1 DEF Safe, Elected, Owning
  <2>3. request[v].command \in Commands
    BY <2>1, RequestType DEF Owning
  <2> QED BY <2>1, <2>2, <2>3, <1>type DEF DurableTypeOK
<1>3. Elected'
  BY <1>1, <1>2 DEF Safe, Elected
<1>4. OwnerPhase'
  BY <1>1, <1>2 DEF Safe, OwnerPhase, Owning, Truthful
<1>5. /\ authorizations[c] # None
      /\ Truthful(c, outcome[w])
  BY DEF Safe, OwnerPhase, Owning
<1>6. Ledger'
  BY <1>5, <1>type DEF Safe, Ledger, Permits, DurableTypeOK
<1>7. VerdictIsTruthful'
  BY <1>5, <1>type DEF Safe, VerdictIsTruthful, Truthful, DurableTypeOK
<1> QED BY <1>3, <1>4, <1>6, <1>7 DEF Safe

LEMMA AnswerLeaves ==
  ASSUME NEW w \in Workers, RecordedAnswer(w) \/ UnrecordedAnswer(w)
  PROVE  /\ pc' = [pc EXCEPT ![w] = "idle"]
         /\ request' = [request EXCEPT ![w] = None]
         /\ outcome' = [outcome EXCEPT ![w] = None]
BY Zenon DEF RecordedAnswer, UnrecordedAnswer, Reply

LEMMA SafeFrame ==
  ASSUME Safe,
         UNCHANGED <<control, claims, authorizations, resolutions, permitted,
                     broker, effects, pc, request, outcome>>
  PROVE  Safe'
BY DEF Safe, Elected, OwnerPhase, Ledger, VerdictIsTruthful, Truthful, Permits

LEMMA ApplyOnceSafe ==
  ASSUME TypeOK, Safe, NEW w \in Workers, ApplyOnce(w)
  PROVE  Safe'
<1> DEFINE c == request[w].command
<1>type. pc[w] # "idle" => c \in Commands
  BY RequestType DEF TypeOK
<1>0. pc \in [Workers -> Steps] /\ outcome \in [Workers -> Resolution \cup {None}]
  BY DEF TypeOK, MemoryTypeOK
<1>1. CASE AcquireExisting(w)
  <2>1. ASSUME pc' = [pc EXCEPT ![w] = "replay"],
               UNCHANGED <<request, now, outcome, answer>>
        PROVE  Safe'
    BY <1>0, <1>1, <2>1, BystanderMoves DEF AcquireExisting, Owning
  <2>2. ASSUME Reply(w, "IDENTITY_CONFLICT", FALSE, None)
        PROVE  Safe'
    BY <1>1, <2>2, WorkerLeaves DEF AcquireExisting, Reply, environment
  <2> QED BY <1>1, <2>1, <2>2 DEF AcquireExisting
<1>2. CASE AcquireBlocked(w)
  BY <1>2, WorkerLeaves DEF AcquireBlocked, Reply, environment
<1>3. CASE AcquireMismatch(w)
  BY <1>3, WorkerLeaves DEF AcquireMismatch, Reply, environment
<1>4. CASE AcquireClaim(w)
  <2>1. c \in Commands /\ claims[c] = None
    BY <1>4, <1>type DEF AcquireClaim, Claimable, Colliding
  <2>2. claims'[c] \in Claim /\ claims'[c] # None
    <3>1. claims'[c] = [submission |-> request[w].submission,
                        generation |-> control.generation,
                        revision |-> aggregates[c].revision]
      BY <1>4, <2>1 DEF AcquireClaim, TypeOK, DurableTypeOK
    <3> QED BY <1>4, <2>1, <3>1, RequestType, NoneAssumption
            DEF AcquireClaim, Claim, TypeOK, DurableTypeOK
  <2>3. \A d \in Commands \ {c} : claims'[d] = claims[d]
    BY <1>4 DEF AcquireClaim, TypeOK, DurableTypeOK
  <2>4. /\ authorizations[c] = None
        /\ resolutions[c] = None
        /\ broker[c].state = "UNSENT"
    BY <2>1 DEF Safe, Ledger
  <2>5. \A v \in Workers : pc[v] \in Owning => request[v].command # c
    BY <2>1 DEF Safe, Elected
  <2>6. \A v \in Workers :
          pc[v] \in Owning => request[v].command \in Commands
    BY RequestType DEF Owning, TypeOK
  <2>7. /\ pc'[w] = "authorize"
        /\ \A v \in Workers \ {w} : pc'[v] = pc[v]
        /\ UNCHANGED <<control, authorizations, resolutions, permitted,
                       broker, effects, request, outcome>>
    BY <1>0, <1>4 DEF AcquireClaim, environment
  <2>8. Elected'
    BY <2>2, <2>3, <2>4, <2>5, <2>6, <2>7 DEF Safe, Elected, Owning
  <2>9. OwnerPhase'
    BY <2>4, <2>5, <2>7 DEF Safe, OwnerPhase, Owning, Truthful
  <2>10. Ledger'
    BY <2>1, <2>2, <2>3, <2>4, <2>7 DEF Safe, Ledger, Permits
  <2>11. VerdictIsTruthful'
    BY <2>7 DEF Safe, VerdictIsTruthful, Truthful
  <2> QED BY <2>8, <2>9, <2>10, <2>11 DEF Safe
<1>5. CASE Authorize(w)
  <2>1. c \in Commands /\ pc[w] = "authorize" /\ FinalGuard(c, now[w])
    BY <1>5, <1>type DEF Authorize
  <2>2. /\ authorizations'[c] = control.generation
        /\ \A d \in Commands \ {c} : authorizations'[d] = authorizations[d]
    BY <1>5, <2>1 DEF Authorize, TypeOK, DurableTypeOK
  <2>3. /\ control.generation # None
        /\ control.generation = claims[c].generation
        /\ control.generation \in permitted
        /\ broker[c].state = "UNSENT"
        /\ resolutions[c] = None
        /\ claims[c] # None
    BY <2>1, NoneAssumption
       DEF FinalGuard, Safe, Ledger, TypeOK, DurableTypeOK
  <2>4. /\ pc'[w] = "dispatch"
        /\ \A v \in Workers \ {w} : pc'[v] = pc[v]
        /\ UNCHANGED <<control, claims, resolutions, permitted,
                       broker, effects, request, outcome>>
    BY <1>0, <1>5 DEF Authorize, environment
  <2>5. Elected'
    BY <2>1, <2>4 DEF Safe, Elected, Owning
  <2>6. \A v \in Workers \ {w} :
          pc[v] \in Owning => /\ request[v].command # c
                              /\ request[v].command \in Commands
    BY <2>1, RequestType DEF Safe, Elected, Owning, TypeOK
  <2>7. OwnerPhase'
    BY <2>1, <2>2, <2>3, <2>4, <2>6 DEF Safe, OwnerPhase, Owning, Truthful
  <2>8. Ledger'
    BY <2>1, <2>2, <2>3, <2>4 DEF Safe, Ledger, Permits
  <2>9. VerdictIsTruthful'
    BY <2>4 DEF Safe, VerdictIsTruthful, Truthful
  <2> QED BY <2>5, <2>7, <2>8, <2>9 DEF Safe
<1>6. CASE AuthorizeRefused(w)
  BY <1>6, WorkerLeaves DEF AuthorizeRefused, Reply, environment
<1>7. CASE RejectOrder(w)
  <2>1. c \in Commands /\ broker[c].state = "UNSENT" /\ effects[c] = 0
    BY <1>7, <1>type DEF RejectOrder, Safe, OwnerPhase, Ledger
  <2> DEFINE o == [status |-> "PRE_EFFECT_BLOCKED", reference |-> None,
                   owner |-> None]
  <2>2. PICK d \in Commands : d = c
    BY <2>1
  <2>3. Truthful(d, o)'
    BY <1>7, <2>1, <2>2 DEF RejectOrder, environment, Truthful
  <2> QED BY <1>7, <2>2, <2>3, OwnerConcludes DEF RejectOrder, environment
<1>8. CASE Dispatch(w)
  <2>1. c \in Commands /\ pc[w] = "dispatch"
    BY <1>8, <1>type DEF Dispatch
  <2>2. /\ broker[c].state = "UNSENT"
        /\ authorizations[c] # None
        /\ resolutions[c] = None
        /\ effects[c] = 0
    BY <2>1 DEF Safe, OwnerPhase, Elected, Ledger, Owning
  <2>3. /\ broker'[c] = [state |-> "IN_FLIGHT", reference |-> None]
        /\ \A d \in Commands \ {c} : broker'[d] = broker[d]
    BY <1>8, <2>1 DEF Dispatch, TypeOK, EnvironmentTypeOK
  <2>4. /\ pc'[w] = "await"
        /\ \A v \in Workers \ {w} : pc'[v] = pc[v]
        /\ UNCHANGED <<control, claims, authorizations, resolutions,
                       permitted, effects, request, outcome>>
    BY <1>0, <1>8 DEF Dispatch, durable
  <2>5. \A v \in Workers \ {w} :
          pc[v] \in Owning => /\ request[v].command # c
                              /\ request[v].command \in Commands
    BY <2>1, RequestType DEF Safe, Elected, Owning, TypeOK
  <2>6. Elected'
    BY <2>1, <2>4 DEF Safe, Elected, Owning
  <2>7. OwnerPhase'
    BY <2>2, <2>3, <2>4, <2>5 DEF Safe, OwnerPhase, Owning, Truthful
  <2>8. Ledger'
    BY <2>1, <2>2, <2>3, <2>4 DEF Safe, Ledger, Permits
  <2>9. VerdictIsTruthful'
    BY <2>1, <2>2, <2>3, <2>4 DEF Safe, VerdictIsTruthful, Truthful
  <2> QED BY <2>6, <2>7, <2>8, <2>9 DEF Safe
<1>9. CASE ReturnObservation(w)
  <2>1. /\ c \in Commands
        /\ broker[c] \in [state : BrokerStates,
                          reference : References \cup {None}]
    BY <1>9, <1>type DEF ReturnObservation, TypeOK, EnvironmentTypeOK
  <2>2. PICK d \in Commands, ref \in References \cup {None} :
          d = c /\ ref = broker[c].reference
    BY <2>1
  <2>3. PICK status \in {"ACKNOWLEDGED", "BROKER_REJECTED"} :
          /\ status = "ACKNOWLEDGED" <=> broker[c].state = "ACCEPTED"
          /\ Conclude(w, status, ref)
    BY <1>9, <2>2 DEF ReturnObservation
  <2> DEFINE o == [status |-> status, reference |-> ref, owner |-> None]
  <2>4. Truthful(d, o)'
    BY <1>9, <2>1, <2>2, <2>3 DEF ReturnObservation, environment, Truthful
  <2> QED BY <1>9, <2>2, <2>3, <2>4, OwnerConcludes
          DEF ReturnObservation, environment
<1>10. CASE ReturnUnknown(w)
  <2>1. broker[c].state \in {"IN_FLIGHT", "ACCEPTED", "REJECTED"}
    BY <1>10 DEF ReturnUnknown, Safe, OwnerPhase
  <2> DEFINE o == [status |-> "OUTCOME_UNKNOWN", reference |-> None,
                   owner |-> None]
  <2>2. PICK d \in Commands : d = c
    BY <1>10, <1>type DEF ReturnUnknown
  <2>3. Truthful(d, o)'
    BY <1>10, <2>1, <2>2 DEF ReturnUnknown, environment, Truthful
  <2> QED BY <1>10, <2>2, <2>3, OwnerConcludes DEF ReturnUnknown, environment
<1>11. CASE ReturnPreDispatch(w)
  <2>1. c \in Commands
    BY <1>11, <1>type DEF ReturnPreDispatch
  <2>2. effects[c] = 0
    BY <1>11, <2>1 DEF ReturnPreDispatch, Safe, Ledger
  <2>3. /\ broker'[c] = [state |-> "WITHDRAWN", reference |-> None]
        /\ \A d \in Commands \ {c} : broker'[d] = broker[d]
    BY <1>11, <2>1 DEF ReturnPreDispatch, TypeOK, EnvironmentTypeOK
  <2> DEFINE o == [status |-> "PRE_EFFECT_BLOCKED", reference |-> None,
                   owner |-> None]
  <2>4. PICK d \in Commands : d = c
    BY <2>1
  <2>5. Truthful(d, o)'
    BY <1>11, <2>2, <2>3, <2>4 DEF ReturnPreDispatch, Truthful
  <2> QED BY <1>11, <2>3, <2>4, <2>5, OwnerConcludes DEF ReturnPreDispatch
<1>12. CASE Record(w)
  BY <1>12, AnswerLeaves, OwnerRecords DEF Record, CommitOutcome, environment
<1>13. CASE FindConflict(w)
  <2> DEFINE o == [status |-> "BROKER_REFERENCE_CONFLICT",
                   reference |-> outcome[w].reference,
                   owner |-> ReportedOwner(c, outcome[w].reference)]
  <2>1. /\ pc[w] = "record"
        /\ outcome[w] \in Resolution
        /\ outcome[w].reference # None
        /\ pc'[w] = "conflict"
        /\ outcome'[w] = o
        /\ \A v \in Workers \ {w} : pc'[v] = pc[v] /\ outcome'[v] = outcome[v]
        /\ UNCHANGED <<control, claims, authorizations, resolutions,
                       permitted, broker, effects, request>>
    BY <1>0, <1>13 DEF FindConflict, ReferenceFree, TypeOK, MemoryTypeOK,
                        durable, environment
  <2>2. Truthful(c, outcome[w])
    BY <2>1 DEF Safe, OwnerPhase
  <2>3. outcome[w].status \in {"ACKNOWLEDGED", "BROKER_REJECTED",
                               "BROKER_REFERENCE_CONFLICT"}
    BY <2>1, <2>2 DEF Truthful, Resolution
  <2>4. /\ broker[c].state \in {"ACCEPTED", "REJECTED"}
        /\ broker[c].reference = outcome[w].reference
    BY <2>2, <2>3 DEF Truthful
  <2>5. Elected'
    BY <2>1 DEF Safe, Elected, Owning
  <2>6. OwnerPhase'
    BY <2>1, <2>4 DEF Safe, OwnerPhase, Owning, Truthful
  <2>7. Ledger' /\ VerdictIsTruthful'
    BY <2>1 DEF Safe, Ledger, Permits, VerdictIsTruthful, Truthful
  <2> QED BY <2>5, <2>6, <2>7 DEF Safe
<1>14. CASE RecordConflict(w)
  BY <1>14, AnswerLeaves, OwnerRecords
     DEF RecordConflict, CommitOutcome, environment
<1>15. CASE RecordRefused(w)
  BY <1>15, AnswerLeaves, WorkerLeaves DEF RecordRefused, environment
<1>16. CASE RecordFails(w)
  BY <1>16, AnswerLeaves, WorkerLeaves DEF RecordFails
<1>17. CASE Replay(w)
  BY <1>17, WorkerLeaves, Zenon DEF Replay, Reply, environment
<1> QED BY <1>1, <1>2, <1>3, <1>4, <1>5, <1>6, <1>7, <1>8, <1>9, <1>10,
           <1>11, <1>12, <1>13, <1>14, <1>15, <1>16, <1>17 DEF ApplyOnce

LEMMA BrokerSafe ==
  ASSUME TypeOK, Safe, NEW c \in Commands, Broker(c)
  PROVE  Safe'
<1> PICK verdict \in {"ACCEPTED", "REJECTED"}, ref \in References :
           BrokerReceives(c, verdict, ref)
  BY DEF Broker
<1>1. /\ broker[c].state = "IN_FLIGHT"
      /\ effects[c] = 0
      /\ authorizations[c] # None
  BY DEF BrokerReceives, Safe, Ledger
<1>2. /\ broker'[c] = [state |-> verdict, reference |-> ref]
      /\ effects'[c] = 1
      /\ \A d \in Commands \ {c} :
           broker'[d] = broker[d] /\ effects'[d] = effects[d]
      /\ UNCHANGED <<control, claims, authorizations, resolutions, permitted,
                     pc, request, outcome>>
  BY <1>1 DEF BrokerReceives, durable, memory, TypeOK, EnvironmentTypeOK
<1>3. \A w \in Workers : pc[w] \in Owning => request[w].command \in Commands
  BY RequestType DEF Owning, TypeOK
<1>4. Elected'
  BY <1>2 DEF Safe, Elected
<1>5. OwnerPhase'
  BY <1>1, <1>2, <1>3 DEF Safe, OwnerPhase, Owning, Truthful
<1>6. Ledger'
  BY <1>1, <1>2 DEF Safe, Ledger, Permits
<1>7. VerdictIsTruthful'
  BY <1>1, <1>2 DEF Safe, VerdictIsTruthful, Truthful
<1> QED BY <1>4, <1>5, <1>6, <1>7 DEF Safe

LEMMA SaveControlSafe ==
  ASSUME TypeOK, Safe, NEW setting \in ControlSettings, SaveControl(setting)
  PROVE  Safe'
<1>1. /\ permitted \subseteq permitted'
      /\ Permits(setting) => control.generation + 1 \in permitted'
  BY Zenon DEF SaveControl
<1>2. Permits(control)' => control'.generation \in permitted'
  BY <1>1, ControlAssumption DEF SaveControl, Permits
<1>3. UNCHANGED <<claims, authorizations, resolutions, broker, effects, pc,
                  request, outcome>>
  BY DEF SaveControl, environment, memory
<1>4. Elected' /\ OwnerPhase' /\ VerdictIsTruthful'
  BY <1>3 DEF Safe, Elected, OwnerPhase, VerdictIsTruthful, Truthful
<1>5. Ledger'
  BY <1>1, <1>2, <1>3 DEF Safe, Ledger
<1> QED BY <1>4, <1>5 DEF Safe

LEMMA NextSafe == TypeOK /\ Safe /\ [Next]_vars => Safe'
<1> SUFFICES ASSUME TypeOK, Safe, [Next]_vars PROVE Safe'
  OBVIOUS
<1>1. ASSUME NEW c \in Commands, Intake(c) PROVE Safe'
  BY <1>1, SafeFrame DEF Intake, environment, memory
<1>2. ASSUME NEW c \in Commands, Broker(c) PROVE Safe'
  BY <1>2, BrokerSafe
<1>3. ASSUME NEW setting \in ControlSettings, SaveControl(setting)
      PROVE  Safe'
  BY <1>3, SaveControlSafe
<1>4. CASE Tick
  BY <1>4, SafeFrame DEF Tick, durable, memory
<1>5. ASSUME NEW w \in Workers, NEW r \in Requests, Start(w, r) PROVE Safe'
  BY <1>5, BystanderMoves DEF Start, Owning, TypeOK, MemoryTypeOK
<1>6. ASSUME NEW w \in Workers, Interrupt(w) PROVE Safe'
  BY <1>6, WorkerLeaves DEF Interrupt, environment
<1>7. ASSUME NEW w \in Workers, ApplyOnce(w) PROVE Safe'
  BY <1>7, ApplyOnceSafe
<1>8. CASE UNCHANGED vars
  BY <1>8, SafeFrame DEF vars, durable, environment, memory
<1> QED BY <1>1, <1>2, <1>3, <1>4, <1>5, <1>6, <1>7, <1>8 DEF Next

LEMMA Inductive == Spec => []IInv
<1>1. Init => TypeOK /\ Safe
  BY InitType, InitSafe
<1>2. TypeOK /\ Safe /\ [Next]_vars => TypeOK' /\ Safe'
  BY NextType, NextSafe
<1>3. TypeOK /\ Safe => IInv
  BY DEF Safe, IInv
<1> QED BY <1>1, <1>2, <1>3, PTL DEF Spec

\* The broker takes each command's order at most once (AtMostOneEffect).
THEOREM OneEffect == Spec => []AtMostOneEffect
<1>1. IInv => AtMostOneEffect
  BY DEF IInv, Ledger, AtMostOneEffect
<1> QED BY <1>1, Inductive, PTL

\* Every effect stands under a durable authorization of a generation that
\* permitted dispatch (EffectUnderPermit).
THEOREM PermittedEffect == Spec => []EffectUnderPermit
<1>1. IInv => EffectUnderPermit
  <2> SUFFICES ASSUME IInv, NEW c \in Commands,
                      effects[c] > 0 \/ broker[c].state # "UNSENT"
               PROVE  /\ claims[c] # None
                      /\ authorizations[c] = claims[c].generation
                      /\ authorizations[c] \in permitted
    BY DEF EffectUnderPermit
  <2>1. broker[c].state # "UNSENT"
    BY DEF IInv, Ledger
  <2>2. authorizations[c] # None /\ claims[c] # None
    BY <2>1 DEF IInv, Ledger
  <2> QED BY <2>2 DEF IInv, Ledger
<1> QED BY <1>1, Inductive, PTL

\* What is recorded of an outcome is what the broker did (VerdictIsTruthful).
THEOREM TruthfulVerdict == Spec => []VerdictIsTruthful
<1>1. IInv => VerdictIsTruthful
  BY DEF IInv
<1> QED BY <1>1, Inductive, PTL

(***************************************************************************)
(* The integrity checks of a start-up.                                     *)
(***************************************************************************)
LEMMA OutcomeEdgesShape ==
  ASSUME NEW status
  PROVE  /\ Len(OutcomeEdges(status)) \in 1 .. 2
         /\ DOMAIN OutcomeEdges(status) = 1 .. Len(OutcomeEdges(status))
         /\ OutcomeEdges(status)[Len(OutcomeEdges(status))].destination
              \in AggregateStates \ {"ABSENT", "DISPATCH_PENDING"}
<1>1. ASSUME NEW first, NEW second
      PROVE  /\ Len(<<first>>) = 1 /\ DOMAIN <<first>> = 1 .. 1
             /\ Len(<<first, second>>) = 2 /\ DOMAIN <<first, second>> = 1 .. 2
  OBVIOUS
<1>2. /\ Len(OutcomeEdges(status)) \in 1 .. 2
      /\ DOMAIN OutcomeEdges(status) = 1 .. Len(OutcomeEdges(status))
  BY <1>1 DEF OutcomeEdges
<1>3. OutcomeEdges(status)[Len(OutcomeEdges(status))].destination
        \in AggregateStates \ {"ABSENT", "DISPATCH_PENDING"}
  BY DEF OutcomeEdges, Edge, Dispatched, AggregateStates
<1> QED BY <1>2, <1>3

\* Nothing that the checks read has changed, but for a later control.
LEMMA BindingsFrame ==
  ASSUME TypeOK, StartupChecksPass, Registered,
         control'.generation \in Nat, control.generation <= control'.generation,
         UNCHANGED <<aggregates, journal, claims, authorizations, resolutions,
                     brokerReferences>>
  PROVE  StartupChecksPass' /\ Registered'
<1>1. ClaimBindings'
  <2> SUFFICES ASSUME NEW c \in Commands, claims[c] # None
               PROVE  claims[c].generation <= control'.generation
    BY DEF ClaimBindings, StartupChecksPass
  <2>1. claims[c].generation \in Nat /\ claims[c].generation <= control.generation
    BY DEF ClaimBindings, StartupChecksPass, TypeOK, DurableTypeOK, Claim
  <2> QED BY <2>1 DEF TypeOK, DurableTypeOK
<1>2. OutcomeBindings'
  BY DEF StartupChecksPass, OutcomeBindings
<1>3. Registered'
  BY DEF Registered, OwnsReference
<1> QED BY <1>1, <1>2, <1>3 DEF StartupChecksPass

\* The write set of an outcome leaves the checks satisfied, if the reference
\* table gains exactly the reference of the outcome, or for a conflict nothing.
LEMMA CommitBindings ==
  ASSUME TypeOK, Safe, StartupChecksPass, Registered,
         NEW c \in Commands, NEW o \in Resolution,
         OutcomeStartValid(c), CommitOutcome(c, o),
         UNCHANGED <<control, claims, authorizations>>,
         brokerReferences' \in [References -> Commands \cup {None}],
         \A ref \in References :
           brokerReferences[ref] # None => brokerReferences'[ref] = brokerReferences[ref],
         \A ref \in References, d \in Commands \ {c} :
           brokerReferences'[ref] = d => brokerReferences[ref] = d,
         o.status # "BROKER_REFERENCE_CONFLICT" =>
           \A ref \in References : brokerReferences'[ref] = c <=> ref = o.reference,
         o.status = "BROKER_REFERENCE_CONFLICT" =>
           /\ o.reference \in References
           /\ o.owner \in Commands \ {c}
           /\ brokerReferences[o.reference] = o.owner
  PROVE  StartupChecksPass' /\ Registered'
<1> DEFINE edges == OutcomeEdges(o.status)
           first == aggregates[c].revision
           rows  == ChainRows(c, first, edges)
<1> USE NoneAssumption DEF TypeOK, DurableTypeOK
<1>1. /\ claims[c] # None
      /\ authorizations[c] = claims[c].generation
      /\ authorizations[c] # None
      /\ first = claims[c].revision
      /\ first \in Nat
      /\ resolutions[c] = None
  BY DEF OutcomeStartValid, Claim
<1>2. /\ Len(edges) \in 1 .. 2
      /\ DOMAIN edges = 1 .. Len(edges)
      /\ edges[Len(edges)].destination \notin {"ABSENT", "DISPATCH_PENDING"}
  BY OutcomeEdgesShape
<1>3. /\ aggregates'[c] = [state |-> edges[Len(edges)].destination,
                           revision |-> first + Len(edges),
                           reference |-> o.reference]
      /\ \A d \in Commands \ {c} : aggregates'[d] = aggregates[d]
      /\ resolutions'[c] = o
      /\ \A d \in Commands \ {c} : resolutions'[d] = resolutions[d]
      /\ journal' = journal \cup rows
  BY DEF CommitOutcome
<1>4. \A row \in rows : /\ row.command = c
                        /\ row.revision > first
                        /\ row.revision <= first + Len(edges)
                        /\ row.revision \in Nat
  BY <1>1, <1>2 DEF ChainRows
<1>5. \A row \in journal : row.command = c => row.revision <= first
  BY DEF Registered
<1>6. ClaimBindings'
  <2> SUFFICES ASSUME NEW d \in Commands, claims[d] # None
               PROVE  /\ aggregates'[d].state # "ABSENT"
                      /\ resolutions'[d] = None =>
                           /\ aggregates'[d].state = "DISPATCH_PENDING"
                           /\ aggregates'[d].revision = claims[d].revision
    BY DEF StartupChecksPass, ClaimBindings
  <2>1. CASE d = c
    BY <1>2, <1>3, <2>1
  <2>2. CASE d # c
    BY <1>3, <2>2 DEF StartupChecksPass, ClaimBindings
  <2> QED BY <2>1, <2>2
<1>7. OutcomeBindings'
  <2> DEFINE Journaled(d) == {row \in journal' : row.command = d
                                /\ row.revision > claims[d].revision}
  <2>1. Journaled(c) = rows
    <3>1. rows \subseteq Journaled(c)
      BY <1>1, <1>3, <1>4
    <3>2. ASSUME NEW row \in Journaled(c) PROVE row \in rows
      <4>1. row \notin journal
        BY <1>1, <1>5, <3>2
      <4> QED BY <1>3, <3>2, <4>1
    <3> QED BY <3>1, <3>2
  <2>2. ASSUME NEW d \in Commands \ {c}
        PROVE  Journaled(d) = {row \in journal : row.command = d
                                 /\ row.revision > claims[d].revision}
    BY <1>3, <1>4, <2>2
  <2> SUFFICES ASSUME NEW d \in Commands
               PROVE  /\ authorizations[d] # None =>
                           claims[d] # None /\ authorizations[d] = claims[d].generation
                      /\ resolutions'[d] # None =>
                           LET r == resolutions'[d]
                               e == OutcomeEdges(r.status)
                           IN  /\ authorizations[d] # None
                               /\ Journaled(d) = ChainRows(d, claims[d].revision, e)
                               /\ aggregates'[d] =
                                    [state |-> e[Len(e)].destination,
                                     revision |-> claims[d].revision + Len(e),
                                     reference |-> r.reference]
                               /\ r.status # "BROKER_REFERENCE_CONFLICT" =>
                                    \A ref \in References :
                                      brokerReferences'[ref] = d <=> ref = r.reference
                               /\ r.status = "BROKER_REFERENCE_CONFLICT" =>
                                    r.owner # d /\ brokerReferences'[r.reference] = r.owner
    BY DEF OutcomeBindings
  <2>3. CASE d = c
    BY <1>1, <1>3, <2>1, <2>3
  <2>4. CASE d # c
    <3>1. resolutions'[d] = resolutions[d] /\ aggregates'[d] = aggregates[d]
      BY <1>3, <2>4
    <3>2. \A ref \in References : brokerReferences'[ref] = d <=> brokerReferences[ref] = d
      BY <2>4
    <3>3. resolutions[d] # None /\ resolutions[d].status = "BROKER_REFERENCE_CONFLICT"
            => brokerReferences'[resolutions[d].reference] = resolutions[d].owner
      <4> SUFFICES ASSUME resolutions[d] # None,
                          resolutions[d].status = "BROKER_REFERENCE_CONFLICT"
                   PROVE  brokerReferences'[resolutions[d].reference] = resolutions[d].owner
        OBVIOUS
      <4>1. resolutions[d].reference \in References /\ resolutions[d].owner \in Commands
        BY DEF Registered
      <4> QED BY <4>1 DEF StartupChecksPass, OutcomeBindings
    <3> QED BY <2>2, <2>4, <3>1, <3>2, <3>3 DEF StartupChecksPass, OutcomeBindings
  <2> QED BY <2>3, <2>4
<1>8. Registered'
  <2>1. \A row \in journal' : row.revision <= aggregates'[row.command].revision
    <3> SUFFICES ASSUME NEW row \in journal'
                 PROVE  row.revision <= aggregates'[row.command].revision
      OBVIOUS
    <3>1. CASE row \in rows
      BY <1>3, <1>4, <3>1
    <3>2. CASE row \in journal /\ row.command = c
      <4>1. /\ row.revision <= first /\ row.revision \in Nat
            /\ aggregates'[c].revision = first + Len(edges)
        BY <1>3, <1>5, <3>2
      <4> QED BY <1>1, <1>2, <3>2, <4>1
    <3>3. CASE row \in journal /\ row.command # c
      BY <1>3, <3>3 DEF Registered
    <3> QED BY <1>3, <3>1, <3>2, <3>3
  <2>2. \A d \in Commands :
          IF resolutions'[d] = None THEN ~OwnsReference(d)'
          ELSE resolutions'[d].status = "BROKER_REFERENCE_CONFLICT" =>
                 /\ resolutions'[d].reference \in References
                 /\ resolutions'[d].owner \in Commands
    <3> SUFFICES ASSUME NEW d \in Commands
                 PROVE  IF resolutions'[d] = None THEN ~OwnsReference(d)'
                        ELSE resolutions'[d].status = "BROKER_REFERENCE_CONFLICT" =>
                               /\ resolutions'[d].reference \in References
                               /\ resolutions'[d].owner \in Commands
      OBVIOUS
    <3>1. CASE d = c
      BY <1>3, <3>1
    <3>2. CASE d # c
      <4>1. resolutions'[d] = resolutions[d]
        BY <1>3, <3>2
      <4>2. OwnsReference(d)' => OwnsReference(d)
        BY <3>2 DEF OwnsReference
      <4> QED BY <4>1, <4>2 DEF Registered
    <3> QED BY <3>1, <3>2
  <2>3. \A d \in Commands : aggregates'[d].state = "ABSENT" => aggregates'[d].revision = 0
    <3>1. aggregates'[c].state # "ABSENT"
      BY <1>2, <1>3
    <3>2. \A d \in Commands : aggregates[d].state = "ABSENT" => aggregates[d].revision = 0
      BY DEF Registered
    <3>3. \A d \in Commands \ {c} : aggregates'[d] = aggregates[d]
      BY <1>3
    <3> QED BY <3>1, <3>2, <3>3, Zenon
  <2> QED BY <2>1, <2>2, <2>3 DEF Registered
<1> QED BY <1>6, <1>7, <1>8 DEF StartupChecksPass

LEMMA InitBindings == Init => StartupChecksPass /\ Registered /\ Attempted
BY NoneAssumption
   DEF Init, StartupChecksPass, ClaimBindings, OutcomeBindings, Registered,
       OwnsReference, Attempted

\* Only the outcome of the worker that moves can upset Attempted.
LEMMA AttemptedMoves ==
  ASSUME TypeOK, Attempted, NEW w \in Workers,
         \A v \in Workers \ {w} : pc'[v] = pc[v] /\ outcome'[v] = outcome[v],
         pc'[w] = "record" => outcome'[w].status # "BROKER_REFERENCE_CONFLICT",
         pc'[w] = "conflict" =>
           /\ outcome'[w].status = "BROKER_REFERENCE_CONFLICT"
           /\ outcome'[w].reference \in References
  PROVE  Attempted'
BY DEF Attempted

\* The third transaction, in either attempt.
LEMMA RecordBindings ==
  ASSUME TypeOK, TypeOK', Safe, StartupChecksPass, Registered, Attempted,
         NEW w \in Workers, Record(w) \/ RecordConflict(w)
  PROVE  StartupChecksPass' /\ Registered' /\ Attempted'
<1> DEFINE c == request[w].command
           o == outcome[w]
<1>1. pc[w] \in {"record", "conflict"} /\ CommitOutcome(c, o) /\ OutcomeStartValid(c)
  BY DEF Record, RecordConflict
<1>2. c \in Commands /\ o \in Resolution
  BY <1>1, RequestType DEF TypeOK, MemoryTypeOK
<1>3. UNCHANGED <<control, claims, authorizations>>
  BY DEF Record, RecordConflict
<1>4. brokerReferences' \in [References -> Commands \cup {None}]
  BY DEF TypeOK, DurableTypeOK
<1>5. resolutions[c] = None
  BY <1>1 DEF OutcomeStartValid
<1>6. StartupChecksPass' /\ Registered'
  <2>1. CASE Record(w)
    <3>1. /\ o.status # "BROKER_REFERENCE_CONFLICT"
          /\ ReferenceFree(c, o.reference)
          /\ brokerReferences' = [ref \in References |->
                IF ref = o.reference THEN c ELSE brokerReferences[ref]]
      BY <2>1 DEF Record, Attempted
    <3>2. \A ref \in References :
            brokerReferences[ref] # None => brokerReferences'[ref] = brokerReferences[ref]
      BY <3>1, NoneAssumption DEF ReferenceFree
    <3>3. \A ref \in References, d \in Commands \ {c} :
            brokerReferences'[ref] = d => brokerReferences[ref] = d
      BY <3>1
    <3>4. \A ref \in References : brokerReferences'[ref] = c <=> ref = o.reference
      BY <1>2, <1>5, <3>1 DEF Registered, OwnsReference
    <3> QED BY <1>1, <1>2, <1>3, <1>4, <3>1, <3>2, <3>3, <3>4, CommitBindings
  <2>2. CASE RecordConflict(w)
    <3>1. /\ o.status = "BROKER_REFERENCE_CONFLICT"
          /\ o.reference \in References
          /\ ConflictOwnerIsCurrent(c, o)
          /\ UNCHANGED brokerReferences
      BY <2>2 DEF RecordConflict, Attempted
    <3>2. /\ o.owner \in Commands \ {c}
          /\ brokerReferences[o.reference] = o.owner
      BY <1>2, <3>1 DEF ConflictOwnerIsCurrent, Resolution
    <3> QED BY <1>1, <1>2, <1>3, <1>4, <3>1, <3>2, CommitBindings
  <2> QED BY <2>1, <2>2
<1>7. Attempted'
  <2>1. /\ pc' = [pc EXCEPT ![w] = "idle"]
        /\ outcome' = [outcome EXCEPT ![w] = None]
    BY AnswerLeaves DEF Record, RecordConflict
  <2> QED BY <2>1, AttemptedMoves DEF TypeOK, MemoryTypeOK
<1> QED BY <1>6, <1>7

LEMMA ApplyOnceBindings ==
  ASSUME TypeOK, TypeOK', Safe, StartupChecksPass, Registered, Attempted,
         NEW w \in Workers, ApplyOnce(w)
  PROVE  StartupChecksPass' /\ Registered' /\ Attempted'
<1> DEFINE c == request[w].command
<1> USE DEF TypeOK
<1>type. pc[w] # "idle" => c \in Commands
  BY RequestType
<1>0. pc \in [Workers -> Steps] /\ outcome \in [Workers -> Resolution \cup {None}]
  BY DEF MemoryTypeOK
<1>leaves. ASSUME pc' = [pc EXCEPT ![w] = "idle"], outcome' = [outcome EXCEPT ![w] = None]
           PROVE  Attempted'
  BY <1>0, <1>leaves, AttemptedMoves
<1>frame. ASSUME UNCHANGED <<control, aggregates, journal, claims, authorizations,
                             resolutions, brokerReferences>>
          PROVE  StartupChecksPass' /\ Registered'
  BY <1>frame, BindingsFrame DEF DurableTypeOK
<1>1. CASE AcquireExisting(w)
  <2>1. Attempted'
    <3>1. CASE pc' = [pc EXCEPT ![w] = "replay"] /\ UNCHANGED outcome
      BY <1>0, <3>1, AttemptedMoves
    <3>2. CASE Reply(w, "IDENTITY_CONFLICT", FALSE, None)
      BY <1>leaves, <3>2 DEF Reply
    <3> QED BY <1>1, <3>1, <3>2 DEF AcquireExisting
  <2> QED BY <1>1, <1>frame, <2>1 DEF AcquireExisting, durable
<1>2. CASE AcquireBlocked(w) \/ AcquireMismatch(w) \/ AuthorizeRefused(w)
  BY <1>2, <1>frame, <1>leaves
     DEF AcquireBlocked, AcquireMismatch, AuthorizeRefused, Reply, durable
<1>3. CASE AcquireClaim(w)
  <2>1. /\ c \in Commands
        /\ Colliding(request[w]) = {}
        /\ aggregates[c].state = "DISPATCH_PENDING"
        /\ claims' = [claims EXCEPT ![c] = [submission |-> request[w].submission,
                                            generation |-> control.generation,
                                            revision |-> aggregates[c].revision]]
        /\ UNCHANGED <<control, aggregates, journal, authorizations, resolutions,
                       brokerReferences, outcome>>
        /\ pc' = [pc EXCEPT ![w] = "authorize"]
    BY <1>3, <1>type DEF AcquireClaim, Claimable
  <2>2. claims[c] = None /\ authorizations[c] = None /\ resolutions[c] = None
    BY <2>1 DEF Colliding, Safe, Ledger
  <2>3. \A d \in Commands : claims[d] # None => claims[d].submission # request[w].submission
    BY <2>1 DEF Colliding
  <2>4. /\ claims'[c].submission = request[w].submission
        /\ claims'[c].generation = control.generation
        /\ claims'[c].revision = aggregates[c].revision
        /\ \A d \in Commands \ {c} : claims'[d] = claims[d]
    BY <2>1 DEF DurableTypeOK
  <2>5. control.generation \in Nat
    BY DEF DurableTypeOK
  <2>6. ClaimBindings'
    BY <2>1, <2>2, <2>3, <2>4, <2>5 DEF StartupChecksPass, ClaimBindings
  <2>7. OutcomeBindings'
    BY <2>1, <2>2, <2>4 DEF StartupChecksPass, OutcomeBindings
  <2>8. Registered'
    BY <2>1 DEF Registered, OwnsReference
  <2>9. Attempted'
    BY <1>0, <2>1, AttemptedMoves
  <2> QED BY <2>6, <2>7, <2>8, <2>9 DEF StartupChecksPass
<1>4. CASE Authorize(w)
  <2>1. /\ c \in Commands
        /\ FinalGuard(c, now[w])
        /\ authorizations' = [authorizations EXCEPT ![c] = control.generation]
        /\ UNCHANGED <<control, aggregates, journal, claims, resolutions,
                       brokerReferences, outcome>>
        /\ pc' = [pc EXCEPT ![w] = "dispatch"]
    BY <1>4, <1>type DEF Authorize
  <2>2. /\ claims[c] # None
        /\ control.generation = claims[c].generation
        /\ resolutions[c] = None
    BY <2>1 DEF FinalGuard, Safe, Ledger
  <2>3. authorizations'[c] = control.generation
    BY <2>1 DEF DurableTypeOK
  <2>4. \A d \in Commands \ {c} : authorizations'[d] = authorizations[d]
    BY <2>1 DEF DurableTypeOK
  <2>5. ClaimBindings' /\ Registered'
    BY <2>1 DEF StartupChecksPass, ClaimBindings, Registered, OwnsReference
  <2>6. OutcomeBindings'
    BY <2>1, <2>2, <2>3, <2>4 DEF StartupChecksPass, OutcomeBindings
  <2>7. Attempted'
    BY <1>0, <2>1, AttemptedMoves
  <2> QED BY <2>5, <2>6, <2>7 DEF StartupChecksPass
<1>5. CASE RejectOrder(w) \/ ReturnObservation(w) \/ ReturnUnknown(w) \/ ReturnPreDispatch(w)
  <2>1. PICK status \in {"PRE_EFFECT_BLOCKED", "ACKNOWLEDGED", "BROKER_REJECTED",
                         "OUTCOME_UNKNOWN"} :
          \E ref : Conclude(w, status, ref)
    BY <1>5 DEF RejectOrder, ReturnObservation, ReturnUnknown, ReturnPreDispatch
  <2>2. Attempted'
    BY <1>0, <2>1, AttemptedMoves DEF Conclude
  <2> QED BY <1>5, <1>frame, <2>2
       DEF RejectOrder, ReturnObservation, ReturnUnknown, ReturnPreDispatch, durable
<1>6. CASE Dispatch(w)
  <2>1. Attempted'
    BY <1>0, <1>6, AttemptedMoves DEF Dispatch
  <2> QED BY <1>6, <1>frame, <2>1 DEF Dispatch, durable
<1>7. CASE Record(w) \/ RecordConflict(w)
  BY <1>7, RecordBindings
<1>8. CASE FindConflict(w)
  <2>1. outcome[w].reference \in References
    BY <1>0, <1>8 DEF FindConflict, ReferenceFree, MemoryTypeOK, Resolution
  <2>2. Attempted'
    BY <1>0, <1>8, <2>1, AttemptedMoves DEF FindConflict
  <2> QED BY <1>8, <1>frame, <2>2 DEF FindConflict, durable
<1>9. CASE RecordRefused(w) \/ RecordFails(w)
  BY <1>9, <1>frame, <1>leaves, AnswerLeaves DEF RecordRefused, RecordFails, durable
<1>10. CASE Replay(w)
  <2>1. /\ pc' = [pc EXCEPT ![w] = "idle"]
        /\ outcome' = [outcome EXCEPT ![w] = None]
    BY <1>10, Zenon DEF Replay, Reply
  <2> QED BY <1>10, <1>frame, <1>leaves, <2>1 DEF Replay, durable
<1> QED BY <1>1, <1>2, <1>3, <1>4, <1>5, <1>6, <1>7, <1>8, <1>9, <1>10 DEF ApplyOnce

LEMMA NextBindings ==
  ASSUME TypeOK, TypeOK', Safe, StartupChecksPass, Registered, Attempted, [Next]_vars
  PROVE  StartupChecksPass' /\ Registered' /\ Attempted'
<1>frame. ASSUME control'.generation >= control.generation,
                 UNCHANGED <<aggregates, journal, claims, authorizations, resolutions,
                             brokerReferences, pc, outcome>>
          PROVE  StartupChecksPass' /\ Registered' /\ Attempted'
  <2>1. Attempted'
    BY <1>frame DEF Attempted
  <2> QED BY <1>frame, <2>1, BindingsFrame DEF TypeOK, DurableTypeOK
<1>0. control.generation \in Nat
  BY DEF TypeOK, DurableTypeOK
<1>1. ASSUME NEW c \in Commands, Intake(c) PROVE StartupChecksPass' /\ Registered' /\ Attempted'
  <2>1. /\ aggregates[c].state = "ABSENT"
        /\ aggregates' = [aggregates EXCEPT ![c] = [state |-> "DISPATCH_PENDING",
                             revision |-> Len(IntakeChain), reference |-> None]]
        /\ journal' = journal \cup ChainRows(c, 0, IntakeChain)
        /\ UNCHANGED <<control, claims, authorizations, resolutions, brokerReferences,
                       pc, outcome>>
    BY <1>1 DEF Intake, memory
  <2>2. claims[c] = None /\ authorizations[c] = None /\ resolutions[c] = None
    BY <2>1 DEF StartupChecksPass, ClaimBindings, Safe, Ledger
  <2>3. /\ aggregates'[c].state = "DISPATCH_PENDING"
        /\ aggregates'[c].revision = Len(IntakeChain)
        /\ \A d \in Commands \ {c} : aggregates'[d] = aggregates[d]
    BY <2>1 DEF TypeOK, DurableTypeOK
  <2>4. Len(IntakeChain) = 5 /\ DOMAIN IntakeChain = 1 .. 5
    BY DEF IntakeChain
  <2>5. \A row \in ChainRows(c, 0, IntakeChain) :
          row.command = c /\ row.revision \in 1 .. 5
    BY <2>4 DEF ChainRows
  <2>6. \A row \in journal : row.command = c => row.revision <= 0
    BY <2>1 DEF Registered
  <2>7. ClaimBindings'
    BY <2>1, <2>2, <2>3 DEF StartupChecksPass, ClaimBindings
  <2>8. OutcomeBindings'
    BY <2>1, <2>2, <2>3, <2>5 DEF StartupChecksPass, OutcomeBindings
  <2>9. Registered'
    <3>1. \A row \in journal' : row.revision <= aggregates'[row.command].revision
      <4> SUFFICES ASSUME NEW row \in journal'
                   PROVE  row.revision <= aggregates'[row.command].revision
        OBVIOUS
      <4>1. CASE row \in ChainRows(c, 0, IntakeChain)
        BY <2>3, <2>4, <2>5, <4>1
      <4>2. CASE row \in journal /\ row.command = c
        <5>1. row.revision \in Nat /\ row.revision <= 0
          BY <2>6, <4>2 DEF TypeOK, DurableTypeOK
        <5> QED BY <2>3, <2>4, <4>2, <5>1
      <4>3. CASE row \in journal /\ row.command # c
        BY <2>3, <4>3 DEF Registered, TypeOK, DurableTypeOK
      <4> QED BY <2>1, <4>1, <4>2, <4>3
    <3> QED BY <2>1, <2>3, <3>1 DEF Registered, OwnsReference
  <2> QED BY <2>1, <2>7, <2>8, <2>9 DEF Attempted, StartupChecksPass
<1>2. ASSUME NEW c \in Commands, Broker(c) PROVE StartupChecksPass' /\ Registered' /\ Attempted'
  BY <1>0, <1>2, <1>frame DEF Broker, BrokerReceives, durable, memory
<1>3. ASSUME NEW setting \in ControlSettings, SaveControl(setting)
      PROVE  StartupChecksPass' /\ Registered' /\ Attempted'
  BY <1>0, <1>3, <1>frame DEF SaveControl, memory
<1>4. CASE Tick
  BY <1>0, <1>4, <1>frame DEF Tick, durable, memory
<1>5. ASSUME NEW w \in Workers, NEW r \in Requests, Start(w, r)
      PROVE  StartupChecksPass' /\ Registered' /\ Attempted'
  <2>1. Attempted'
    BY <1>5, AttemptedMoves DEF Start, TypeOK, MemoryTypeOK
  <2> QED BY <1>0, <1>5, <2>1, BindingsFrame DEF Start, durable
<1>6. ASSUME NEW w \in Workers, Interrupt(w) PROVE StartupChecksPass' /\ Registered' /\ Attempted'
  <2>1. Attempted'
    BY <1>6, AttemptedMoves DEF Interrupt, TypeOK, MemoryTypeOK
  <2> QED BY <1>0, <1>6, <2>1, BindingsFrame DEF Interrupt, durable
<1>7. ASSUME NEW w \in Workers, ApplyOnce(w) PROVE StartupChecksPass' /\ Registered' /\ Attempted'
  BY <1>7, ApplyOnceBindings
<1>8. CASE UNCHANGED vars
  BY <1>0, <1>8, <1>frame DEF vars, durable, memory
<1> QED BY <1>1, <1>2, <1>3, <1>4, <1>5, <1>6, <1>7, <1>8 DEF Next

LEMMA BindingsInductive == Spec => []BindingsInv
<1> DEFINE J == TypeOK /\ Safe /\ StartupChecksPass /\ Registered /\ Attempted
<1>1. Init => J
  BY InitType, InitSafe, InitBindings
<1>2. J /\ [Next]_vars => J'
  BY NextType, NextSafe, NextBindings
<1>3. J => BindingsInv
  BY DEF Safe, IInv, BindingsInv
<1> QED BY <1>1, <1>2, <1>3, PTL DEF Spec

\* Whenever the process is started again, at whatever crash point, the
\* integrity checks of the claims and of their outcomes find nothing
\* (check_dispatch_claim_bindings and check_dispatch_outcome_bindings).
THEOREM StartupChecks == Spec => []StartupChecksPass
<1>1. BindingsInv => StartupChecksPass
  BY DEF BindingsInv
<1> QED BY <1>1, BindingsInductive, PTL

(***************************************************************************)
(* What a caller was told.                                                 *)
(***************************************************************************)
\* Claims, authorizations, resolutions and the owners of references stay.
LEMMA RowsStay ==
  ASSUME TypeOK, Safe, [Next]_vars
  PROVE  /\ \A c \in Commands : resolutions[c] # None => resolutions'[c] = resolutions[c]
         /\ \A c \in Commands : authorizations[c] # None => authorizations'[c] # None
         /\ \A ref \in References :
              brokerReferences[ref] # None => brokerReferences'[ref] = brokerReferences[ref]
         /\ \A c \in Commands : claims[c] # None => claims'[c] = claims[c]
<1> DEFINE Goal ==
      /\ \A c \in Commands : resolutions[c] # None => resolutions'[c] = resolutions[c]
      /\ \A c \in Commands : authorizations[c] # None => authorizations'[c] # None
      /\ \A ref \in References :
           brokerReferences[ref] # None => brokerReferences'[ref] = brokerReferences[ref]
      /\ \A c \in Commands : claims[c] # None => claims'[c] = claims[c]
<1>1. ASSUME UNCHANGED <<resolutions, authorizations, brokerReferences, claims>> PROVE Goal
  BY <1>1
<1>2. ASSUME NEW w \in Workers, ApplyOnce(w) PROVE Goal
  <2> DEFINE c == request[w].command
  <2>1. CASE Record(w) \/ RecordConflict(w)
    <3>1. /\ resolutions[c] = None
          /\ resolutions' = [resolutions EXCEPT ![c] = outcome[w]]
          /\ UNCHANGED <<authorizations, claims>>
      BY <2>1 DEF Record, RecordConflict, CommitOutcome, OutcomeStartValid
    <3>2. \A ref \in References :
            brokerReferences[ref] # None => brokerReferences'[ref] = brokerReferences[ref]
      BY <2>1, NoneAssumption DEF Record, RecordConflict, ReferenceFree
    <3> QED BY <3>1, <3>2 DEF TypeOK, DurableTypeOK
  <2>2. CASE Authorize(w)
    <3>1. /\ authorizations' = [authorizations EXCEPT ![c] = control.generation]
          /\ UNCHANGED <<resolutions, brokerReferences, claims>>
      BY <2>2 DEF Authorize
    <3>2. control.generation # None
      BY NoneAssumption DEF TypeOK, DurableTypeOK
    <3> QED BY <3>1, <3>2 DEF TypeOK, DurableTypeOK
  <2>4. CASE AcquireClaim(w)
    <3>1. /\ claims[c] = None
          /\ \A d \in Commands \ {c} : claims'[d] = claims[d]
          /\ UNCHANGED <<resolutions, authorizations, brokerReferences>>
      BY <2>4, RequestType
         DEF AcquireClaim, Claimable, Colliding, TypeOK, DurableTypeOK
    <3> QED BY <3>1
  <2>3. CASE ~ (Record(w) \/ RecordConflict(w) \/ Authorize(w) \/ AcquireClaim(w))
    <3>1. UNCHANGED <<resolutions, authorizations, brokerReferences, claims>>
      BY <1>2, <2>3
         DEF ApplyOnce, AcquireExisting, AcquireBlocked, AcquireMismatch,
             AuthorizeRefused, RejectOrder, Dispatch, ReturnObservation, ReturnUnknown,
             ReturnPreDispatch, FindConflict, RecordRefused, RecordFails, Replay, durable
    <3> QED BY <1>1, <3>1
  <2> QED BY <2>1, <2>2, <2>3, <2>4
<1>3. CASE UNCHANGED vars
  BY <1>1, <1>3 DEF vars, durable
<1>4. ASSUME ~ UNCHANGED vars, ~ \E w \in Workers : ApplyOnce(w) PROVE Goal
  BY <1>1, <1>4 DEF Next, Intake, Broker, BrokerReceives, SaveControl, Tick, Start,
     Interrupt, durable
<1> QED BY <1>2, <1>3, <1>4

\* The one answer a step gives, if it gives one.
LEMMA AnswersGiven ==
  ASSUME TypeOK, Safe, [Next]_vars
  PROVE  \/ UNCHANGED answer
         \/ \E w \in Workers : answer' = [answer EXCEPT ![w] = None]
         \/ \E w \in Workers : \E status, token, ref :
              /\ pc[w] # "idle"
              /\ Reply(w, status, token, ref)
              /\ status = "OUTCOME_UNKNOWN" =>
                   \/ Replay(w) /\ resolutions[request[w].command] # None
                   \/ pc[w] \in {"record", "conflict"}
                        /\ (Record(w) \/ RecordConflict(w) \/ RecordRefused(w) \/ RecordFails(w))
              /\ status \in {"ACKNOWLEDGED", "BROKER_REJECTED"} =>
                   LET r == resolutions'[request[w].command] IN
                   r # None /\ r.status = status /\ r.reference = ref
              /\ status \in {"PRE_DISPATCH_FAILURE", "EXACT_REPLAY"} =>
                   LET r == resolutions'[request[w].command] IN
                   r # None /\ r.status = "PRE_EFFECT_BLOCKED"
<1> DEFINE Told(w, status, token, ref) ==
      /\ pc[w] # "idle"
      /\ Reply(w, status, token, ref)
      /\ status = "OUTCOME_UNKNOWN" =>
           \/ Replay(w) /\ resolutions[request[w].command] # None
           \/ pc[w] \in {"record", "conflict"}
                /\ (Record(w) \/ RecordConflict(w) \/ RecordRefused(w) \/ RecordFails(w))
      /\ status \in {"ACKNOWLEDGED", "BROKER_REJECTED"} =>
           LET r == resolutions'[request[w].command] IN
           r # None /\ r.status = status /\ r.reference = ref
      /\ status \in {"PRE_DISPATCH_FAILURE", "EXACT_REPLAY"} =>
           LET r == resolutions'[request[w].command] IN
           r # None /\ r.status = "PRE_EFFECT_BLOCKED"
    Given(w) == \E status, token, ref : Told(w, status, token, ref)
<1>told. ASSUME NEW w \in Workers, NEW status, NEW token, NEW ref,
                Told(w, status, token, ref)
         PROVE  Given(w)
  BY <1>told, Zenon
<1>refused. ASSUME NEW w \in Workers, NEW status \in {"BLOCKED", "IDENTITY_CONFLICT"},
                   NEW token, NEW ref, pc[w] # "idle", Reply(w, status, token, ref)
            PROVE  Given(w)
  <2>1. Told(w, status, token, ref)
    BY <1>refused
  <2> QED BY <1>told, <2>1
<1>1. ASSUME NEW w \in Workers, ApplyOnce(w) PROVE UNCHANGED answer \/ Given(w)
  <2> DEFINE c == request[w].command
             o == outcome[w]
             r == resolutions[c]
  <2> HIDE DEF Given
  <2>1. CASE AcquireExisting(w)
    <3>1. CASE UNCHANGED answer
      BY <3>1
    <3>2. CASE Reply(w, "IDENTITY_CONFLICT", FALSE, None)
      BY <1>refused, <2>1, <3>2 DEF AcquireExisting
    <3> QED BY <2>1, <3>1, <3>2 DEF AcquireExisting
  <2>2. CASE AcquireBlocked(w)
    BY <1>refused, <2>2 DEF AcquireBlocked
  <2>7. CASE AcquireMismatch(w)
    BY <1>refused, <2>7 DEF AcquireMismatch
  <2>8. CASE AuthorizeRefused(w)
    BY <1>refused, <2>8 DEF AuthorizeRefused
  <2>3. CASE Record(w) \/ RecordConflict(w)
    <3>1. pc[w] \in {"record", "conflict"} /\ RecordedAnswer(w)
      BY <2>3 DEF Record, RecordConflict
    <3>2. o \in Resolution /\ c \in Commands
      BY <3>1, RequestType DEF TypeOK, MemoryTypeOK
    <3>3. resolutions'[c] = o /\ o # None
      BY <2>3, <3>2, NoneAssumption
         DEF Record, RecordConflict, CommitOutcome, TypeOK, DurableTypeOK
    <3>4. CASE o.status = "BROKER_REFERENCE_CONFLICT"
      <4>1. Reply(w, "OUTCOME_UNKNOWN", TRUE, o.reference)
        BY <3>1, <3>4 DEF RecordedAnswer
      <4>2. Told(w, "OUTCOME_UNKNOWN", TRUE, o.reference)
        BY <2>3, <3>1, <4>1
      <4> QED BY <1>told, <4>2
    <3>5. CASE o.status \in {"ACKNOWLEDGED", "BROKER_REJECTED", "OUTCOME_UNKNOWN"}
      <4>1. Reply(w, o.status, TRUE, o.reference)
        BY <3>1, <3>5 DEF RecordedAnswer
      <4>2. Told(w, o.status, TRUE, o.reference)
        BY <2>3, <3>1, <3>3, <3>5, <4>1
      <4> QED BY <1>told, <4>2
    <3>6. CASE o.status = "PRE_EFFECT_BLOCKED" /\ c \in InvalidOrders
      <4>1. Reply(w, "BLOCKED", FALSE, None) /\ pc[w] # "idle"
        BY <3>1, <3>6 DEF RecordedAnswer
      <4> QED BY <1>refused, <4>1
    <3>7. CASE o.status = "PRE_EFFECT_BLOCKED" /\ c \notin InvalidOrders
      <4>1. Reply(w, "PRE_DISPATCH_FAILURE", TRUE, None)
        BY <3>1, <3>7 DEF RecordedAnswer
      <4>2. Told(w, "PRE_DISPATCH_FAILURE", TRUE, None)
        BY <2>3, <3>1, <3>3, <3>7, <4>1
      <4> QED BY <1>told, <4>2
    <3> QED BY <3>2, <3>4, <3>5, <3>6, <3>7 DEF Resolution
  <2>4. CASE RecordRefused(w) \/ RecordFails(w)
    <3>1. pc[w] \in {"record", "conflict"} /\ UnrecordedAnswer(w)
      BY <2>4 DEF RecordRefused, RecordFails
    <3>2. CASE c \in InvalidOrders
      <4>1. Reply(w, "BLOCKED", FALSE, None) /\ pc[w] # "idle"
        BY <3>1, <3>2 DEF UnrecordedAnswer
      <4> QED BY <1>refused, <4>1
    <3>3. CASE c \notin InvalidOrders
      <4>1. Reply(w, "OUTCOME_UNKNOWN", TRUE, o.reference)
        BY <3>1, <3>3 DEF UnrecordedAnswer
      <4>2. Told(w, "OUTCOME_UNKNOWN", TRUE, o.reference)
        BY <2>4, <3>1, <4>1
      <4> QED BY <1>told, <4>2
    <3> QED BY <3>2, <3>3
  <2>5. CASE Replay(w)
    <3>1. UNCHANGED resolutions /\ pc[w] # "idle"
      BY <2>5 DEF Replay, durable
    <3>2. CASE r = None
      BY <1>refused, <2>5, <3>1, <3>2 DEF Replay
    <3>3. CASE r # None /\ r.status = "PRE_EFFECT_BLOCKED"
      <4>1. Reply(w, "EXACT_REPLAY", TRUE, None)
        BY <2>5, <3>3 DEF Replay
      <4>2. Told(w, "EXACT_REPLAY", TRUE, None)
        BY <3>1, <3>3, <4>1
      <4> QED BY <1>told, <4>2
    <3>4. CASE r # None /\ r.status \in {"ACKNOWLEDGED", "BROKER_REJECTED"}
      <4>1. Reply(w, r.status, TRUE, r.reference)
        BY <2>5, <3>4 DEF Replay
      <4>2. Told(w, r.status, TRUE, r.reference)
        BY <3>1, <3>4, <4>1
      <4> QED BY <1>told, <4>2
    <3>5. CASE r # None /\ r.status \notin {"PRE_EFFECT_BLOCKED", "ACKNOWLEDGED",
                                            "BROKER_REJECTED"}
      <4>1. Reply(w, "OUTCOME_UNKNOWN", TRUE, r.reference)
        BY <2>5, <3>5 DEF Replay
      <4>2. Told(w, "OUTCOME_UNKNOWN", TRUE, r.reference)
        BY <2>5, <3>1, <3>5, <4>1
      <4> QED BY <1>told, <4>2
    <3> QED BY <3>2, <3>3, <3>4, <3>5
  <2>6. CASE \/ AcquireClaim(w) \/ Authorize(w) \/ RejectOrder(w) \/ Dispatch(w)
             \/ ReturnObservation(w) \/ ReturnUnknown(w) \/ ReturnPreDispatch(w)
             \/ FindConflict(w)
    BY <2>6 DEF AcquireClaim, Authorize, RejectOrder, Dispatch, ReturnObservation,
       ReturnUnknown, ReturnPreDispatch, FindConflict, Conclude
  <2> QED BY <1>1, <2>1, <2>2, <2>3, <2>4, <2>5, <2>6, <2>7, <2>8 DEF ApplyOnce
<1>2. ASSUME NEW w \in Workers, NEW r \in Requests, Start(w, r)
      PROVE  answer' = [answer EXCEPT ![w] = None]
  BY <1>2 DEF Start
<1>3. ASSUME ~ (\E w \in Workers : ApplyOnce(w)),
             ~ (\E w \in Workers, r \in Requests : Start(w, r))
      PROVE  UNCHANGED answer
  BY <1>3 DEF Next, vars, Intake, Broker, BrokerReceives, SaveControl, Tick,
     Interrupt, memory
<1> QED BY <1>1, <1>2, <1>3

\* How a step moves the program counters, the requests and the outcomes, the
\* discovery of a conflict apart.
LEMMA WorkerSteps ==
  ASSUME TypeOK, [Next]_vars
  PROVE  \/ UNCHANGED <<pc, request, outcome>>
         \/ \E v \in Workers : /\ pc' = [pc EXCEPT ![v] = "idle"]
                               /\ request' = [request EXCEPT ![v] = None]
                               /\ outcome' = [outcome EXCEPT ![v] = None]
         \/ \E v \in Workers, r \in Requests :
              /\ pc' = [pc EXCEPT ![v] = "acquire"]
              /\ request' = [request EXCEPT ![v] = r]
              /\ UNCHANGED outcome
         \/ \E v \in Workers, step \in Steps \ {"conflict"} :
              pc' = [pc EXCEPT ![v] = step] /\ UNCHANGED <<request, outcome>>
         \/ \E v \in Workers : \E o : /\ pc' = [pc EXCEPT ![v] = "record"]
                                      /\ UNCHANGED request
                                      /\ outcome' = [outcome EXCEPT ![v] = o]
         \/ \E v \in Workers : FindConflict(v)
<1> DEFINE Ends(v) == /\ pc' = [pc EXCEPT ![v] = "idle"]
                      /\ request' = [request EXCEPT ![v] = None]
                      /\ outcome' = [outcome EXCEPT ![v] = None]
           Starts(v) == \E r \in Requests :
                          /\ pc' = [pc EXCEPT ![v] = "acquire"]
                          /\ request' = [request EXCEPT ![v] = r]
                          /\ UNCHANGED outcome
           Goes(v) == \E step \in Steps \ {"conflict"} :
                        pc' = [pc EXCEPT ![v] = step] /\ UNCHANGED <<request, outcome>>
           Records(v) == \E o : /\ pc' = [pc EXCEPT ![v] = "record"]
                                /\ UNCHANGED request
                                /\ outcome' = [outcome EXCEPT ![v] = o]
<1>1. ASSUME NEW w \in Workers, ApplyOnce(w)
      PROVE  Ends(w) \/ Goes(w) \/ Records(w) \/ FindConflict(w)
  <2>1. CASE Record(w) \/ RecordConflict(w) \/ RecordRefused(w) \/ RecordFails(w)
    BY <2>1, AnswerLeaves, Zenon DEF Record, RecordConflict, RecordRefused, RecordFails
  <2>2. CASE \/ AcquireBlocked(w) \/ AcquireMismatch(w) \/ AuthorizeRefused(w) \/ Replay(w)
    BY <2>2, Zenon DEF AcquireBlocked, AcquireMismatch, AuthorizeRefused, Replay, Reply
  <2>3. CASE AcquireExisting(w)
    <3>1. CASE Reply(w, "IDENTITY_CONFLICT", FALSE, None)
      BY <3>1, Zenon DEF Reply
    <3>2. CASE pc' = [pc EXCEPT ![w] = "replay"] /\ UNCHANGED <<request, outcome>>
      BY <3>2 DEF Steps
    <3> QED BY <2>3, <3>1, <3>2 DEF AcquireExisting
  <2>4. CASE AcquireClaim(w) \/ Authorize(w) \/ Dispatch(w)
    BY <2>4 DEF AcquireClaim, Authorize, Dispatch, Steps
  <2>5. CASE RejectOrder(w) \/ ReturnObservation(w) \/ ReturnUnknown(w) \/ ReturnPreDispatch(w)
    <3>1. PICK status, ref : Conclude(w, status, ref)
      BY <2>5, Zenon DEF RejectOrder, ReturnObservation, ReturnUnknown, ReturnPreDispatch
    <3> QED BY <3>1, Zenon DEF Conclude
  <2> QED BY <1>1, <2>1, <2>2, <2>3, <2>4, <2>5 DEF ApplyOnce
<1>2. ASSUME NEW w \in Workers, NEW r \in Requests, Start(w, r) PROVE Starts(w)
  BY <1>2, Zenon DEF Start
<1>3. ASSUME NEW w \in Workers, Interrupt(w) PROVE Ends(w)
  BY <1>3 DEF Interrupt
<1>4. CASE ~ \E w \in Workers : ApplyOnce(w) \/ Interrupt(w) \/ \E r \in Requests : Start(w, r)
  BY <1>4 DEF Next, vars, memory, Intake, Broker, BrokerReceives, SaveControl, Tick
<1> HIDE DEF Ends, Starts, Goes, Records
<1>5. CASE \E w \in Workers : ApplyOnce(w) \/ Interrupt(w) \/ \E r \in Requests : Start(w, r)
  <2>1. \E v \in Workers : Ends(v) \/ Starts(v) \/ Goes(v) \/ Records(v) \/ FindConflict(v)
    BY <1>1, <1>2, <1>3, <1>5, Zenon
  <2> QED BY <2>1, Zenon DEF Ends, Starts, Goes, Records
<1> QED BY <1>4, <1>5, Zenon

LEMMA NextAnswers ==
  ASSUME TypeOK, TypeOK', Safe, Safe', AnswersAreDurable, [Next]_vars
  PROVE  AnswersAreDurable'
<1>1. \A c \in Commands : /\ resolutions[c] # None => resolutions'[c] = resolutions[c]
                          /\ authorizations[c] # None => authorizations'[c] # None
  BY RowsStay
<1>2. ASSUME NEW w \in Workers, answer'[w] = answer[w], answer[w] # None
      PROVE  Backed(answer[w])'
  <2>1. answer[w].command \in Commands
    BY <1>2 DEF TypeOK, MemoryTypeOK, Answer
  <2> QED BY <1>1, <1>2, <2>1 DEF AnswersAreDurable, Backed
<1>3. CASE UNCHANGED answer
  BY <1>2, <1>3 DEF AnswersAreDurable
<1>4. ASSUME NEW w \in Workers, answer' = [answer EXCEPT ![w] = None]
      PROVE  AnswersAreDurable'
  <2>1. \A v \in Workers : answer'[v] # None => answer'[v] = answer[v]
    BY <1>4 DEF TypeOK, MemoryTypeOK
  <2> QED BY <1>2, <2>1 DEF AnswersAreDurable
<1>5. ASSUME NEW w \in Workers, NEW status, NEW token, NEW ref,
             pc[w] # "idle",
             Reply(w, status, token, ref),
             status = "OUTCOME_UNKNOWN" =>
               \/ Replay(w) /\ resolutions[request[w].command] # None
               \/ pc[w] \in {"record", "conflict"},
             status \in {"ACKNOWLEDGED", "BROKER_REJECTED"} =>
               LET r == resolutions'[request[w].command] IN
               r # None /\ r.status = status /\ r.reference = ref,
             status \in {"PRE_DISPATCH_FAILURE", "EXACT_REPLAY"} =>
               LET r == resolutions'[request[w].command] IN
               r # None /\ r.status = "PRE_EFFECT_BLOCKED"
      PROVE  AnswersAreDurable'
  <2> DEFINE c == request[w].command
             a == [status |-> status, command |-> c, token |-> token, reference |-> ref]
  <2>1. answer' = [answer EXCEPT ![w] = a]
    BY <1>5, Zenon DEF Reply
  <2>2. c \in Commands
    BY <1>5, RequestType DEF TypeOK
  <2>3. status = "OUTCOME_UNKNOWN" => authorizations[c] # None
    BY <1>5, <2>2 DEF Safe, Ledger, OwnerPhase, Owning
  <2>4. ASSUME answer'[w] # None PROVE Backed(answer[w])'
    <3>1. answer'[w] = a
      BY <2>1 DEF TypeOK, MemoryTypeOK
    <3> QED BY <1>1, <1>5, <2>2, <2>3, <3>1 DEF Backed
  <2>5. \A v \in Workers \ {w} : answer'[v] = answer[v]
    BY <2>1
  <2> QED BY <1>2, <2>4, <2>5 DEF AnswersAreDurable
<1> QED BY <1>3, <1>4, <1>5, AnswersGiven

\* A definite answer is durable before it is given, whatever fails, dies or
\* races: whatever a caller was told last, a later replay would tell the same
\* (AnswersAreDurable).
THEOREM DurableAnswers == Spec => []AnswersAreDurable
<1> DEFINE J == TypeOK /\ Safe /\ AnswersAreDurable
<1>1. Init => J
  BY InitType, InitSafe DEF Init, AnswersAreDurable
<1>2. J /\ [Next]_vars => J'
  BY NextType, NextSafe, NextAnswers
<1> QED BY <1>1, <1>2, PTL DEF Spec

LEMMA NextSteady ==
  ASSUME TypeOK, TypeOK', BindingsInv, Safe, Steady, [Next]_vars
  PROVE  Steady'
<1> USE DEF TypeOK
<1>1. /\ \A generation \in permitted' : generation <= control'.generation
      /\ control'.generation \in permitted' => Permits(control')
  <2>1. CASE UNCHANGED <<control, permitted>>
    BY <2>1 DEF Steady, Permits
  <2>2. ASSUME NEW setting \in ControlSettings, SaveControl(setting)
        PROVE  <1>1!:
    <3>1. /\ control.generation \in Nat
          /\ control'.generation = control.generation + 1
          /\ Permits(control') <=> Permits(setting)
      BY <2>2 DEF SaveControl, DurableTypeOK, Permits
    <3>2. \A generation \in permitted :
            generation \in Nat /\ generation <= control.generation
      BY DEF Steady, DurableTypeOK
    <3>3. CASE Permits(setting)
      <4>1. permitted' = permitted \cup {control.generation + 1}
        BY <2>2, <3>3 DEF SaveControl
      <4> QED BY <3>1, <3>2, <3>3, <4>1
    <3>4. CASE ~Permits(setting)
      <4>1. permitted' = permitted
        BY <2>2, <3>4 DEF SaveControl
      <4> QED BY <3>1, <3>2, <4>1
    <3> QED BY <3>3, <3>4
  <2>3. CASE ~ \E setting \in ControlSettings : SaveControl(setting)
    <3>1. UNCHANGED <<control, permitted>>
      BY <2>3 DEF Next, vars, durable, Intake, Broker, BrokerReceives, Tick, Start,
         Interrupt, ApplyOnce, AcquireExisting, AcquireBlocked, AcquireMismatch,
         AcquireClaim, Authorize, AuthorizeRefused, RejectOrder, Dispatch,
         ReturnObservation, ReturnUnknown, ReturnPreDispatch, Record, FindConflict,
         RecordConflict, RecordRefused, RecordFails, Replay
    <3> QED BY <2>1, <3>1
  <2> QED BY <2>2, <2>3
<1>2. ASSUME NEW w \in Workers, pc'[w] = "conflict"
      PROVE  /\ outcome'[w].owner # None
             /\ outcome'[w].owner # request'[w].command
             /\ brokerReferences'[outcome'[w].reference] = outcome'[w].owner
  <2> DEFINE c == request[w].command
             ref == outcome[w].reference
  <2>1. CASE pc[w] = "conflict" /\ outcome'[w] = outcome[w] /\ request'[w] = request[w]
    <3>1. /\ ref \in References
          /\ outcome[w].owner # None
          /\ outcome[w].owner # c
          /\ brokerReferences[ref] = outcome[w].owner
      BY <2>1 DEF Steady, BindingsInv, Attempted
    <3> QED BY <2>1, <3>1, RowsStay
  <2>2. CASE FindConflict(w)
    <3>1. /\ pc[w] = "record"
          /\ resolutions[c] = None
          /\ ~ReferenceFree(c, ref)
          /\ outcome'[w].reference = ref
          /\ outcome'[w].owner = ReportedOwner(c, ref)
          /\ UNCHANGED <<brokerReferences, request>>
      BY <2>2 DEF FindConflict, OutcomeStartValid, MemoryTypeOK, durable
    <3>2. c \in Commands /\ outcome[w] \in Resolution
      BY <3>1, RequestType DEF MemoryTypeOK
    <3>3. ~OwnsReference(c)
      BY <3>1, <3>2 DEF BindingsInv, Registered
    <3>4. ref \in References /\ brokerReferences[ref] # None
      BY <3>1, <3>2, <3>3 DEF ReferenceFree, Resolution
    <3>5. brokerReferences[ref] # c
      BY <3>3, <3>4 DEF OwnsReference
    <3> QED BY <3>1, <3>4, <3>5 DEF ReportedOwner
  <2>3. \/ pc[w] = "conflict" /\ outcome'[w] = outcome[w] /\ request'[w] = request[w]
        \/ FindConflict(w)
    <3>1. /\ pc \in [Workers -> Steps]
          /\ request \in [Workers -> Requests \cup {None}]
          /\ outcome \in [Workers -> Resolution \cup {None}]
      BY DEF MemoryTypeOK
    <3>2. CASE \/ UNCHANGED <<pc, request, outcome>>
               \/ \E v \in Workers : /\ pc' = [pc EXCEPT ![v] = "idle"]
                                     /\ request' = [request EXCEPT ![v] = None]
                                     /\ outcome' = [outcome EXCEPT ![v] = None]
               \/ \E v \in Workers, r \in Requests :
                    /\ pc' = [pc EXCEPT ![v] = "acquire"]
                    /\ request' = [request EXCEPT ![v] = r]
                    /\ UNCHANGED outcome
               \/ \E v \in Workers, step \in Steps \ {"conflict"} :
                    pc' = [pc EXCEPT ![v] = step] /\ UNCHANGED <<request, outcome>>
               \/ \E v \in Workers : \E o : /\ pc' = [pc EXCEPT ![v] = "record"]
                                            /\ UNCHANGED request
                                            /\ outcome' = [outcome EXCEPT ![v] = o]
      BY <1>2, <3>1, <3>2
    <3>3. CASE \E v \in Workers : FindConflict(v)
      <4>1. PICK v \in Workers : FindConflict(v)
        BY <3>3
      <4> QED BY <1>2, <3>1, <4>1 DEF FindConflict
    <3> QED BY <3>2, <3>3, WorkerSteps
  <2> QED BY <2>1, <2>2, <2>3
<1> QED BY <1>1, <1>2 DEF Steady

\* The recording transaction is refused only when the control moved on since the
\* claim or the approval ran out: everything else the final guard found, and the
\* owner that a conflict names, still stand.
LEMMA RefusalHasCause ==
  ASSUME TypeOK, Safe, BindingsInv, Steady, NEW w \in Workers, RecordRefused(w)
  PROVE  LET c == request[w].command IN
         control.generation # claims[c].generation \/ ~ApprovalValid(c, clock)
<1> DEFINE c == request[w].command
<1> SUFFICES ASSUME control.generation = claims[c].generation, ApprovalValid(c, clock)
             PROVE  FALSE
  OBVIOUS
<1>0. pc[w] \in {"record", "conflict"}
  BY DEF RecordRefused
<1>1. OutcomeStartValid(c)
  <2>1. c \in Commands /\ pc[w] \in Owning \ {"authorize"}
    BY <1>0, RequestType DEF Owning, TypeOK
  <2>2. claims[c] # None /\ resolutions[c] = None /\ authorizations[c] # None
    BY <2>1 DEF Safe, Elected, OwnerPhase
  <2>3. authorizations[c] = claims[c].generation /\ authorizations[c] \in permitted
    BY <2>1, <2>2 DEF Safe, Ledger
  <2>4. Permits(control)
    BY <2>3 DEF Steady
  <2>5. /\ aggregates[c].state = "DISPATCH_PENDING"
        /\ aggregates[c].revision = claims[c].revision
    BY <2>1, <2>2 DEF BindingsInv, StartupChecksPass, ClaimBindings
  <2> QED BY <2>2, <2>3, <2>4, <2>5 DEF OutcomeStartValid
<1>2. ASSUME pc[w] = "conflict" PROVE ConflictOwnerIsCurrent(c, outcome[w])
  BY <1>2 DEF Steady, ConflictOwnerIsCurrent
<1> QED BY <1>1, <1>2 DEF RecordRefused

\* A reason for a loss, once there, stays.
CauseOfLoss(c) ==
  \/ c \in raised
  \/ control.generation # claims[c].generation
  \/ ~ApprovalValid(c, clock)

CauseThen(c) ==
  \/ c \in raised'
  \/ control'.generation # claims'[c].generation
  \/ ~ApprovalValid(c, clock')

LEMMA CausesStay ==
  ASSUME TypeOK, TypeOK', Safe, BindingsInv, [Next]_vars,
         NEW c \in Commands, claims[c] # None, CauseOfLoss(c)
  PROVE  CauseThen(c)
<1> USE DEF TypeOK
<1>1. /\ raised \subseteq raised'
      /\ control.generation <= control'.generation
      /\ clock <= clock'
  <2>1. control.generation \in Nat /\ clock \in Nat
    BY DEF DurableTypeOK, EnvironmentTypeOK
  <2>2. /\ raised' = raised \/ \E w \in Workers : raised' = raised \cup {request[w].command}
        /\ control' = control \/ control'.generation = control.generation + 1
        /\ clock' = clock \/ clock' = clock + 1
    <3>1. ASSUME NEW w \in Workers, ApplyOnce(w) PROVE <2>2!:
      BY <3>1
         DEF ApplyOnce, AcquireExisting, AcquireBlocked, AcquireMismatch, AcquireClaim,
             Authorize, AuthorizeRefused, RejectOrder, Dispatch, ReturnObservation,
             ReturnUnknown, ReturnPreDispatch, Record, FindConflict, RecordConflict,
             RecordRefused, RecordFails, Replay, durable, environment
    <3>2. ASSUME NEW setting \in ControlSettings, SaveControl(setting) PROVE <2>2!:
      BY <3>2 DEF SaveControl, environment
    <3>3. CASE ~ (\E w \in Workers : ApplyOnce(w)) /\
               ~ (\E setting \in ControlSettings : SaveControl(setting))
      BY <3>3 DEF Next, vars, durable, environment, Intake, Broker, BrokerReceives, Tick,
         Start, Interrupt
    <3> QED BY <3>1, <3>2, <3>3
  <2> QED BY <2>1, <2>2
<1>2. /\ claims'[c] = claims[c]
      /\ claims[c].generation <= control.generation
      /\ claims[c].generation \in Nat
  BY RowsStay DEF BindingsInv, StartupChecksPass, ClaimBindings, DurableTypeOK, Claim
<1>3. /\ control.generation \in Nat /\ control'.generation \in Nat
      /\ clock \in Nat /\ clock' \in Nat /\ ApprovalExpiry[c] \in Nat
  BY ApprovalAssumption DEF DurableTypeOK, EnvironmentTypeOK
<1>4. CASE c \in raised
  BY <1>1, <1>4 DEF CauseOfLoss, CauseThen
<1>5. CASE control.generation # claims[c].generation
  BY <1>1, <1>2, <1>3, <1>5 DEF CauseOfLoss, CauseThen
<1>6. CASE ~ApprovalValid(c, clock)
  BY <1>1, <1>3, <1>6 DEF CauseOfLoss, CauseThen, ApprovalValid
<1> QED BY <1>4, <1>5, <1>6 DEF CauseOfLoss, CauseThen

LEMMA NextLoss ==
  ASSUME TypeOK, TypeOK', Safe, BindingsInv, Steady, AnswersAreDurable, LossHasCause,
         [Next]_vars
  PROVE  LossHasCause'
<1> DEFINE Kept(w) == /\ answer'[w] # None
                      /\ answer'[w].status = "OUTCOME_UNKNOWN"
                      /\ resolutions'[answer'[w].command] = None
                      => CauseThen(answer'[w].command)
<1>1. \A c \in Commands : resolutions[c] # None => resolutions'[c] # None
  BY RowsStay
<1>2. ASSUME NEW w \in Workers, answer'[w] = answer[w] PROVE Kept(w)
  <2> SUFFICES ASSUME answer[w] # None, answer[w].status = "OUTCOME_UNKNOWN",
                      resolutions'[answer[w].command] = None
               PROVE  CauseThen(answer[w].command)
    BY <1>2 DEF CauseOfLoss, CauseThen, ApprovalValid
  <2>1. answer[w].command \in Commands
    BY DEF TypeOK, MemoryTypeOK, Answer
  <2>2. CauseOfLoss(answer[w].command)
    BY <1>1, <2>1 DEF LossHasCause, CauseOfLoss, CauseThen
  <2>3. claims[answer[w].command] # None
    BY <2>1 DEF AnswersAreDurable, Backed, Safe, Ledger
  <2>4. ASSUME NEW c \in Commands, CauseOfLoss(c), claims[c] # None
        PROVE  CauseThen(c)
    BY <2>4, CausesStay
  <2> QED BY <1>2, <2>1, <2>2, <2>3, <2>4 DEF CauseOfLoss, CauseThen, ApprovalValid
<1>0. (\A w \in Workers : Kept(w)) => LossHasCause'
  BY DEF LossHasCause, CauseOfLoss, CauseThen, ApprovalValid
<1>3. CASE UNCHANGED answer
  BY <1>0, <1>2, <1>3
<1>4. ASSUME NEW w \in Workers, answer' = [answer EXCEPT ![w] = None]
      PROVE  LossHasCause'
  <2>1. \A v \in Workers : answer'[v] = None \/ answer'[v] = answer[v]
    BY <1>4 DEF TypeOK, MemoryTypeOK
  <2> QED BY <1>0, <1>2, <2>1
<1>5. ASSUME NEW w \in Workers, NEW status, NEW token, NEW ref,
             pc[w] # "idle",
             Reply(w, status, token, ref),
             status = "OUTCOME_UNKNOWN" =>
               \/ Replay(w) /\ resolutions[request[w].command] # None
               \/ pc[w] \in {"record", "conflict"}
                    /\ (Record(w) \/ RecordConflict(w) \/ RecordRefused(w) \/ RecordFails(w))
      PROVE  LossHasCause'
  <2> DEFINE c == request[w].command
             a == [status |-> status, command |-> c, token |-> token, reference |-> ref]
  <2>1. answer' = [answer EXCEPT ![w] = a]
    BY <1>5, Zenon DEF Reply
  <2>2. c \in Commands
    BY <1>5, RequestType DEF TypeOK
  <2>3. ASSUME Record(w) \/ RecordConflict(w) PROVE resolutions'[c] # None
    <3>1. resolutions' = [resolutions EXCEPT ![c] = outcome[w]]
      BY <2>3 DEF Record, RecordConflict, CommitOutcome
    <3>2. outcome[w] # None
      BY <2>3 DEF Record, RecordConflict, TypeOK, MemoryTypeOK
    <3> QED BY <2>2, <3>1, <3>2 DEF TypeOK, DurableTypeOK
  <2>4. ASSUME RecordRefused(w) PROVE CauseThen(c)
    <3>1. CauseOfLoss(c)
      BY <2>4, RefusalHasCause DEF CauseOfLoss, CauseThen
    <3>2. UNCHANGED <<raised, control, claims, clock>>
      BY <2>4 DEF RecordRefused, durable, environment
    <3> QED BY <3>1, <3>2 DEF CauseOfLoss, CauseThen, ApprovalValid
  <2>5. ASSUME RecordFails(w) PROVE CauseThen(c)
    BY <2>5 DEF RecordFails, CauseThen
  <2>6. status = "OUTCOME_UNKNOWN" => resolutions'[c] # None \/ CauseThen(c)
    BY <1>1, <1>5, <2>2, <2>3, <2>4, <2>5
  <2>7. answer'[w] = a
    BY <2>1 DEF TypeOK, MemoryTypeOK
  <2>8. a.command = c /\ a.status = status
    OBVIOUS
  <2>9. Kept(w)
    BY <2>6, <2>7, <2>8 DEF CauseOfLoss, CauseThen, ApprovalValid
  <2>10. \A v \in Workers \ {w} : answer'[v] = answer[v]
    BY <2>1 DEF TypeOK, MemoryTypeOK
  <2> QED BY <1>0, <1>2, <2>9, <2>10
<1>6. CASE \E w \in Workers : \E status, token, ref :
              /\ pc[w] # "idle"
              /\ Reply(w, status, token, ref)
              /\ status = "OUTCOME_UNKNOWN" =>
                   \/ Replay(w) /\ resolutions[request[w].command] # None
                   \/ pc[w] \in {"record", "conflict"}
                        /\ (Record(w) \/ RecordConflict(w) \/ RecordRefused(w) \/ RecordFails(w))
  BY <1>5, <1>6, Zenon
<1> QED BY <1>3, <1>4, <1>6, AnswersGiven, Zenon

\* When a caller was told that an outcome is unknown and no resolution is durable,
\* the recording transaction raised, or the control moved on since the claim, or
\* the approval ran out, and for no other reason (LossHasCause, ADR-009).
THEOREM LossIsExplained == Spec => []LossHasCause
<1> DEFINE J == Steady /\ LossHasCause
<1>1. Init => J
  <2> SUFFICES ASSUME Init PROVE J
    OBVIOUS
  <2>1. control.generation \notin permitted /\ permitted = {}
    BY DEF Init
  <2>2. \A w \in Workers : pc[w] = "idle" /\ answer[w] = None
    BY DEF Init
  <2> QED BY <2>1, <2>2 DEF Steady, LossHasCause
<1>2. /\ IInv /\ BindingsInv /\ AnswersAreDurable /\ J
      /\ IInv' /\ [Next]_vars
      => J'
  BY NextSteady, NextLoss DEF IInv, Safe
<1> QED BY <1>1, <1>2, Inductive, BindingsInductive, DurableAnswers, PTL DEF Spec

(***************************************************************************)
(* The durable protocol implements one-shot dispatch, for every value of   *)
(* the constants.  Every step outside four kinds is a stutter: a control   *)
(* update moves the gate, the final guard grants, the boundary call and    *)
(* the broker send and settle the order, and the recording transaction     *)
(* pronounces the verdict.                                                 *)
(***************************************************************************)

\* The abstract state as the refinement mapping gives it.
Granted == {c \in Commands : authorizations[c] # None}

Order == [c \in Commands |-> broker[c].state]

Verdict ==
  [c \in Commands |->
     IF resolutions[c] = None THEN "NONE" ELSE resolutions[c].status]

\* The refinement mapping sends the initial states to initial states.
LEMMA InitRefines == Init => OneShot!Init
<1> SUFFICES ASSUME Init PROVE OneShot!Init
  OBVIOUS
<1>1. Permits(control) = FALSE
  BY Zenon DEF Init, Permits
<1>2. Granted = {} /\ Order = [c \in Commands |-> "UNSENT"]
      /\ Verdict = [c \in Commands |-> "NONE"]
  BY DEF Init, Granted, Order, Verdict
<1> QED BY <1>1, <1>2 DEF OneShot!Init, Granted, Order, Verdict

\* A step that leaves control, authorizations, broker and resolutions alone
\* stutters.
LEMMA StutterRefines ==
  ASSUME UNCHANGED <<control, authorizations, broker, resolutions>>
  PROVE  UNCHANGED OneShot!vars
BY DEF OneShot!vars, Permits

\* An owner's command is granted, and neither verdict nor permit is missing.
LEMMA OwnerGranted ==
  ASSUME TypeOK, Safe, NEW w \in Workers, pc[w] \in Owning \ {"authorize"}
  PROVE  /\ request[w].command \in Commands
         /\ request[w].command \in Granted
         /\ Verdict[request[w].command] = "NONE"
<1>1. request[w].command \in Commands
  BY RequestType DEF TypeOK, Owning
<1>2. authorizations[request[w].command] # None
  BY DEF Safe, OwnerPhase
<1>3. resolutions[request[w].command] = None
  BY DEF Safe, Elected
<1> QED BY <1>1, <1>2, <1>3 DEF Granted, Verdict

\* The final guard grants authority while the control permits dispatch.
LEMMA AuthorizeRefines ==
  ASSUME TypeOK, Safe, NEW w \in Workers, Authorize(w)
  PROVE  OneShot!Next
<1>0. PICK c \in Commands : c = request[w].command
  BY RequestType DEF Authorize, TypeOK
<1>1. FinalGuard(c, now[w])
  BY <1>0 DEF Authorize
<1>2. Permits(control) /\ c \notin Granted
  BY <1>1 DEF FinalGuard, Granted
<1>3. /\ authorizations' = [authorizations EXCEPT ![c] = control.generation]
      /\ UNCHANGED <<control, broker, resolutions>>
  BY <1>0 DEF Authorize, environment
<1>4. control.generation # None
  BY NoneAssumption DEF TypeOK, DurableTypeOK
<1>5. Granted' = Granted \cup {c}
  BY <1>1, <1>3, <1>4 DEF Granted, TypeOK, DurableTypeOK
<1>6. UNCHANGED <<Permits(control), Order, Verdict>>
  BY <1>3 DEF Permits, Order, Verdict
<1>7. OneShot!Grant(c)
  BY <1>2, <1>5, <1>6 DEF OneShot!Grant, Granted, Order, Verdict
<1> QED BY <1>7 DEF OneShot!Next

\* A step of the broker variable alone changes the order alone.
LEMMA OrderMoves ==
  ASSUME TypeOK, NEW c \in Commands, NEW fate, NEW entry,
         entry.state = fate,
         broker' = [broker EXCEPT ![c] = entry],
         UNCHANGED <<control, authorizations, resolutions>>
  PROVE  /\ Order' = [Order EXCEPT ![c] = fate]
         /\ UNCHANGED <<Permits(control), Granted, Verdict>>
<1>1. Order' = [Order EXCEPT ![c] = fate]
  BY DEF Order, TypeOK, EnvironmentTypeOK
<1>2. UNCHANGED <<Permits(control), Granted, Verdict>>
  BY DEF Permits, Granted, Verdict
<1> QED BY <1>1, <1>2

\* The call of the boundary sends the order.
LEMMA DispatchRefines ==
  ASSUME TypeOK, Safe, NEW w \in Workers, Dispatch(w)
  PROVE  OneShot!Next
<1>0. PICK c \in Commands : c = request[w].command
  BY RequestType DEF Dispatch, TypeOK
<1>1. c \in Granted /\ Verdict[c] = "NONE"
  BY <1>0, OwnerGranted DEF Dispatch, Owning
<1>2. Order[c] = "UNSENT"
  BY <1>0 DEF Dispatch, Safe, OwnerPhase, Order
<1>3. /\ Order' = [Order EXCEPT ![c] = "IN_FLIGHT"]
      /\ UNCHANGED <<Permits(control), Granted, Verdict>>
  BY <1>0, OrderMoves DEF Dispatch, durable
<1>4. OneShot!Send(c)
  BY <1>1, <1>2, <1>3 DEF OneShot!Send, Granted, Order, Verdict
<1> QED BY <1>1, <1>4 DEF OneShot!Next

\* A failure before dispatch withdraws the order, no verdict being recorded.
LEMMA WithdrawRefines ==
  ASSUME TypeOK, Safe, NEW w \in Workers, ReturnPreDispatch(w)
  PROVE  OneShot!Next
<1>0. PICK c \in Commands : c = request[w].command
  BY RequestType DEF ReturnPreDispatch, TypeOK
<1>1. Verdict[c] = "NONE"
  BY <1>0, OwnerGranted DEF ReturnPreDispatch, Owning
<1>2. Order[c] = "IN_FLIGHT"
  BY <1>0 DEF ReturnPreDispatch, Order
<1>3. /\ Order' = [Order EXCEPT ![c] = "WITHDRAWN"]
      /\ UNCHANGED <<Permits(control), Granted, Verdict>>
  BY <1>0, OrderMoves DEF ReturnPreDispatch, durable
<1>4. OneShot!Settle(c, "WITHDRAWN")
  BY <1>1, <1>2, <1>3 DEF OneShot!Settle, Granted, Order, Verdict
<1> QED BY <1>1, <1>4 DEF OneShot!Next

\* The broker settles an order in flight.
LEMMA BrokerRefines ==
  ASSUME TypeOK, NEW c \in Commands, Broker(c)
  PROVE  OneShot!Next
<1>1. PICK fate \in {"ACCEPTED", "REJECTED"}, ref \in References :
        BrokerReceives(c, fate, ref)
  BY DEF Broker
<1>2. Order[c] = "IN_FLIGHT"
  BY <1>1 DEF BrokerReceives, Order
<1>3. /\ Order' = [Order EXCEPT ![c] = fate]
      /\ UNCHANGED <<Permits(control), Granted, Verdict>>
  BY <1>1, OrderMoves DEF BrokerReceives, durable
<1>4. OneShot!Settle(c, fate)
  BY <1>1, <1>2, <1>3 DEF OneShot!Settle, Granted, Order, Verdict
<1> QED BY <1>1, <1>4 DEF OneShot!Next

\* A truthful outcome is one the fate of the order allows.
LEMMA TruthfulRefines ==
  ASSUME TypeOK, NEW c \in Commands, NEW o \in Resolution, Truthful(c, o)
  PROVE  o.status \in OneShot!Truthful[Order[c]] /\ o.status # "NONE"
BY DEF Truthful, OneShot!Truthful, Order, Resolution, TypeOK,
       EnvironmentTypeOK, BrokerStates

\* The recording transaction pronounces the verdict.
LEMMA CommitRefines ==
  ASSUME TypeOK, Safe, NEW w \in Workers, pc[w] \in {"record", "conflict"},
         CommitOutcome(request[w].command, outcome[w]),
         UNCHANGED <<control, authorizations, broker>>
  PROVE  OneShot!Next
<1>0. PICK c \in Commands : c = request[w].command
  BY RequestType DEF TypeOK
<1>1. c \in Granted /\ Verdict[c] = "NONE"
  BY <1>0, OwnerGranted DEF Owning
<1>2. PICK o \in Resolution : o = outcome[w] /\ o # None
  BY NoneAssumption DEF TypeOK, MemoryTypeOK
<1>3. Truthful(c, o)
  BY <1>0, <1>2 DEF Safe, OwnerPhase
<1>4. o.status \in OneShot!Truthful[Order[c]]
  BY <1>1, <1>2, <1>3, TruthfulRefines
<1>5. resolutions' = [resolutions EXCEPT ![c] = o]
  BY <1>0, <1>2 DEF CommitOutcome
<1>6. Verdict' = [Verdict EXCEPT ![c] = o.status]
  BY <1>1, <1>2, <1>5 DEF Verdict, TypeOK, DurableTypeOK
<1>7. UNCHANGED <<Permits(control), Granted, Order>>
  BY DEF Permits, Granted, Order
<1>8. OneShot!Pronounce(c, o.status)
  BY <1>1, <1>4, <1>6, <1>7 DEF OneShot!Pronounce, Granted, Order, Verdict
<1> QED BY <1>4, <1>8 DEF OneShot!Next, Order

\* Each step of a call maps to a step of one-shot dispatch or a stutter.
LEMMA ApplyOnceRefines ==
  ASSUME TypeOK, Safe, NEW w \in Workers, ApplyOnce(w)
  PROVE  [OneShot!Next]_(OneShot!vars)
<1>1. CASE Authorize(w)
  BY <1>1, AuthorizeRefines
<1>2. CASE Dispatch(w)
  BY <1>2, DispatchRefines
<1>3. CASE ReturnPreDispatch(w)
  BY <1>3, WithdrawRefines
<1>4. CASE Record(w)
  BY <1>4, CommitRefines DEF Record, environment
<1>5. CASE RecordConflict(w)
  BY <1>5, CommitRefines DEF RecordConflict, environment
<1>6. CASE \/ AcquireExisting(w) \/ AcquireBlocked(w) \/ AcquireMismatch(w)
           \/ AuthorizeRefused(w) \/ RejectOrder(w) \/ ReturnObservation(w)
           \/ ReturnUnknown(w) \/ RecordRefused(w) \/ Replay(w)
  BY <1>6, StutterRefines, Zenon
     DEF AcquireExisting, AcquireBlocked, AcquireMismatch, AuthorizeRefused,
         RejectOrder, ReturnObservation, ReturnUnknown, RecordRefused,
         Replay, durable, environment
<1>7. CASE AcquireClaim(w) \/ FindConflict(w) \/ RecordFails(w)
  BY <1>7, StutterRefines DEF AcquireClaim, FindConflict, RecordFails, durable, environment
<1> QED BY <1>1, <1>2, <1>3, <1>4, <1>5, <1>6, <1>7 DEF ApplyOnce

\* Every step of the protocol maps to a step or a stutter.
LEMMA StepRefines ==
  TypeOK /\ Safe /\ [Next]_vars => [OneShot!Next]_(OneShot!vars)
<1> SUFFICES ASSUME TypeOK, Safe, [Next]_vars
             PROVE  [OneShot!Next]_(OneShot!vars)
  OBVIOUS
<1>1. ASSUME NEW c \in Commands, Intake(c)
      PROVE  UNCHANGED OneShot!vars
  BY <1>1, StutterRefines DEF Intake, environment
<1>2. ASSUME NEW c \in Commands, Broker(c) PROVE OneShot!Next
  BY <1>2, BrokerRefines
<1>3. ASSUME NEW setting \in ControlSettings, SaveControl(setting)
      PROVE  OneShot!Next
  <2>1. UNCHANGED <<Granted, Order, Verdict>>
    BY <1>3 DEF SaveControl, environment, Granted, Order, Verdict
  <2>2. Permits(control)' \in BOOLEAN
    BY DEF Permits
  <2> QED BY <2>1, <2>2
          DEF OneShot!Next, OneShot!MoveGate, Granted, Order, Verdict
<1>4. CASE Tick
  BY <1>4, StutterRefines DEF Tick, durable
<1>5. ASSUME NEW w \in Workers, NEW r \in Requests, Start(w, r)
      PROVE  UNCHANGED OneShot!vars
  BY <1>5, StutterRefines DEF Start, durable, environment
<1>6. ASSUME NEW w \in Workers, Interrupt(w) PROVE UNCHANGED OneShot!vars
  BY <1>6, StutterRefines DEF Interrupt, durable, environment
<1>7. ASSUME NEW w \in Workers, ApplyOnce(w)
      PROVE  [OneShot!Next]_(OneShot!vars)
  BY <1>7, ApplyOnceRefines
<1>8. CASE UNCHANGED vars
  BY <1>8, StutterRefines DEF vars, durable, environment
<1> QED BY <1>1, <1>2, <1>3, <1>4, <1>5, <1>6, <1>7, <1>8 DEF Next

\* The protocol implements one-shot dispatch (ImplementsOneShot): authority
\* is granted once, under an open gate, an order is sent once under it, and
\* the verdict recorded agrees with its fate and is never revised.
THEOREM Refinement == Spec => ImplementsOneShot
<1>1. Init => OneShot!Init
  BY InitRefines
<1>2. TypeOK /\ Safe /\ [Next]_vars => [OneShot!Next]_(OneShot!vars)
  BY StepRefines
<1>3. IInv => TypeOK /\ Safe
  BY DEF IInv, Safe
<1> QED BY <1>1, <1>2, <1>3, Inductive, PTL
        DEF Spec, ImplementsOneShot, OneShot!Spec

=============================================================================
