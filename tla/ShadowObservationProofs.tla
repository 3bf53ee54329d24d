----------------------- MODULE ShadowObservationProofs -----------------------
(***************************************************************************)
(* Proofs about ShadowObservation, for any observers, runs, requests and   *)
(* policy: what the harness holds only grows, an action is agreed on only  *)
(* if the run made its move, and no move of an evaluation is lost.         *)
(***************************************************************************)
EXTENDS ShadowObservation, FiniteSetTheorems, TLAPS

(***************************************************************************)
(* Counting what is held.                                                  *)
(***************************************************************************)

LEMMA CopiesFinite ==
  ASSUME NEW S, IsFiniteSet(S), NEW held, \A o \in S : held[o] \in Nat
  PROVE  IsFiniteSet(Copies(held, S))
<1> DEFINE f == [o \in S |-> {o} \X (1 .. held[o])]
           T == {f[o] : o \in S}
<1>1. IsFiniteSet(T)
  <2>1. f \in Surjection(S, T)
    BY DEF Surjection
  <2> HIDE DEF f, T
  <2> QED BY <2>1, FS_Surjection
<1>2. ASSUME NEW o \in S PROVE IsFiniteSet(f[o])
  <2>1. 1 \in Int /\ held[o] \in Int
    OBVIOUS
  <2>2. IsFiniteSet(1 .. held[o])
    BY <2>1, FS_Interval
  <2>3. IsFiniteSet({o})
    BY FS_Singleton
  <2>4. IsFiniteSet({o} \X (1 .. held[o]))
    BY <2>2, <2>3, FS_Product
  <2> QED BY <2>4
<1>3. IsFiniteSet(UNION T)
  <2>1. \A t \in T : IsFiniteSet(t)
    BY <1>2
  <2> HIDE DEF T
  <2> QED BY <1>1, <2>1, FS_UNION
<1>4. Copies(held, S) = UNION T
  BY DEF Copies
<1> QED BY <1>3, <1>4

\* More is held, and of more observations.
LEMMA CopiesGrow ==
  ASSUME NEW S, NEW T, S \subseteq T, NEW held, NEW later,
         \A o \in S : held[o] \in Nat /\ later[o] \in Nat /\ held[o] <= later[o]
  PROVE  Copies(held, S) \subseteq Copies(later, T)
BY DEF Copies

LEMMA CountGrows ==
  ASSUME NEW S, NEW T, S \subseteq T, IsFiniteSet(T), NEW held, NEW later,
         \A o \in S : held[o] \in Nat /\ held[o] <= later[o],
         \A o \in T : later[o] \in Nat
  PROVE  /\ Cardinality(Copies(held, S)) \in Nat
         /\ Cardinality(Copies(later, T)) \in Nat
         /\ Cardinality(Copies(held, S)) <= Cardinality(Copies(later, T))
<1>1. IsFiniteSet(Copies(later, T))
  BY CopiesFinite
<1>2. Copies(held, S) \subseteq Copies(later, T)
  BY CopiesGrow
<1>3. IsFiniteSet(Copies(held, S)) /\ Cardinality(Copies(held, S)) <= Cardinality(Copies(later, T))
  BY <1>1, <1>2, FS_Subset
<1> QED BY <1>1, <1>3, FS_CardinalityType

\* If a part counts as much as the whole, it is the whole.
LEMMA CountAll ==
  ASSUME NEW H, IsFiniteSet(H), NEW A, A \subseteq H, NEW held,
         \A o \in H : held[o] \in Nat \ {0},
         Cardinality(Copies(held, A)) = Cardinality(Copies(held, H))
  PROVE  A = H
<1>1. IsFiniteSet(Copies(held, H))
  BY CopiesFinite
<1>2. Copies(held, A) \subseteq Copies(held, H)
  BY CopiesGrow
<1>3. Copies(held, A) = Copies(held, H)
  BY <1>1, <1>2, FS_Subset
<1>4. ASSUME NEW o \in H PROVE o \in A
  <2>1. 1 \in 1 .. held[o]
    OBVIOUS
  <2>2. <<o, 1>> \in Copies(held, H)
    BY <2>1 DEF Copies
  <2>3. <<o, 1>> \in Copies(held, A)
    BY <2>2, <1>3
  <2> QED BY <2>3 DEF Copies
<1> QED BY <1>4

(***************************************************************************)
(* What the harness holds only grows.                                      *)
(***************************************************************************)

Grown ==
  /\ DOMAIN observations \subseteq DOMAIN observations'
  /\ \A o \in DOMAIN observations : observations[o] <= observations'[o]

LEMMA HeldIsAll ==
  ASSUME HeldOK
  PROVE  /\ Held = DOMAIN observations
         /\ IsFiniteSet(Held)
         /\ \A o \in Held : observations[o] \in Nat \ {0}
BY DEF HeldOK, Held

LEMMA RecordedGrows ==
  ASSUME HeldOK, NEW observation, observations' = Recorded(observations, observation)
  PROVE  /\ HeldOK' /\ Grown
         /\ DOMAIN observations' = DOMAIN observations \cup {observation}
<1>1. DOMAIN observations' = DOMAIN observations \cup {observation}
  BY DEF Recorded
<1>2. IsFiniteSet(DOMAIN observations')
  <2>1. IsFiniteSet(DOMAIN observations) /\ IsFiniteSet({observation})
    BY FS_Singleton DEF HeldOK
  <2> QED BY <1>1, <2>1, FS_Union
<1>3. \A o \in DOMAIN observations : observations[o] \in Nat \ {0}
  BY DEF HeldOK
<1>4. ASSUME NEW o \in DOMAIN observations'
      PROVE  /\ observations'[o] \in Nat \ {0}
             /\ o \in DOMAIN observations => observations[o] <= observations'[o]
  BY <1>1, <1>3 DEF Recorded
<1>5. observations' = [o \in DOMAIN observations' |-> observations'[o]]
  BY DEF Recorded
<1>6. observations' \in [DOMAIN observations' -> Nat \ {0}]
  BY <1>4, <1>5
<1> QED BY <1>1, <1>2, <1>4, <1>6 DEF HeldOK, Grown

LEMMA HeldStays ==
  ASSUME HeldOK, UNCHANGED observations
  PROVE  HeldOK' /\ Grown
BY DEF HeldOK, Grown

LEMMA HeldStep == HeldOK /\ [Next]_vars => HeldOK' /\ Grown
<1> SUFFICES ASSUME HeldOK, [Next]_vars PROVE HeldOK' /\ Grown
  OBVIOUS
<1>1. CASE UNCHANGED observations
  BY <1>1, HeldStays
<1>2. ASSUME NEW o \in Observers, Record(o) PROVE HeldOK' /\ Grown
  <2>1. PICK observation : observations' = Recorded(observations, observation)
    BY <1>2 DEF Record
  <2> QED BY <2>1, RecordedGrows
<1>3. UNCHANGED observations \/ \E o \in Observers : Record(o)
  BY DEF Next, vars, Ask, Load, Consider, Save, RecordCommand, PortFails, Leave
<1> QED BY <1>1, <1>2, <1>3

LEMMA ClassGrows ==
  ASSUME HeldOK, HeldOK', Grown, NEW class
  PROVE  /\ OfClass(class) \in Nat /\ OfClass(class)' \in Nat
         /\ OfClass(class) <= OfClass(class)'
<1> DEFINE S == {o \in Held : o.class = class}
           T == {o \in Held' : o.class = class}
<1>1. /\ Held = DOMAIN observations /\ Held' = DOMAIN observations'
      /\ IsFiniteSet(Held')
      /\ \A o \in Held : observations[o] \in Nat
      /\ \A o \in Held' : observations'[o] \in Nat
  BY HeldIsAll DEF HeldOK, Held
<1>2. S \subseteq T /\ T \subseteq Held'
  BY <1>1 DEF Grown
<1>3. IsFiniteSet(T)
  BY <1>1, <1>2, FS_Subset
<1>4. /\ \A o \in S : observations[o] \in Nat /\ observations[o] <= observations'[o]
      /\ \A o \in T : observations'[o] \in Nat
  BY <1>1, <1>2 DEF Grown
<1>5. /\ OfClass(class) = Cardinality(Copies(observations, S))
      /\ OfClass(class)' = Cardinality(Copies(observations', T))
  BY DEF OfClass, Count
<1> HIDE DEF S, T
<1> QED BY <1>2, <1>3, <1>4, <1>5, CountGrows

\* All results are matches if the matches count as much as all.
LEMMA AllMatch ==
  ASSUME HeldOK, OfClass("MATCH") = Total
  PROVE  \A o \in Held : o.class = "MATCH"
<1> DEFINE A == {o \in Held : o.class = "MATCH"}
<1>1. IsFiniteSet(Held) /\ \A o \in Held : observations[o] \in Nat \ {0}
  BY HeldIsAll
<1>2. Cardinality(Copies(observations, A)) = Cardinality(Copies(observations, Held))
  BY DEF OfClass, Total, Count
<1>3. A \subseteq Held
  OBVIOUS
<1> HIDE DEF A
<1>4. A = Held
  BY <1>1, <1>2, <1>3, CountAll
<1> QED BY <1>4 DEF A

LEMMA ClassesAreIn ==
  ASSUME HeldOK, \A o \in Held : o.class = "MATCH"
  PROVE  OfClass("MATCH") = Total
<1>1. {o \in Held : o.class = "MATCH"} = Held
  OBVIOUS
<1> QED BY <1>1 DEF OfClass, Total

\* The fingerprints of an identity are finitely many and stay.
LEMMA FingerprintsGrow ==
  ASSUME HeldOK, HeldOK', Grown, NEW identity
  PROVE  /\ IsFiniteSet(Fingerprints(identity)') /\ IsFiniteSet(Fingerprints(identity))
         /\ Fingerprints(identity) \subseteq Fingerprints(identity)'
<1>1. Held \subseteq Held' /\ IsFiniteSet(Held')
  BY HeldIsAll DEF HeldOK, Held, Grown
<1> DEFINE G == {o \in Held' : o.identity = identity}
           f == [o \in G |-> o.outcome]
           F == {o.outcome : o \in G}
<1>2. IsFiniteSet(G)
  <2>1. G \subseteq Held'
    OBVIOUS
  <2> HIDE DEF G
  <2> QED BY <1>1, <2>1, FS_Subset
<1>3. f \in Surjection(G, F)
  BY DEF Surjection
<1>4. IsFiniteSet(F)
  <2> HIDE DEF f, F, G
  <2> QED BY <1>2, <1>3, FS_Surjection
<1>5. Fingerprints(identity)' = F
  BY DEF Fingerprints, Group
<1>6. Fingerprints(identity) \subseteq F
  BY <1>1 DEF Fingerprints, Group
<1> HIDE DEF F
<1> QED BY <1>4, <1>5, <1>6, FS_Subset

\* The identities held are finitely many.
LEMMA GroupsGrow ==
  ASSUME HeldOK, HeldOK', Grown
  PROVE  IsFiniteSet(Groups') /\ Groups \subseteq Groups'
<1>1. Held \subseteq Held' /\ IsFiniteSet(Held')
  BY HeldIsAll DEF HeldOK, Held, Grown
<1> DEFINE H == Held'
           f == [o \in H |-> o.identity]
           G == {o.identity : o \in H}
<1>2. f \in Surjection(H, G)
  BY DEF Surjection
<1>3. IsFiniteSet(G)
  <2>1. IsFiniteSet(H)
    BY <1>1
  <2> HIDE DEF f, G, H
  <2> QED BY <1>2, <2>1, FS_Surjection
<1>4. Groups' = G /\ Groups \subseteq G
  BY <1>1 DEF Groups
<1> QED BY <1>3, <1>4

LEMMA ConflictsGrow ==
  ASSUME HeldOK, HeldOK', Grown
  PROVE  /\ Cardinality(Conflicting) \in Nat /\ Cardinality(Conflicting') \in Nat
         /\ Cardinality(Conflicting) <= Cardinality(Conflicting')
<1>1. Conflicting \subseteq Conflicting'
  <2> SUFFICES ASSUME NEW identity \in Conflicting PROVE identity \in Conflicting'
    OBVIOUS
  <2>1. identity \in Groups /\ Cardinality(Fingerprints(identity)) > 1
    BY DEF Conflicting
  <2>2. identity \in Groups'
    BY <2>1, GroupsGrow
  <2>3. /\ IsFiniteSet(Fingerprints(identity)') /\ IsFiniteSet(Fingerprints(identity))
        /\ Fingerprints(identity) \subseteq Fingerprints(identity)'
    BY FingerprintsGrow
  <2>4. Cardinality(Fingerprints(identity)) <= Cardinality(Fingerprints(identity)')
    BY <2>3, FS_Subset
  <2>5. /\ Cardinality(Fingerprints(identity)) \in Nat
        /\ Cardinality(Fingerprints(identity)') \in Nat
    BY <2>3, FS_CardinalityType
  <2>6. Cardinality(Fingerprints(identity)') > 1
    BY <2>1, <2>4, <2>5
  <2> QED BY <2>2, <2>6 DEF Conflicting
<1>2. IsFiniteSet(Conflicting')
  <2>1. Conflicting' \subseteq Groups'
    BY DEF Conflicting
  <2> QED BY <2>1, GroupsGrow, FS_Subset
<1>3. IsFiniteSet(Conflicting) /\ Cardinality(Conflicting) <= Cardinality(Conflicting')
  BY <1>1, <1>2, FS_Subset
<1> QED BY <1>2, <1>3, FS_CardinalityType

\* What excludes the next phase does so for good.
LEMMA ExcludedForGood ==
  ASSUME HeldOK, HeldOK', Grown, NothingExcludes'
  PROVE  NothingExcludes
<1>1. /\ Policy["conflicts"] \in Nat /\ Policy["errors"] \in Nat /\ Policy["invalid"] \in Nat
      /\ Policy["incomparable"] \in Nat /\ Policy["mismatches"] \in Nat
  BY ObservationAssumption
<1>2. Cardinality(Conflicting) <= Policy.conflicts
  BY <1>1, ConflictsGrow DEF NothingExcludes
<1>3. OfClass("QUALIFICATION_ERROR") <= Policy.errors
  BY <1>1, ClassGrows DEF NothingExcludes
<1>4. OfClass("INVALID_SHADOW_INPUT") <= Policy.invalid
  BY <1>1, ClassGrows DEF NothingExcludes
<1>5. OfClass("INCOMPARABLE") <= Policy.incomparable
  BY <1>1, ClassGrows DEF NothingExcludes
<1>6. OfClass("MISMATCH") <= Policy.mismatches
  BY <1>1, ClassGrows DEF NothingExcludes
<1>7. Held \subseteq Held'
  BY HeldIsAll DEF HeldOK, Held, Grown
<1>8. Policy.matchRatio => OfClass("MATCH") = Total
  <2> SUFFICES ASSUME Policy.matchRatio PROVE OfClass("MATCH") = Total
    OBVIOUS
  <2>1. OfClass("MATCH")' = Total'
    BY DEF NothingExcludes
  <2> DEFINE H == Held'
             A == {o \in H : o.class = "MATCH"}
  <2>2. A = H
    <3>1. IsFiniteSet(H) /\ \A o \in H : observations'[o] \in Nat \ {0}
      BY DEF HeldOK, Held
    <3>2. Cardinality(Copies(observations', A)) = Cardinality(Copies(observations', H))
      BY <2>1 DEF OfClass, Total, Count
    <3>3. A \subseteq H
      OBVIOUS
    <3> HIDE DEF A, H
    <3> QED BY <3>1, <3>2, <3>3, CountAll
  <2>3. \A o \in Held : o.class = "MATCH"
    BY <2>2, <1>7
  <2> QED BY <2>3, ClassesAreIn
<1>9. Seen \cap Policy.prohibited = {} /\ Seen \subseteq Policy.allowed
  <2>1. Seen \subseteq Seen'
    BY <1>7 DEF Seen
  <2>2. Seen' \cap Policy.prohibited = {} /\ Seen' \subseteq Policy.allowed
    BY DEF NothingExcludes
  <2> QED BY <2>1, <2>2
<1> QED BY <1>2, <1>3, <1>4, <1>5, <1>6, <1>8, <1>9 DEF NothingExcludes

(***************************************************************************)
(* What the calls carry.                                                   *)
(***************************************************************************)

\* A decision that is not accepted calls for no action, and an accepted one moves
\* the run by one revision.
LEMMA DecideShape ==
  ASSUME NEW run, NEW command, NEW prior, NEW decision,
         decision = Decide(run, command, prior)
  PROVE  IF decision.kind = "accepted"
         THEN decision.after.revision = decision.before.revision + 1
         ELSE decision.effects = {}
<1>1. ASSUME NEW code PROVE /\ Rejected(code, run).kind # "accepted"
                            /\ Rejected(code, run).effects = {}
  BY DEF Rejected, Decided
<1>2. /\ Replayed(prior, run, command).kind # "accepted"
      /\ Replayed(prior, run, command).effects = {}
  BY DEF Replayed, Rejected, Decided
<1>3. ASSUME NEW row
      PROVE  /\ Accepted(row, run, command).kind = "accepted"
             /\ Accepted(row, run, command).after.revision
                  = Accepted(row, run, command).before.revision + 1
  BY DEF Accepted, Decided, After
<1>4. \/ \E code : decision = Rejected(code, run)
      \/ decision = Replayed(prior, run, command)
      \/ \E row : decision = Accepted(row, run, command)
  BY Zenon DEF Decide
<1>5. ASSUME NEW code, decision = Rejected(code, run)
      PROVE  decision.kind # "accepted" /\ decision.effects = {}
  BY <1>1, <1>5
<1>6. ASSUME NEW row, decision = Accepted(row, run, command)
      PROVE  decision.kind = "accepted" /\ decision.after.revision = decision.before.revision + 1
  BY <1>3, <1>6
<1> QED BY <1>2, <1>4, <1>5, <1>6

LEMMA NoEffectNoAction ==
  ASSUME NEW decision, decision.effects = {}
  PROVE  ActionFor(decision) = "NO_RUNTIME_ACTION_REQUIRED"
BY DEF ActionFor

\* A result reports the revision its decision leads to and the action it calls
\* for; an error is no match.
LEMMA OutcomeShape ==
  ASSUME NEW request, NEW decision, NEW order
  PROVE  /\ Outcome(request, decision, order).status = "MATCH" =>
              /\ Outcome(request, decision, order).next = decision.after.revision
              /\ Outcome(request, decision, order).action = ActionFor(decision)
         /\ QualificationError(request).status # "MATCH"
<1>1. QualificationError(request).status = "QUALIFICATION_ERROR"
  BY DEF QualificationError
<1>2. /\ Compared(request, decision, order).next = decision.after.revision
      /\ Compared(request, decision, order).action = ActionFor(decision)
  BY DEF Compared
<1> QED BY <1>1, <1>2 DEF Outcome

LEMMA IdleIsACall ==
  /\ DOMAIN Idle = {"at", "request", "loaded", "decision", "outcome"}
  /\ Idle.at = "idle"
BY DEF Idle

LEMMA AnsweredCall ==
  ASSUME IInv, NEW o \in Observers, NEW outcome,
         calls[o].at # "idle", moves' = moves,
         Earned(outcome, calls[o].request.run, calls[o].request.key), Answered(o, outcome)
  PROVE  /\ DOMAIN calls' = Observers /\ CallOK(o)'
         /\ \A p \in Observers \ {o} : calls'[p] = calls[p]
         /\ calls[o].request.shadow => /\ calls'[o].at = "answered"
                                       /\ calls'[o].request = calls[o].request
                                       /\ calls'[o].outcome = outcome
<1>1. DOMAIN calls = Observers /\ calls[o].request.run \in Runs
  BY DEF IInv, CallOK
<1>2. DOMAIN calls' = Observers /\ \A p \in Observers \ {o} : calls'[p] = calls[p]
  BY <1>1 DEF Answered
<1> DEFINE call == [Idle EXCEPT !.at = "answered", !.request = calls[o].request,
                                !.outcome = outcome]
<1>3. /\ DOMAIN call = {"at", "request", "loaded", "decision", "outcome"}
      /\ call.at = "answered" /\ call.request = calls[o].request /\ call.outcome = outcome
  BY IdleIsACall
<1>4. calls'[o] = IF calls[o].request.shadow THEN call ELSE Idle
  BY <1>1 DEF Answered
<1> HIDE DEF call
<1>5. CASE calls[o].request.shadow
  <2>1. /\ calls'[o].at = "answered" /\ calls'[o].request = calls[o].request
        /\ calls'[o].outcome = outcome
        /\ DOMAIN calls'[o] = {"at", "request", "loaded", "decision", "outcome"}
    BY <1>3, <1>4, <1>5
  <2>2. outcome.status = "MATCH" /\ outcome.action # "NO_RUNTIME_ACTION_REQUIRED"
          => [run |-> calls[o].request.run, key |-> calls[o].request.key,
              next |-> outcome.next] \in moves'
    BY DEF Earned
  <2>3. CallOK(o)'
    BY <1>1, <2>1, <2>2 DEF CallOK, Earned
  <2> QED BY <1>2, <2>1, <2>3
<1>6. CASE ~calls[o].request.shadow
  BY <1>2, <1>4, <1>6, IdleIsACall DEF CallOK
<1> QED BY <1>2, <1>5, <1>6

\* A failure is an answer, and so is the result of a decision that called for no
\* action or whose run was saved; both carry the move that a saved call made.
LEMMA AnsweredKeeps ==
  ASSUME IInv, NEW o \in Observers, NEW decision, NEW order, NEW outcome,
         calls[o].at \notin {"idle", "answered"}, moves' = moves,
         calls[o].request.shadow =>
           IF calls[o].at = "saved" THEN decision = calls[o].decision
           ELSE decision.effects = {} \/ outcome = QualificationError(calls[o].request),
         outcome \in {Outcome(calls[o].request, decision, order),
                     QualificationError(calls[o].request)},
         Answered(o, outcome)
  PROVE  /\ DOMAIN calls' = Observers /\ CallOK(o)'
         /\ \A p \in Observers \ {o} : calls'[p] = calls[p]
         /\ \A move \in moves : Underway(move, o) => Underway(move, o)'
<1> DEFINE request == calls[o].request
<1>1. outcome.status = "MATCH" =>
        /\ outcome # QualificationError(request)
        /\ outcome.next = decision.after.revision
        /\ outcome.action = ActionFor(decision)
  BY OutcomeShape
<1>2. CASE ~request.shadow
  <2>1. DOMAIN calls = Observers
    BY DEF IInv
  <2>2. /\ DOMAIN calls' = Observers /\ calls'[o] = Idle
        /\ \A p \in Observers \ {o} : calls'[p] = calls[p]
    BY <1>2, <2>1 DEF Answered
  <2> QED BY <1>2, <2>2, IdleIsACall DEF CallOK, Underway
<1>3. CASE request.shadow
  <2>1. Earned(outcome, request.run, request.key)
    <3> SUFFICES ASSUME outcome.status = "MATCH",
                        outcome.action # "NO_RUNTIME_ACTION_REQUIRED"
                 PROVE  [run |-> request.run, key |-> request.key,
                         next |-> outcome.next] \in moves
      BY DEF Earned
    <3>1. calls[o].at = "saved" /\ decision = calls[o].decision
      BY <1>1, <1>3, NoEffectNoAction
    <3>2. Moved(request, decision) \in moves
      BY <1>3, <3>1 DEF IInv, CallOK
    <3> QED BY <1>1, <3>2 DEF Moved
  <2>2. /\ DOMAIN calls' = Observers /\ CallOK(o)'
        /\ \A p \in Observers \ {o} : calls'[p] = calls[p]
        /\ calls'[o].at = "answered" /\ calls'[o].request = request
        /\ calls'[o].outcome = outcome
    BY <1>3, <2>1, AnsweredCall
  <2>3. ASSUME NEW move \in moves, Underway(move, o) PROVE Underway(move, o)'
    BY <1>1, <1>3, <2>2, <2>3 DEF Underway
  <2> QED BY <2>2, <2>3
<1> QED BY <1>2, <1>3

\* A step of one call that adds no move keeps the others, and its own.
LEMMA MovesStay ==
  ASSUME MovesAreKept, HeldOK, HeldOK', Grown, NEW o \in Observers, moves' = moves,
         \A p \in Observers \ {o} : calls'[p] = calls[p],
         \A move \in moves :
           Underway(move, o) => Underway(move, o)' \/ \E x \in Held' : OnRecord(move, x)
  PROVE  MovesAreKept'
<1> SUFFICES ASSUME NEW move \in moves
             PROVE  \/ \E p \in Observers : Underway(move, p)'
                    \/ \E x \in Held' : OnRecord(move, x)
  BY DEF MovesAreKept
<1>1. CASE \E x \in Held : OnRecord(move, x)
  BY <1>1, HeldIsAll DEF HeldOK, Held, Grown
<1>2. ASSUME NEW p \in Observers, Underway(move, p)
      PROVE  \/ \E q \in Observers : Underway(move, q)'
             \/ \E x \in Held' : OnRecord(move, x)
  <2>1. CASE p = o
    BY <1>2, <2>1
  <2>2. CASE p # o
    BY <1>2, <2>2 DEF Underway
  <2> QED BY <2>1, <2>2
<1> QED BY <1>1, <1>2 DEF MovesAreKept

\* The other calls, while moves only grow.
LEMMA OthersStay ==
  ASSUME IInv, NEW o \in Observers, moves \subseteq moves', CallOK(o)',
         \A p \in Observers \ {o} : calls'[p] = calls[p]
  PROVE  \A p \in Observers : CallOK(p)'
<1>1. ASSUME NEW p \in Observers \ {o} PROVE CallOK(p)'
  BY <1>1 DEF IInv, CallOK, Earned
<1> QED BY <1>1

\* What is left to show of a step that records nothing.
LEMMA QuietStep ==
  ASSUME IInv, NEW o \in Observers, UNCHANGED observations,
         DOMAIN calls' = Observers, CallOK(o)', moves \subseteq moves', RunsOK',
         \A p \in Observers \ {o} : calls'[p] = calls[p],
         MovesAreKept'
  PROVE  IInv'
<1>1. HeldOK' /\ Held' = Held
  BY HeldStays DEF IInv, Held
<1>2. \A p \in Observers : CallOK(p)'
  BY OthersStay
<1>3. \A x \in Held' : x.class = "MATCH" =>
        x.outcome.status = "MATCH" /\ Earned(x.outcome, x.identity[1], x.identity[2])'
  BY <1>1 DEF IInv, Earned
<1> QED BY <1>1, <1>2, <1>3 DEF IInv

LEMMA RunsStay == ASSUME RunsOK, UNCHANGED <<runs, moves>> PROVE RunsOK'
BY DEF RunsOK

(***************************************************************************)
(* The steps.                                                              *)
(***************************************************************************)

\* A step in which a call that carries no move turns to another such state.
LEMMA EarlyStep ==
  ASSUME IInv, NEW o \in Observers, UNCHANGED <<observations, moves, runs>>,
         calls[o].at \notin {"saved", "answered"},
         DOMAIN calls' = Observers, CallOK(o)',
         \A p \in Observers \ {o} : calls'[p] = calls[p]
  PROVE  IInv'
<1>1. HeldOK' /\ Grown
  BY HeldStays DEF IInv
<1>2. \A move \in moves : ~Underway(move, o)
  BY DEF Underway
<1>3. MovesAreKept'
  BY <1>1, <1>2, MovesStay DEF IInv
<1>4. RunsOK'
  BY RunsStay DEF IInv
<1> QED BY <1>3, <1>4, QuietStep

LEMMA AskStep == ASSUME IInv, NEW o \in Observers, Ask(o) PROVE IInv'
<1>1. DOMAIN calls = Observers /\ CallOK(o)
  BY DEF IInv
<1>2. PICK request \in Asked, expected \in Nat :
        calls' = [calls EXCEPT ![o].at = "asked",
                               ![o].request = [request EXCEPT !.expected = expected]]
  <2>1. PICK request \in Asked : \E expected \in 0 .. runs[request.run].revision :
          calls' = [calls EXCEPT ![o].at = "asked",
                                 ![o].request = [request EXCEPT !.expected = expected]]
    BY DEF Ask
  <2>2. request.run \in Runs /\ runs[request.run].revision \in Nat
    BY ObservationAssumption DEF IInv, RunsOK
  <2>3. \A expected \in 0 .. runs[request.run].revision : expected \in Nat
    BY <2>2
  <2> QED BY <2>1, <2>3, Zenon
<1>3. [request EXCEPT !.expected = expected].run = request.run /\ request.run \in Runs
  BY ObservationAssumption DEF Nothing
<1>4. /\ DOMAIN calls' = Observers
      /\ DOMAIN calls'[o] = DOMAIN calls[o]
      /\ calls'[o].at = "asked" /\ calls'[o].request.run \in Runs
      /\ \A p \in Observers \ {o} : calls'[p] = calls[p]
  BY <1>1, <1>2, <1>3 DEF CallOK
<1>5. CallOK(o)'
  BY <1>1, <1>4 DEF CallOK
<1> QED BY <1>4, <1>5, EarlyStep DEF Ask

LEMMA FailedStep ==
  ASSUME IInv, NEW o \in Observers, Failed(o), UNCHANGED <<observations, moves, runs>>,
         calls[o].at \in {"asked", "loaded", "accepted", "saved"}
  PROVE  IInv'
<1>1. /\ DOMAIN calls' = Observers /\ CallOK(o)'
      /\ \A p \in Observers \ {o} : calls'[p] = calls[p]
      /\ \A move \in moves : Underway(move, o) => Underway(move, o)'
  BY AnsweredKeeps DEF Failed
<1>2. HeldOK' /\ Grown
  BY HeldStays DEF IInv
<1>3. MovesAreKept'
  BY <1>1, <1>2, MovesStay DEF IInv
<1>4. RunsOK'
  BY RunsStay DEF IInv
<1> QED BY <1>1, <1>3, <1>4, QuietStep

LEMMA PortFailsStep == ASSUME IInv, NEW o \in Observers, PortFails(o) PROVE IInv'
BY FailedStep DEF PortFails

LEMMA LoadStep == ASSUME IInv, NEW o \in Observers, Load(o) PROVE IInv'
<1>1. CASE Failed(o)
  BY <1>1, FailedStep DEF Load
<1>2. CASE ~Failed(o)
  <2>1. DOMAIN calls = Observers /\ CallOK(o) /\ calls[o].at = "asked"
    BY DEF IInv, Load
  <2>2. PICK run : calls' = [calls EXCEPT ![o].at = "loaded", ![o].loaded = run]
    BY <1>2 DEF Load
  <2>3. /\ DOMAIN calls' = Observers /\ CallOK(o)'
        /\ \A p \in Observers \ {o} : calls'[p] = calls[p]
    BY <2>1, <2>2 DEF CallOK
  <2> QED BY <2>1, <2>3, EarlyStep DEF Load
<1> QED BY <1>1, <1>2

LEMMA ConsiderStep == ASSUME IInv, NEW o \in Observers, Consider(o) PROVE IInv'
<1> DEFINE request == calls[o].request
           decision == Decide(calls[o].loaded, CommandOf(request),
                              records[<<request.run, request.key>>])
<1>1. /\ calls[o].at = "loaded" /\ UNCHANGED <<observations, moves, runs>>
      /\ IF decision.kind = "accepted"
         THEN calls' = [calls EXCEPT ![o].at = "accepted", ![o].decision = decision]
         ELSE \E order \in Described : Answered(o, Outcome(request, decision, order))
  BY DEF Consider
<1>2. IF decision.kind = "accepted"
      THEN decision.after.revision = decision.before.revision + 1
      ELSE decision.effects = {}
  BY DecideShape
<1> HIDE DEF decision
<1>3. DOMAIN calls = Observers /\ CallOK(o)
  BY DEF IInv
<1>4. CASE decision.kind = "accepted"
  <2>1. /\ DOMAIN calls' = Observers /\ CallOK(o)'
        /\ \A p \in Observers \ {o} : calls'[p] = calls[p]
    BY <1>1, <1>2, <1>3, <1>4 DEF CallOK
  <2> QED BY <1>1, <2>1, EarlyStep
<1>5. CASE decision.kind # "accepted"
  <2>1. PICK order : Answered(o, Outcome(request, decision, order))
    BY <1>1, <1>5
  <2>2. /\ DOMAIN calls' = Observers /\ CallOK(o)'
        /\ \A p \in Observers \ {o} : calls'[p] = calls[p]
    BY <1>1, <1>2, <1>5, <2>1, AnsweredKeeps
  <2> QED BY <1>1, <2>2, EarlyStep
<1> QED BY <1>4, <1>5

\* A move is made, to a revision no move led to before, and its call carries it.
LEMMA SaveStep == ASSUME IInv, NEW o \in Observers, Save(o) PROVE IInv'
<1> DEFINE request == calls[o].request
           decision == calls[o].decision
<1>0. PICK move : move = Moved(request, decision)
  OBVIOUS
<1>1. calls[o].at = "accepted" /\ UNCHANGED observations
  BY DEF Save
<1>2. DOMAIN calls = Observers /\ CallOK(o) /\ HeldOK /\ MovesAreKept /\ RunsOK
  BY DEF IInv
<1>3. CASE Failed(o) /\ UNCHANGED <<moves, runs>>
  BY <1>1, <1>3, FailedStep
<1>4. CASE /\ calls' = [calls EXCEPT ![o].at = "saved"]
           /\ runs[request.run].revision = decision.before.revision
           /\ runs' = [runs EXCEPT ![request.run] = decision.after]
           /\ moves' = IF request.shadow THEN moves \cup {move} ELSE moves
  <2>1. /\ DOMAIN calls' = Observers
        /\ DOMAIN calls'[o] = DOMAIN calls[o]
        /\ \A p \in Observers \ {o} : calls'[p] = calls[p]
        /\ calls'[o].at = "saved" /\ calls'[o].request = request
        /\ calls'[o].decision = decision
    BY <1>2, <1>4 DEF CallOK
  <2>2. HeldOK' /\ Held' = Held
    BY <1>1, <1>2, HeldStays DEF Held
  <2>3. ASSUME NEW m \in moves
        PROVE  (\E p \in Observers : Underway(m, p)') \/ \E x \in Held' : OnRecord(m, x)
    <3>1. ASSUME NEW p \in Observers, Underway(m, p) PROVE p # o
      BY <1>1, <3>1 DEF Underway
    <3>2. ASSUME NEW p \in Observers, Underway(m, p) PROVE Underway(m, p)'
      BY <3>1, <3>2, <2>1 DEF Underway
    <3> QED BY <3>2, <2>2, <1>2 DEF MovesAreKept
  <2>4. request.shadow => Underway(move, o)'
    BY <1>0, <2>1 DEF Underway, Moved
  <2>5. MovesAreKept'
    <3> SUFFICES ASSUME NEW m \in moves'
                 PROVE  (\E p \in Observers : Underway(m, p)') \/ \E x \in Held' : OnRecord(m, x)
      BY DEF MovesAreKept
    <3>1. m \in moves \/ (request.shadow /\ m = move)
      BY <1>4
    <3>2. CASE m \in moves
      BY <3>2, <2>3
    <3>3. CASE request.shadow /\ m = move
      <4>1. Underway(m, o)'
        BY <3>3, <2>4
      <4> QED BY <4>1
    <3> QED BY <3>1, <3>2, <3>3
  <2>6. /\ request.run \in Runs
        /\ decision.after.revision = runs[request.run].revision + 1
        /\ runs[request.run].revision \in Nat
    BY <1>1, <1>2, <1>4 DEF CallOK, RunsOK
  <2>7. CallOK(o)'
    <3>1. request.shadow => Moved(request, decision) \in moves'
      BY <1>0, <1>4
    <3>2. decision.after.revision = decision.before.revision + 1
      BY <1>1, <1>2 DEF CallOK
    <3> QED BY <1>2, <2>1, <2>6, <3>1, <3>2 DEF CallOK
  <2>8. RunsOK'
    <3>1. /\ move.run = request.run /\ move.key = request.key
          /\ move.next = runs[request.run].revision + 1
      BY <1>0, <2>6 DEF Moved
    <3>2. /\ DOMAIN runs' = Runs
          /\ runs'[request.run].revision = runs[request.run].revision + 1
          /\ \A run \in Runs \ {request.run} : runs'[run] = runs[run]
      BY <1>2, <1>4, <2>6 DEF RunsOK
    <3>3. \A run \in Runs : /\ runs'[run].revision \in Nat
                            /\ runs[run].revision <= runs'[run].revision
      BY <1>2, <2>6, <3>2 DEF RunsOK
    <3>4. moves' \subseteq moves \cup {move}
      BY <1>4
    <3>5. ASSUME NEW m \in moves'
          PROVE  m.run \in Runs /\ m.next \in Nat /\ m.next <= runs'[m.run].revision
      <4>1. CASE m = move
        BY <4>1, <2>6, <3>1, <3>2
      <4>2. CASE m \in moves
        BY <4>2, <1>2, <3>3 DEF RunsOK
      <4> QED BY <3>4, <4>1, <4>2
    <3>6. ASSUME NEW m \in moves, m.run = move.run PROVE m.next # move.next
      BY <1>2, <2>6, <3>1, <3>6 DEF RunsOK
    <3>7. ASSUME NEW m \in moves', NEW n \in moves', m.run = n.run, m.next = n.next
          PROVE  m.key = n.key
      <4>1. CASE m \in moves /\ n \in moves
        BY <1>2, <3>7, <4>1 DEF RunsOK
      <4>2. CASE m = move /\ n = move
        BY <4>2
      <4>3. ~(m \in moves /\ n = move) /\ ~(m = move /\ n \in moves)
        BY <3>6, <3>7
      <4> QED BY <3>4, <4>1, <4>2, <4>3
    <3> QED BY <3>2, <3>3, <3>5, <3>7 DEF RunsOK
  <2>9. moves \subseteq moves'
    BY <1>4
  <2> QED BY <1>1, <2>1, <2>5, <2>7, <2>8, <2>9, QuietStep
<1> QED BY <1>0, <1>3, <1>4 DEF Save

LEMMA RecordCommandStep == ASSUME IInv, NEW o \in Observers, RecordCommand(o) PROVE IInv'
<1>1. PICK order :
        /\ calls[o].at = "saved" /\ UNCHANGED <<observations, moves, runs>>
        /\ Answered(o, Outcome(calls[o].request, calls[o].decision, order))
  BY DEF RecordCommand
<1>2. /\ DOMAIN calls' = Observers /\ CallOK(o)'
      /\ \A p \in Observers \ {o} : calls'[p] = calls[p]
      /\ \A move \in moves : Underway(move, o) => Underway(move, o)'
  BY <1>1, AnsweredKeeps
<1>3. HeldOK' /\ Grown
  BY <1>1, HeldStays DEF IInv
<1>4. MovesAreKept'
  BY <1>1, <1>2, <1>3, MovesStay DEF IInv
<1>5. RunsOK'
  BY <1>1, RunsStay DEF IInv
<1> QED BY <1>1, <1>2, <1>4, <1>5, QuietStep

\* What a call carried is on record, as a match only if it was one.
LEMMA RecordStep == ASSUME IInv, NEW o \in Observers, Record(o) PROVE IInv'
<1> DEFINE request == calls[o].request
           outcome == calls[o].outcome
           x == Classified(request, outcome)
<1>1. /\ calls[o].at \in {"answered", "recorded"} /\ UNCHANGED <<moves, runs>>
      /\ observations' = Recorded(observations, x)
      /\ calls' = [calls EXCEPT ![o].at = "recorded"]
  BY DEF Record
<1>2. DOMAIN calls = Observers /\ CallOK(o) /\ HeldOK /\ MovesAreKept
  BY DEF IInv
<1>3. /\ DOMAIN calls' = Observers /\ CallOK(o)'
      /\ \A p \in Observers \ {o} : calls'[p] = calls[p]
  BY <1>1, <1>2 DEF CallOK, Earned
<1>4. /\ x.class = "MATCH" => outcome.status = "MATCH"
      /\ x.outcome = outcome
      /\ x.identity[1] = request.run /\ x.identity[2] = request.key
  BY DEF Classified, Identity
<1>5. x.class = "MATCH" =>
        x.outcome.status = "MATCH" /\ Earned(x.outcome, x.identity[1], x.identity[2])
  BY <1>1, <1>2, <1>4 DEF CallOK
<1>6. \A move \in moves : Underway(move, o) => OnRecord(move, x)
  BY <1>1, <1>4 DEF Underway, OnRecord
<1> HIDE DEF x
<1>7. HeldOK' /\ Grown /\ DOMAIN observations' = DOMAIN observations \cup {x}
  BY <1>1, <1>2, RecordedGrows
<1>8. Held' = Held \cup {x}
  <2>1. Held = DOMAIN observations
    BY <1>2, HeldIsAll
  <2>2. Held' = DOMAIN observations'
    BY <1>7 DEF HeldOK, Held
  <2> QED BY <1>7, <2>1, <2>2
<1>9. MovesAreKept'
  BY <1>1, <1>2, <1>3, <1>6, <1>7, <1>8, MovesStay
<1>10. \A p \in Observers : CallOK(p)'
  BY <1>1, <1>3, OthersStay
<1>11. \A y \in Held' : y.class = "MATCH" =>
         y.outcome.status = "MATCH" /\ Earned(y.outcome, y.identity[1], y.identity[2])'
  BY <1>1, <1>5, <1>8 DEF IInv, Earned
<1>12. RunsOK'
  BY <1>1, RunsStay DEF IInv
<1> QED BY <1>3, <1>7, <1>9, <1>10, <1>11, <1>12 DEF IInv

LEMMA LeaveStep == ASSUME IInv, NEW o \in Observers, Leave(o) PROVE IInv'
<1>1. DOMAIN calls = Observers
  BY DEF IInv
<1>2. /\ DOMAIN calls' = Observers /\ CallOK(o)'
      /\ \A p \in Observers \ {o} : calls'[p] = calls[p]
  BY <1>1, IdleIsACall DEF Leave, CallOK
<1> QED BY <1>2, EarlyStep DEF Leave

LEMMA InitHolds == Init => IInv
<1> SUFFICES ASSUME Init PROVE IInv
  OBVIOUS
<1>1. DOMAIN observations = {} /\ observations = [o \in {} |-> 0]
  BY DEF Init
<1>2. HeldOK /\ Held = {}
  BY <1>1, FS_EmptySet DEF HeldOK, Held
<1>3. DOMAIN calls = Observers /\ \A o \in Observers : CallOK(o)
  BY IdleIsACall DEF Init, CallOK
<1>4. MovesAreKept
  BY DEF Init, MovesAreKept
<1>5. RunsOK
  <2>1. Absent.revision \in Nat
    BY DEF Absent
  <2>2. runs \in [Runs -> {Absent} \cup [state : States, result : Results, revision : Nat]]
    BY ObservationAssumption DEF Init
  <2>3. \A run \in Runs : runs[run].revision \in Nat
    BY <2>1, <2>2
  <2>4. moves = {}
    BY DEF Init
  <2> QED BY <2>2, <2>3, <2>4 DEF RunsOK
<1> QED BY <1>2, <1>3, <1>4, <1>5 DEF IInv

LEMMA StepHolds == IInv /\ [Next]_vars => IInv'
<1> SUFFICES ASSUME IInv, [Next]_vars PROVE IInv'
  OBVIOUS
<1>1. CASE UNCHANGED vars
  BY <1>1 DEF vars, IInv, HeldOK, Held, CallOK, Earned, RunsOK, MovesAreKept, Underway
<1>2. CASE Next
  BY <1>2, AskStep, LoadStep, ConsiderStep, SaveStep, RecordCommandStep, PortFailsStep,
     RecordStep, LeaveStep DEF Next
<1> QED BY <1>1, <1>2

(***************************************************************************)
(* The theorems.                                                           *)
(***************************************************************************)

\* In every reachable state each move an evaluation made is under way in its call
\* or on record, each result that agrees on an action is of such a move, and no two
\* moves of a run lead to one revision.
THEOREM Invariance == Spec => []IInv
<1> QED BY InitHolds, StepHolds, PTL DEF Spec

\* An action is agreed on only if the run made its move, under the key of that
\* evaluation, and never under two keys, whatever orders facades describe and
\* however evaluations and deliveries race and fail (AgreedActionsAreMoves).
THEOREM AgreementIsEarned == Spec => []AgreedActionsAreMoves
<1>1. IInv => AgreedActionsAreMoves
  <2> SUFFICES ASSUME IInv PROVE AgreedActionsAreMoves
    OBVIOUS
  <2>1. ASSUME NEW o \in Agreed PROVE MoveOf(o) \in moves
    <3>1. /\ o \in Held /\ o.class = "MATCH"
          /\ o.outcome.action # "NO_RUNTIME_ACTION_REQUIRED"
      BY DEF Agreed
    <3>2. o.outcome.status = "MATCH" /\ Earned(o.outcome, o.identity[1], o.identity[2])
      BY <3>1 DEF IInv
    <3> QED BY <3>1, <3>2 DEF Earned, MoveOf
  <2>2. ASSUME NEW o \in Agreed, NEW p \in Agreed,
               MoveOf(o).run = MoveOf(p).run, MoveOf(o).next = MoveOf(p).next
        PROVE  MoveOf(o).key = MoveOf(p).key
    BY <2>1, <2>2 DEF IInv, RunsOK
  <2> QED BY <2>1, <2>2 DEF AgreedActionsAreMoves
<1> QED BY <1>1, Invariance, PTL

\* A policy that asks for nothing but matches.
Strict == Policy.matchRatio

\* Under such a policy, with no evaluation under way, "ready" accounts for every
\* move the evaluations made of the runs, those of failed calls included.
THEOREM ReadinessAccounts == Strict => (Spec => []ReadyAccountsForRuns)
<1> SUFFICES ASSUME Strict PROVE Spec => []ReadyAccountsForRuns
  OBVIOUS
<1>1. IInv => ReadyAccountsForRuns
  <2> SUFFICES ASSUME IInv, Decision = "READY_FOR_NEXT_PHASE",
                      \A o \in Observers : calls[o].at = "idle",
                      NEW move \in moves
               PROVE  \E o \in Held :
                        /\ o.class = "MATCH"
                        /\ o.outcome.next = move.next
                        /\ o.identity[1] = move.run /\ o.identity[2] = move.key
    BY DEF ReadyAccountsForRuns
  <2>1. NothingExcludes
    BY DEF Decision
  <2>2. \A o \in Held : o.class = "MATCH"
    BY <2>1, AllMatch DEF NothingExcludes, Strict, IInv
  <2>3. \A o \in Observers : ~Underway(move, o)
    BY DEF Underway
  <2>4. PICK o \in Held : OnRecord(move, o)
    BY <2>3 DEF IInv, MovesAreKept
  <2> QED BY <2>2, <2>4 DEF OnRecord
<1> QED BY <1>1, Invariance, PTL

\* What excludes the next phase excludes it for good: later evidence never makes up
\* for an error, a conflict or a mismatch on record.
THEOREM ExclusionIsFinal == Spec => NotReadyIsFinal
<1>1. IInv /\ [Next]_vars => [Decision = "NOT_READY" => Decision' = "NOT_READY"]_vars
  <2> SUFFICES ASSUME IInv, [Next]_vars, Decision = "NOT_READY"
               PROVE  Decision' = "NOT_READY"
    OBVIOUS
  <2>1. ~NothingExcludes
    BY DEF Decision
  <2>2. HeldOK /\ HeldOK' /\ Grown
    BY HeldStep DEF IInv
  <2>3. ~NothingExcludes'
    BY <2>1, <2>2, ExcludedForGood
  <2> QED BY <2>3 DEF Decision
<1> QED BY <1>1, Invariance, PTL DEF Spec, NotReadyIsFinal

=============================================================================
