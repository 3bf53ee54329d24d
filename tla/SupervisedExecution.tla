------------------------ MODULE SupervisedExecution ------------------------
(***************************************************************************)
(* The in-process execution path: threads that snapshot the broker, ask    *)
(* ExecutionSupervisor.execute for one request each, and are taken by it    *)
(* through the preview and submission services to the broker.              *)
(*                                                                         *)
(* An action is what one thread does between two points where another      *)
(* thread, the broker or the clock may act: a section under a lock, a call *)
(* of the broker, a read of the clock, a publication.  Every publication   *)
(* runs in the caller's thread and may raise into the code that made it.   *)
(*                                                                         *)
(* The planner is a pure function of a frozen snapshot and a trade, so the *)
(* plan SubmitTradeService makes again is the one the preview made, and    *)
(* its drift check compares equal plans: neither has an action.            *)
(***************************************************************************)
EXTENDS Integers

CONSTANTS
  Threads,           \* callers of execute, sharing one supervisor
  Symbols,
  Prices,            \* entry, stop and target of a trade, as one value
  Keys,              \* idempotency keys
  Correlations,      \* correlation identities
  Sizes,             \* plans of a trade: their quantity, risk and value
  Requests,          \* the ExecutionRequests callers may present, each with
                     \* the size the account then affords it
  Unsound,           \* trades some other risk policy rejects
  RequireOpen,       \* MarketStatePolicy.require_open
  Window,            \* CooldownPolicy.window
  MaxClock,          \* bound on the clock
  MaxCalls,          \* bound on the calls of execute
  PublisherFails,    \* may a publication raise?
  BrokerRaises,      \* may submit_order raise, the order not placed?
  ResponseLost,      \* may submit_order raise, the order placed?
  Interruptions,     \* may a BaseException interrupt a workflow?
  None               \* no value

Trades ==
  [symbol : Symbols, prices : Prices, mode : {"PREVIEW_ONLY", "SUBMIT"}]

ASSUME RequestsAssumption ==
  /\ Requests \subseteq [key : Keys, correlation : Correlations,
                         trade : Trades, market : {"OPEN", "CLOSED"},
                         size : Sizes]
  /\ Unsound \subseteq Trades

ASSUME BoundsAssumption ==
  /\ Window \in Nat
  /\ MaxClock \in Nat
  /\ MaxCalls \in Nat

ASSUME ModesAssumption ==
  {RequireOpen, PublisherFails, BrokerRaises, ResponseLost, Interruptions}
    \subseteq BOOLEAN

Codes ==
  {"PREVIEW_COMPLETED", "EXECUTION_COMPLETED", "PREVIEW_REJECTED",
   "DUPLICATE_SUBMISSION", "BROKER_REJECTED", "BROKER_ERROR",
   "SUPERVISOR_ABORTED"}

ASSUME NoneAssumption ==
  /\ None \notin Requests
  /\ None \notin Codes
  /\ None \notin Nat
  /\ None \notin [trade : Trades, code : Codes]

VARIABLES
  \* ExecutionSupervisor, under _state_lock.
  activeSymbols,
  inFlightKeys,
  inFlightFingerprints,
  successfulFingerprints,
  completedByKey,
  lastSuccess,          \* by symbol
  \* SubmitTradeService, under _submission_lock.
  submittedRequests,
  inFlightRequests,
  \* The broker and the clock.
  clock,
  working,              \* open orders of each symbol
  held,                 \* symbols with a position
  placed,               \* orders the broker ever took for each trade
  lastOrder,            \* when it last took one for each symbol
  \* Each thread.
  pc,
  request,
  snapshot,             \* what the caller read of the broker
  now,                  \* the instant read before a lock is taken
  result,               \* the code of the result under construction
  announced,            \* terminal supervisor events delivered by this call
  calls                 \* calls begun

supervisor == <<activeSymbols, inFlightKeys, inFlightFingerprints,
                successfulFingerprints, completedByKey, lastSuccess>>
service == <<submittedRequests, inFlightRequests>>
brokerage == <<working, held, placed, lastOrder>>
local == <<request, snapshot, now, calls>>
vars == <<supervisor, service, clock, brokerage, pc, local, result, announced>>

Trade(t) == request[t].trade
Symbol(t) == request[t].trade.symbol

\* SubmitTradeRequest: its expected plan carries the size of the plan and the
\* correlation identity.
SubmitRequest(t) ==
  [trade |-> Trade(t), correlation |-> request[t].correlation,
   size |-> request[t].size]

SubmitRequests == [trade : Trades, correlation : Correlations, size : Sizes]
----------------------------------------------------------------------------
Init ==
  /\ activeSymbols = {}
  /\ inFlightKeys = {}
  /\ inFlightFingerprints = {}
  /\ successfulFingerprints = {}
  /\ completedByKey = [k \in Keys |-> None]
  /\ lastSuccess = [s \in Symbols |-> None]
  /\ submittedRequests = {}
  /\ inFlightRequests = {}
  /\ clock = 0
  /\ working = [s \in Symbols |-> 0]
  /\ held = {}
  /\ placed = [d \in Trades |-> 0]
  /\ lastOrder = [s \in Symbols |-> None]
  /\ pc = [t \in Threads |-> "idle"]
  /\ request = [t \in Threads |-> None]
  /\ snapshot = [t \in Threads |-> {}]
  /\ now = [t \in Threads |-> 0]
  /\ result = [t \in Threads |-> None]
  /\ announced = [t \in Threads |-> {}]
  /\ calls = 0

(***************************************************************************)
(* The clock and the broker.                                               *)
(***************************************************************************)
Tick ==
  /\ clock < MaxClock
  /\ clock' = clock + 1
  /\ UNCHANGED <<supervisor, service, brokerage, pc, local, result, announced>>

Fill(s) ==
  /\ working[s] > 0
  /\ working' = [working EXCEPT ![s] = @ - 1]
  /\ held' = held \cup {s}
  /\ UNCHANGED <<supervisor, service, clock, placed, lastOrder, pc, local,
                 result, announced>>

\* The stop or target leg closes the position.
Close(s) ==
  /\ s \in held
  /\ held' = held \ {s}
  /\ UNCHANGED <<supervisor, service, clock, working, placed, lastOrder, pc,
                 local, result, announced>>

(***************************************************************************)
(* The caller's snapshot: positions first, open orders second.             *)
(***************************************************************************)
ReadPositions(t, r) ==
  /\ pc[t] = "idle"
  /\ calls < MaxCalls
  /\ pc' = [pc EXCEPT ![t] = "orders"]
  /\ request' = [request EXCEPT ![t] = r]
  /\ snapshot' = [snapshot EXCEPT ![t] = held]
  /\ calls' = calls + 1
  /\ UNCHANGED <<supervisor, service, clock, brokerage, now, result, announced>>

ReadOpenOrders(t) ==
  /\ pc[t] = "orders"
  /\ pc' = [pc EXCEPT ![t] = "clock"]
  /\ snapshot' = [snapshot EXCEPT ![t] = @ \cup {s \in Symbols : working[s] > 0}]
  /\ UNCHANGED <<supervisor, service, clock, brokerage, request, now, calls,
                 result, announced>>

(***************************************************************************)
(* _admit: the clock is read before the lock is taken.                     *)
(***************************************************************************)
ReadClock(t) ==
  /\ pc[t] = "clock"
  /\ pc' = [pc EXCEPT ![t] = "admit"]
  /\ now' = [now EXCEPT ![t] = clock]
  /\ UNCHANGED <<supervisor, service, clock, brokerage, request, snapshot, calls,
                 result, announced>>

\* The policies of the supervisor, evaluated under its lock.
NotDuplicate(t) == Trade(t) \notin successfulFingerprints \cup inFlightFingerprints

SymbolFree(t) == Symbol(t) \notin activeSymbols

CooledDown(t) ==
  lastSuccess[Symbol(t)] # None => now[t] - lastSuccess[Symbol(t)] >= Window

MarketAllows(t) == RequireOpen => request[t].market = "OPEN"

\* Mutant: the active symbols are not consulted.
AdmissibleOverlapping(t) ==
  /\ completedByKey[request[t].key] = None
  /\ request[t].key \notin inFlightKeys
  /\ NotDuplicate(t)
  /\ CooledDown(t)
  /\ MarketAllows(t)

\* Mutant: a completed key is admitted again.
AdmissibleForgetful(t) ==
  /\ request[t].key \notin inFlightKeys
  /\ NotDuplicate(t)
  /\ SymbolFree(t)
  /\ CooledDown(t)
  /\ MarketAllows(t)

\* The key is neither completed nor in flight, and every policy agrees.
Admissible(t) ==
  /\ completedByKey[request[t].key] = None
  /\ request[t].key \notin inFlightKeys
  /\ NotDuplicate(t)
  /\ SymbolFree(t)
  /\ CooledDown(t)
  /\ MarketAllows(t)

Admit(t) ==
  /\ pc[t] = "admit"
  /\ Admissible(t)
  /\ activeSymbols' = activeSymbols \cup {Symbol(t)}
  /\ inFlightKeys' = inFlightKeys \cup {request[t].key}
  /\ inFlightFingerprints' = inFlightFingerprints \cup {Trade(t)}
  /\ pc' = [pc EXCEPT ![t] = "preview"]
  /\ UNCHANGED <<successfulFingerprints, completedByKey, lastSuccess, service,
                 clock, brokerage, local, result, announced>>

\* The call is over, whether it returns or raises.
Leave(t) ==
  /\ pc' = [pc EXCEPT ![t] = "idle"]
  /\ request' = [request EXCEPT ![t] = None]
  /\ snapshot' = [snapshot EXCEPT ![t] = {}]
  /\ now' = [now EXCEPT ![t] = 0]
  /\ result' = [result EXCEPT ![t] = None]
  /\ announced' = [announced EXCEPT ![t] = {}]
  /\ UNCHANGED calls

\* A replay of the completed result, or a skip: ExecutionSkipped is
\* published and nothing changes.
Skip(t) ==
  /\ pc[t] = "admit"
  /\ ~Admissible(t)
  /\ Leave(t)
  /\ UNCHANGED <<supervisor, service, clock, brokerage>>

(***************************************************************************)
(* _execute_services.                                                      *)
(***************************************************************************)
Goto(t, step, code) ==
  /\ pc' = [pc EXCEPT ![t] = step]
  /\ result' = [result EXCEPT ![t] = code]

\* The planner approves: no position or open order of the symbol in the
\* snapshot, and no other risk policy in the way.
PlanApproved(t) == Symbol(t) \notin snapshot[t] /\ Trade(t) \notin Unsound

\* Mutant: the mode of the request is not looked at.
PreviewIgnoringMode(t) ==
  /\ pc[t] = "preview"
  /\ \/ ~PlanApproved(t) /\ Goto(t, "reject", "PREVIEW_REJECTED")
     \/ PlanApproved(t) /\ Goto(t, "reserve", None)
  /\ UNCHANGED <<supervisor, service, clock, brokerage, local, announced>>

\* ExecutionStarted and the events of the preview are published.
Preview(t) ==
  /\ pc[t] = "preview"
  /\ \/ ~PlanApproved(t) /\ Goto(t, "reject", "PREVIEW_REJECTED")
     \/ /\ PlanApproved(t)
        /\ Trade(t).mode = "PREVIEW_ONLY"
        /\ Goto(t, "complete", "PREVIEW_COMPLETED")
     \/ /\ PlanApproved(t)
        /\ Trade(t).mode = "SUBMIT"
        /\ Goto(t, "reserve", None)
     \/ PublisherFails /\ Goto(t, "abort", None)
  /\ UNCHANGED <<supervisor, service, clock, brokerage, local, announced>>

\* _reserve_submission, a section under the lock that publishes the
\* rejection of a duplicate before it lets go of the lock.
Reserve(t) ==
  /\ pc[t] = "reserve"
  /\ SubmitRequest(t) \notin submittedRequests \cup inFlightRequests
  /\ inFlightRequests' = inFlightRequests \cup {SubmitRequest(t)}
  /\ Goto(t, "broker", None)
  /\ UNCHANGED <<supervisor, submittedRequests, clock, brokerage, local, announced>>

ReserveDuplicate(t) ==
  /\ pc[t] = "reserve"
  /\ SubmitRequest(t) \in submittedRequests \cup inFlightRequests
  /\ \/ Goto(t, "reject", "DUPLICATE_SUBMISSION")
     \/ PublisherFails /\ Goto(t, "abort", None)
  /\ UNCHANGED <<supervisor, service, clock, brokerage, local, announced>>

\* The broker takes the order.
Take(t) ==
  /\ working' = [working EXCEPT ![Symbol(t)] = @ + 1]
  /\ placed' = [placed EXCEPT ![Trade(t)] = @ + 1]
  /\ lastOrder' = [lastOrder EXCEPT ![Symbol(t)] = clock]
  /\ UNCHANGED held

CallBroker(t) ==
  /\ pc[t] = "broker"
  /\ \/ Take(t) /\ Goto(t, "announce", "EXECUTION_COMPLETED")
     \/ ResponseLost /\ Take(t) /\ Goto(t, "announce", "BROKER_ERROR")
     \/ UNCHANGED brokerage /\ Goto(t, "announce", "BROKER_REJECTED")
     \/ /\ BrokerRaises
        /\ UNCHANGED brokerage
        /\ Goto(t, "announce", "BROKER_ERROR")
  /\ UNCHANGED <<supervisor, service, clock, local, announced>>

\* TradeSubmitted and TradeFilled, a rejection or TradeFailed is published.
\* When the first of them raises the result is BROKER_ERROR, whatever the
\* broker did; when TradeFailed raises too there is no result (None).
Announce(t) ==
  /\ pc[t] = "announce"
  /\ \/ Goto(t, "release", result[t])
     \/ PublisherFails /\ Goto(t, "release", "BROKER_ERROR")
     \/ PublisherFails /\ Goto(t, "release", None)
  /\ UNCHANGED <<supervisor, service, clock, brokerage, local, announced>>

\* _release_submission.
Release(t) ==
  /\ pc[t] = "release"
  /\ inFlightRequests' = inFlightRequests \ {SubmitRequest(t)}
  /\ submittedRequests' = IF result[t] = "EXECUTION_COMPLETED"
                            THEN submittedRequests \cup {SubmitRequest(t)}
                            ELSE submittedRequests
  /\ Goto(t, CASE result[t] = "EXECUTION_COMPLETED" -> "complete"
               [] result[t] = None -> "abort"
               [] OTHER -> "reject",
          result[t])
  /\ UNCHANGED <<supervisor, clock, brokerage, local, announced>>

\* A terminal event is published.  A publication that raises may have been
\* delivered first; it leads to _publish_aborted with SUPERVISOR_ABORTED.
Publish(t, event) ==
  \/ /\ Goto(t, "clock out", result[t])
     /\ announced' = [announced EXCEPT ![t] = @ \cup {event}]
  \/ /\ PublisherFails
     /\ Goto(t, "abort", None)
     /\ \/ announced' = [announced EXCEPT ![t] = @ \cup {event}]
        \/ UNCHANGED announced

Complete(t) ==
  /\ pc[t] = "complete"
  /\ Publish(t, "ExecutionCompleted")
  /\ UNCHANGED <<supervisor, service, clock, brokerage, local>>

Reject(t) ==
  /\ pc[t] = "reject"
  /\ Publish(t, "ExecutionAborted")
  /\ UNCHANGED <<supervisor, service, clock, brokerage, local>>

\* except Exception: the result is SUPERVISOR_ABORTED even if publishing it
\* raises out of execute.
Abort(t) ==
  /\ pc[t] = "abort"
  /\ Goto(t, "clock out", "SUPERVISOR_ABORTED")
  /\ \/ announced' = [announced EXCEPT ![t] = @ \cup {"ExecutionAborted"}]
     \/ PublisherFails /\ UNCHANGED announced
  /\ UNCHANGED <<supervisor, service, clock, brokerage, local>>

\* A BaseException, not an Exception: it passes every handler and runs only
\* the finally blocks, the release of a reservation among them.
Interrupt(t) ==
  /\ Interruptions
  /\ \/ /\ pc[t] \in {"preview", "reserve", "complete", "reject"}
        /\ Goto(t, "clock out", None)
        /\ UNCHANGED <<service, brokerage>>
     \/ /\ pc[t] \in {"broker", "announce"}
        /\ inFlightRequests' = inFlightRequests \ {SubmitRequest(t)}
        /\ Goto(t, "clock out", None)
        /\ UNCHANGED <<submittedRequests, brokerage>>
     \/ /\ pc[t] = "abort"
        /\ Goto(t, "clock out", "SUPERVISOR_ABORTED")
        /\ UNCHANGED <<service, brokerage>>
  /\ UNCHANGED <<supervisor, clock, local, announced>>

(***************************************************************************)
(* _finish: again the clock is read before the lock is taken.              *)
(***************************************************************************)
\* Mutant: the instant of the admission is used again.
ClockOutStale(t) ==
  /\ pc[t] = "clock out"
  /\ pc' = [pc EXCEPT ![t] = "finish"]
  /\ UNCHANGED <<supervisor, service, clock, brokerage, local, result, announced>>

ClockOut(t) ==
  /\ pc[t] = "clock out"
  /\ pc' = [pc EXCEPT ![t] = "finish"]
  /\ now' = [now EXCEPT ![t] = clock]
  /\ UNCHANGED <<supervisor, service, clock, brokerage, request, snapshot, calls,
                 result, announced>>

\* Mutant: a workflow without a result returns before it lets go.
FinishReturningEarly(t) ==
  /\ pc[t] = "finish"
  /\ result[t] = None
  /\ Leave(t)
  /\ UNCHANGED <<supervisor, service, clock, brokerage>>

\* Mutant: the symbol is let go by successful workflows alone.
FinishHoldingFailures(t) ==
  /\ pc[t] = "finish"
  /\ activeSymbols' = IF result[t] = "EXECUTION_COMPLETED"
                        THEN activeSymbols \ {Symbol(t)} ELSE activeSymbols
  /\ inFlightKeys' = inFlightKeys \ {request[t].key}
  /\ inFlightFingerprints' = inFlightFingerprints \ {Trade(t)}
  /\ UNCHANGED <<completedByKey, successfulFingerprints, lastSuccess>>
  /\ Leave(t)
  /\ UNCHANGED <<service, clock, brokerage>>

\* Mutant: a workflow without a result is recorded like any other.
FinishRecordingAll(t) ==
  /\ pc[t] = "finish"
  /\ activeSymbols' = activeSymbols \ {Symbol(t)}
  /\ inFlightKeys' = inFlightKeys \ {request[t].key}
  /\ inFlightFingerprints' = inFlightFingerprints \ {Trade(t)}
  /\ completedByKey' = [completedByKey EXCEPT ![request[t].key] =
                           [trade |-> Trade(t), code |-> result[t]]]
  /\ UNCHANGED <<successfulFingerprints, lastSuccess>>
  /\ Leave(t)
  /\ UNCHANGED <<service, clock, brokerage>>

\* Mutant: the fingerprint of a submitted trade is not kept.
FinishForgetting(t) ==
  /\ pc[t] = "finish"
  /\ activeSymbols' = activeSymbols \ {Symbol(t)}
  /\ inFlightKeys' = inFlightKeys \ {request[t].key}
  /\ inFlightFingerprints' = inFlightFingerprints \ {Trade(t)}
  /\ completedByKey' = [completedByKey EXCEPT ![request[t].key] =
                           [trade |-> Trade(t), code |-> result[t]]]
  /\ UNCHANGED <<successfulFingerprints, lastSuccess>>
  /\ Leave(t)
  /\ UNCHANGED <<service, clock, brokerage>>

Finish(t) ==
  /\ pc[t] = "finish"
  /\ activeSymbols' = activeSymbols \ {Symbol(t)}
  /\ inFlightKeys' = inFlightKeys \ {request[t].key}
  /\ inFlightFingerprints' = inFlightFingerprints \ {Trade(t)}
  /\ completedByKey' =
       IF result[t] = None THEN completedByKey
       ELSE [completedByKey EXCEPT ![request[t].key] =
               [trade |-> Trade(t), code |-> result[t]]]
  /\ IF result[t] = "EXECUTION_COMPLETED"
       THEN /\ successfulFingerprints' = successfulFingerprints \cup {Trade(t)}
            /\ lastSuccess' = [lastSuccess EXCEPT ![Symbol(t)] = now[t]]
       ELSE UNCHANGED <<successfulFingerprints, lastSuccess>>
  /\ Leave(t)
  /\ UNCHANGED <<service, clock, brokerage>>
----------------------------------------------------------------------------
Execute(t) ==
  \/ ReadOpenOrders(t)
  \/ ReadClock(t)
  \/ Admit(t)
  \/ Skip(t)
  \/ Preview(t)
  \/ Reserve(t)
  \/ ReserveDuplicate(t)
  \/ CallBroker(t)
  \/ Announce(t)
  \/ Release(t)
  \/ Complete(t)
  \/ Reject(t)
  \/ Abort(t)
  \/ ClockOut(t)
  \/ Finish(t)

Next ==
  \/ Tick
  \/ \E s \in Symbols : Fill(s) \/ Close(s)
  \/ \E t \in Threads, r \in Requests : ReadPositions(t, r)
  \/ \E t \in Threads : Execute(t) \/ Interrupt(t)

Spec == Init /\ [][Next]_vars

\* A call that has begun runs on: locks are held over straight-line code,
\* and the broker, the publisher and the clock return or raise.
FairSpec == Spec /\ \A t \in Threads : WF_vars(Execute(t))
----------------------------------------------------------------------------
(***************************************************************************)
(* Properties.                                                             *)
(***************************************************************************)
Steps ==
  {"idle", "orders", "clock", "admit", "preview", "reserve", "broker",
   "announce", "release", "complete", "reject", "abort", "clock out", "finish"}

\* Steps of a workflow the supervisor has admitted and not yet finished.
Admitted == Steps \ {"idle", "orders", "clock", "admit"}

\* Steps under a reservation of the submission service.
Reserved == {"broker", "announce", "release"}

Workflows == {t \in Threads : pc[t] \in Admitted}
Reservations == {t \in Threads : pc[t] \in Reserved}

SupervisorTypeOK ==
  /\ activeSymbols \subseteq Symbols
  /\ inFlightKeys \subseteq Keys
  /\ inFlightFingerprints \subseteq Trades
  /\ successfulFingerprints \subseteq Trades
  /\ completedByKey \in [Keys -> [trade : Trades, code : Codes] \cup {None}]
  /\ lastSuccess \in [Symbols -> Nat \cup {None}]

ServiceTypeOK ==
  /\ submittedRequests \subseteq SubmitRequests
  /\ inFlightRequests \subseteq SubmitRequests

BrokerTypeOK ==
  /\ clock \in Nat
  /\ working \in [Symbols -> Nat]
  /\ held \subseteq Symbols
  /\ placed \in [Trades -> Nat]
  /\ lastOrder \in [Symbols -> Nat \cup {None}]

ThreadTypeOK ==
  /\ pc \in [Threads -> Steps]
  /\ request \in [Threads -> Requests \cup {None}]
  /\ snapshot \in [Threads -> SUBSET Symbols]
  /\ now \in [Threads -> Nat]
  /\ result \in [Threads -> Codes \cup {None}]
  /\ announced \in
       [Threads -> SUBSET {"ExecutionCompleted", "ExecutionAborted"}]
  /\ calls \in Nat
  /\ \A t \in Threads : request[t] = None <=> pc[t] = "idle"

\* Every variable keeps its type, and a thread holds a request exactly while
\* a call runs.
TypeOK == SupervisorTypeOK /\ ServiceTypeOK /\ BrokerTypeOK /\ ThreadTypeOK

\* Admitted workflows never overlap on a symbol, on an idempotency key or on
\* a fingerprint (ADR-0005: "guaranteeing that workflows for one symbol
\* never overlap", "An idempotency key is admitted once at a time").
NoOverlap ==
  \A t, u \in Workflows :
    t # u =>
      /\ Symbol(t) # Symbol(u)
      /\ request[t].key # request[u].key

\* The supervisor's sets hold what the running workflows took, no less and
\* no more, and the service's reservations likewise: no exception, whoever
\* raised it and wherever it was caught, leaves a symbol, a key, a
\* fingerprint or a reservation behind.
BooksBalance ==
  /\ activeSymbols = {Symbol(t) : t \in Workflows}
  /\ inFlightKeys = {request[t].key : t \in Workflows}
  /\ inFlightFingerprints = {Trade(t) : t \in Workflows}
  /\ inFlightRequests = {SubmitRequest(t) : t \in Reservations}

\* What the supervisor and the service remember as submitted was taken by
\* the broker, and a preview-only trade never is, under every failure.
SubmittedIsPlaced ==
  /\ \A d \in Trades : placed[d] > 0 => d.mode = "SUBMIT"
  /\ \A d \in successfulFingerprints : placed[d] > 0
  /\ \A r \in submittedRequests : placed[r.trade] > 0
  /\ \A k \in Keys :
       completedByKey[k] # None =>
         (completedByKey[k].code = "EXECUTION_COMPLETED" =>
            completedByKey[k].trade \in successfulFingerprints)

\* The completed result of a key is never replaced (ADR-0005: "an identical
\* request with the same key replays the original immutable result").
CompletedIsFinal ==
  [][\A k \in Keys :
       completedByKey[k] # None => completedByKey'[k] = completedByKey[k]]_vars

\* The broker takes at most one order for one trade fingerprint, whatever
\* the keys it is requested under (ADR-0005: DuplicateExecutionPolicy
\* "rejects a fingerprint that is currently active or has already submitted
\* successfully in this supervisor instance").
OneOrderPerTrade == \A d \in Trades : placed[d] <= 1

\* Two orders for one symbol are a cooldown window apart at the broker, though
\* both instants the window is measured between are read outside the lock.
CooldownKept ==
  [][\A d \in Trades :
       placed'[d] # placed[d] /\ lastOrder[d.symbol] # None =>
         clock - lastOrder[d.symbol] >= Window]_vars

\* A busy symbol is free again, however its workflow fails.
SymbolIsFreed ==
  \A s \in Symbols : s \in activeSymbols ~> s \notin activeSymbols

(***************************************************************************)
(* The inductive invariant behind the safety properties.                   *)
(***************************************************************************)
\* What a workflow has come to holds of its trade and of its key.
ProgressOf(t) ==
  /\ pc[t] \in {"reserve", "broker"} => Trade(t).mode = "SUBMIT"
  /\ pc[t] \notin Admitted => result[t] = None
  /\ result[t] = "EXECUTION_COMPLETED" => placed[Trade(t)] > 0
  /\ pc[t] \in Admitted => completedByKey[request[t].key] = None

Progress == \A t \in Threads : ProgressOf(t)

IInv == TypeOK /\ NoOverlap /\ BooksBalance /\ Progress /\ SubmittedIsPlaced

\* Every order the broker takes is answered as taken: no publication raises,
\* no answer is lost and no workflow is interrupted.
Dependable == ~PublisherFails /\ ~ResponseLost /\ ~Interruptions

\* Workflows whose order the broker took and the supervisor has not recorded.
Ordered == {t \in Threads : result[t] = "EXECUTION_COMPLETED"}

\* Steps of a workflow up to the call of the broker, and after an order taken.
BeforeOrder == {"preview", "reserve", "broker"}
AfterOrder == {"announce", "release", "complete", "clock out", "finish"}

\* A workflow whose order was taken is past the broker, and finishes at an
\* instant not before it; one before the broker was admitted on a trade not
\* yet submitted, a window after the last success of the symbol.
OrderingOf(t) ==
  /\ now[t] <= clock
  /\ t \in Ordered => pc[t] \in AfterOrder
  /\ t \in Ordered /\ pc[t] = "finish" /\ lastOrder[Symbol(t)] # None =>
       lastOrder[Symbol(t)] <= now[t]
  /\ pc[t] \in Admitted => Trade(t) \notin successfulFingerprints
  /\ pc[t] \in BeforeOrder => CooledDown(t)

\* Then an order is either remembered, at an instant not before it was taken,
\* or of a workflow yet to record it.
Orders ==
  /\ \A t \in Threads : OrderingOf(t)
  /\ \A d \in Trades :
       /\ placed[d] <= 1
       /\ placed[d] > 0 =>
            d \in successfulFingerprints \/ \E t \in Ordered : Trade(t) = d
  /\ \A s \in Symbols :
       lastOrder[s] # None =>
         /\ lastOrder[s] <= clock
         /\ \/ lastSuccess[s] # None /\ lastOrder[s] <= lastSuccess[s]
            \/ \E t \in Ordered : Symbol(t) = s

=============================================================================
