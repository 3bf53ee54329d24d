--------------------- MODULE SupervisedExecutionProofs ---------------------
(***************************************************************************)
(* Theorems of SupervisedExecution for any number of threads, symbols,     *)
(* keys and requests, any bound, and every combination of the faults.      *)
(***************************************************************************)
EXTENDS SupervisedExecution, TLAPS

(***************************************************************************)
(* Type correctness.                                                       *)
(***************************************************************************)
\* The parts of a request that a running call uses have their types.
LEMMA RequestType ==
  ASSUME TypeOK, NEW t \in Threads, pc[t] # "idle"
  PROVE  /\ request[t] \in Requests
         /\ request[t].key \in Keys
         /\ Trade(t) \in Trades
         /\ Symbol(t) \in Symbols
         /\ SubmitRequest(t) \in SubmitRequests
<1>1. request[t] \in Requests
  BY DEF TypeOK, ThreadTypeOK
<1>2. request[t] \in [key : Keys, correlation : Correlations,
                      trade : Trades, market : {"OPEN", "CLOSED"},
                      size : Sizes]
  BY <1>1, RequestsAssumption
<1> QED BY <1>1, <1>2 DEF Trade, Symbol, SubmitRequest, SubmitRequests,
     Trades

\* Leaving a call keeps the types of a thread's memory.
LEMMA LeaveType ==
  ASSUME ThreadTypeOK, NEW t \in Threads, Leave(t)
  PROVE  ThreadTypeOK'
BY DEF ThreadTypeOK, Leave, Steps

\* A step inside a call keeps the types of a thread's memory.
LEMMA GotoType ==
  ASSUME ThreadTypeOK, NEW t \in Threads, pc[t] # "idle",
         NEW step \in Steps \ {"idle"}, NEW code \in Codes \cup {None},
         Goto(t, step, code), UNCHANGED local,
         announced' \in
           [Threads -> SUBSET {"ExecutionCompleted", "ExecutionAborted"}]
  PROVE  ThreadTypeOK'
BY DEF ThreadTypeOK, Goto, local

LEMMA InitType == Init => TypeOK
BY BoundsAssumption
   DEF Init, TypeOK, SupervisorTypeOK, ServiceTypeOK, BrokerTypeOK,
       ThreadTypeOK, Steps

LEMMA NextType == TypeOK /\ [Next]_vars => TypeOK'
<1> SUFFICES ASSUME TypeOK, [Next]_vars PROVE TypeOK'
  OBVIOUS
<1> USE DEF TypeOK
<1>1. CASE Tick
  BY <1>1 DEF Tick, supervisor, service, brokerage, local, SupervisorTypeOK,
       ServiceTypeOK, BrokerTypeOK, ThreadTypeOK
<1>2. ASSUME NEW s \in Symbols, Fill(s) \/ Close(s) PROVE TypeOK'
  BY <1>2 DEF Fill, Close, supervisor, service, local, SupervisorTypeOK,
       ServiceTypeOK, BrokerTypeOK, ThreadTypeOK
<1>3. ASSUME NEW t \in Threads, NEW r \in Requests, ReadPositions(t, r)
      PROVE  TypeOK'
  <2>1. r # None
    BY NoneAssumption
  <2>2. /\ held \in SUBSET Symbols
        /\ calls + 1 \in Nat
    BY DEF BrokerTypeOK, ThreadTypeOK
  <2>3. ThreadTypeOK'
    BY <1>3, <2>1, <2>2 DEF ReadPositions, ThreadTypeOK, Steps
  <2> QED BY <1>3, <2>3 DEF ReadPositions, supervisor, service, brokerage,
       SupervisorTypeOK, ServiceTypeOK, BrokerTypeOK
<1>4. ASSUME NEW t \in Threads, Execute(t) PROVE TypeOK'
  <2>0. pc[t] # "idle"
    BY <1>4 DEF Execute, ReadOpenOrders, ReadClock, Admit, Skip, Preview,
         Reserve, ReserveDuplicate, CallBroker, Announce, Release, Complete,
         Reject, Abort, ClockOut, Finish
  <2>r. /\ request[t].key \in Keys
        /\ Trade(t) \in Trades
        /\ Symbol(t) \in Symbols
        /\ SubmitRequest(t) \in SubmitRequests
    BY <2>0, RequestType
  <2>1. CASE ReadOpenOrders(t)
    <3>1. ThreadTypeOK'
      BY <2>1 DEF ReadOpenOrders, ThreadTypeOK, Steps
    <3> QED BY <2>1, <3>1 DEF ReadOpenOrders, supervisor, service, brokerage,
         SupervisorTypeOK, ServiceTypeOK, BrokerTypeOK
  <2>2. CASE ReadClock(t) \/ ClockOut(t)
    <3>1. ThreadTypeOK'
      BY <2>2 DEF ReadClock, ClockOut, ThreadTypeOK, BrokerTypeOK, Steps
    <3> QED BY <2>2, <3>1 DEF ReadClock, ClockOut, supervisor, service,
         brokerage, SupervisorTypeOK, ServiceTypeOK, BrokerTypeOK
  <2>3. CASE Admit(t)
    <3>1. ThreadTypeOK'
      BY <2>3 DEF Admit, ThreadTypeOK, local, Steps
    <3> QED BY <2>3, <3>1, <2>r DEF Admit, service, brokerage,
         SupervisorTypeOK, ServiceTypeOK, BrokerTypeOK
  <2>4. CASE Skip(t)
    BY <2>4, LeaveType DEF Skip, supervisor, service, brokerage,
       SupervisorTypeOK, ServiceTypeOK, BrokerTypeOK
  <2>5. CASE Preview(t) \/ ReserveDuplicate(t) \/ Announce(t)
    <3>1. PICK step \in Steps \ {"idle"}, code \in Codes \cup {None} :
            Goto(t, step, code)
      BY <2>5 DEF Preview, ReserveDuplicate, Announce, Steps, Codes,
           ThreadTypeOK
    <3>2. UNCHANGED <<supervisor, service, clock, brokerage, local, announced>>
      BY <2>5 DEF Preview, ReserveDuplicate, Announce
    <3>3. ThreadTypeOK'
      BY <2>0, <3>1, <3>2, GotoType DEF ThreadTypeOK
    <3> QED BY <3>2, <3>3 DEF supervisor, service, brokerage,
         SupervisorTypeOK, ServiceTypeOK, BrokerTypeOK
  <2>6. CASE Reserve(t)
    <3>1. ThreadTypeOK'
      BY <2>0, <2>6, GotoType DEF Reserve, ThreadTypeOK, Steps
    <3> QED BY <2>6, <2>r, <3>1 DEF Reserve, supervisor, brokerage,
         SupervisorTypeOK, ServiceTypeOK, BrokerTypeOK
  <2>7. CASE CallBroker(t)
    <3>1. PICK code \in Codes : Goto(t, "announce", code)
      BY <2>7 DEF CallBroker, Codes
    <3>2. ThreadTypeOK'
      BY <2>0, <2>7, <3>1, GotoType DEF CallBroker, ThreadTypeOK, Steps
    <3>3. BrokerTypeOK'
      BY <2>7, <2>r DEF CallBroker, Take, brokerage, BrokerTypeOK
    <3> QED BY <2>7, <3>2, <3>3 DEF CallBroker, supervisor, service,
         SupervisorTypeOK, ServiceTypeOK
  <2>8. CASE Release(t)
    <3>1. PICK step \in Steps \ {"idle"} : Goto(t, step, result[t])
      BY <2>8 DEF Release, Steps
    <3>2. ThreadTypeOK'
      BY <2>0, <2>8, <3>1, GotoType DEF Release, ThreadTypeOK
    <3> QED BY <2>8, <2>r, <3>2 DEF Release, supervisor, brokerage,
         SupervisorTypeOK, ServiceTypeOK, BrokerTypeOK
  <2>9. CASE Complete(t) \/ Reject(t) \/ Abort(t)
    <3>1. PICK step \in Steps \ {"idle"}, code \in Codes \cup {None} :
            Goto(t, step, code)
      BY <2>9 DEF Complete, Reject, Abort, Publish, Steps, Codes, ThreadTypeOK
    <3>2. announced' \in
            [Threads -> SUBSET {"ExecutionCompleted", "ExecutionAborted"}]
      <4>1. PICK events \in SUBSET {"ExecutionCompleted", "ExecutionAborted"} :
              \/ announced' = [announced EXCEPT ![t] = @ \cup events]
              \/ announced' = announced
        BY <2>9 DEF Complete, Reject, Abort, Publish
      <4>2. announced[t] \cup events
              \in SUBSET {"ExecutionCompleted", "ExecutionAborted"}
        BY DEF ThreadTypeOK
      <4> QED BY <4>1, <4>2 DEF ThreadTypeOK
    <3>3. UNCHANGED <<supervisor, service, clock, brokerage, local>>
      BY <2>9 DEF Complete, Reject, Abort
    <3>4. ThreadTypeOK'
      BY <2>0, <3>1, <3>2, <3>3, GotoType
    <3> QED BY <3>3, <3>4 DEF supervisor, service, brokerage,
         SupervisorTypeOK, ServiceTypeOK, BrokerTypeOK
  <2>10. CASE Finish(t)
    <3>1. ThreadTypeOK'
      BY <2>10, LeaveType DEF Finish
    <3>2. result[t] # None =>
            [trade |-> Trade(t), code |-> result[t]]
              \in [trade : Trades, code : Codes]
      BY <2>r DEF ThreadTypeOK
    <3>3. completedByKey' \in
            [Keys -> [trade : Trades, code : Codes] \cup {None}]
      BY <2>10, <2>r, <3>2 DEF Finish, SupervisorTypeOK
    <3>4. SupervisorTypeOK'
      BY <2>10, <2>r, <3>3 DEF Finish, SupervisorTypeOK, ThreadTypeOK
    <3> QED BY <2>10, <3>1, <3>4 DEF Finish, service, brokerage,
         ServiceTypeOK, BrokerTypeOK
  <2> QED
    BY <1>4, <2>1, <2>2, <2>3, <2>4, <2>5, <2>6, <2>7, <2>8, <2>9, <2>10
    DEF Execute
<1>5. ASSUME NEW t \in Threads, Interrupt(t) PROVE TypeOK'
  <2>1. pc[t] # "idle"
    BY <1>5 DEF Interrupt
  <2>2. PICK code \in Codes \cup {None} : Goto(t, "clock out", code)
    BY <1>5 DEF Interrupt, Codes
  <2>3. ThreadTypeOK'
    BY <1>5, <2>1, <2>2, GotoType DEF Interrupt, ThreadTypeOK, Steps
  <2> QED BY <1>5, <2>3 DEF Interrupt, supervisor, service, brokerage,
       SupervisorTypeOK, ServiceTypeOK, BrokerTypeOK
<1>6. CASE UNCHANGED vars
  BY <1>6 DEF vars, supervisor, service, brokerage, local, SupervisorTypeOK,
       ServiceTypeOK, BrokerTypeOK, ThreadTypeOK
<1> QED BY <1>1, <1>2, <1>3, <1>4, <1>5, <1>6 DEF Next

\* Every variable keeps its type, for every value of the constants.
THEOREM TypeCorrect == Spec => []TypeOK
BY InitType, NextType, PTL DEF Spec

(***************************************************************************)
(* The books of the supervisor and of the submission service.              *)
(***************************************************************************)
\* A step of one thread that neither admits nor finishes a workflow, neither
\* takes nor releases a reservation, and leaves the books alone.
LEMMA StepBooks ==
  ASSUME ThreadTypeOK, NoOverlap, BooksBalance,
         NEW t \in Threads, NEW step \in Steps,
         pc' = [pc EXCEPT ![t] = step],
         step \in Admitted <=> pc[t] \in Admitted,
         step \in Reserved <=> pc[t] \in Reserved,
         \A u \in Threads : pc[u] \in Admitted => request'[u] = request[u],
         UNCHANGED <<activeSymbols, inFlightKeys, inFlightFingerprints,
                     inFlightRequests>>
  PROVE  NoOverlap' /\ BooksBalance'
<1>1. Workflows' = Workflows
  BY DEF Workflows, ThreadTypeOK
<1>2. Reservations' = Reservations
  BY DEF Reservations, ThreadTypeOK
<1>3. \A u \in Workflows : request'[u] = request[u]
  BY DEF Workflows
<1>4. Reservations \subseteq Workflows
  BY DEF Reservations, Workflows, Reserved, Admitted, Steps
<1>5. NoOverlap'
  BY <1>1, <1>3 DEF NoOverlap, Symbol
<1>6. /\ {Symbol(u)' : u \in Workflows} = {Symbol(u) : u \in Workflows}
      /\ {request'[u].key : u \in Workflows} = {request[u].key : u \in Workflows}
      /\ {Trade(u)' : u \in Workflows} = {Trade(u) : u \in Workflows}
  BY <1>3 DEF Symbol, Trade
<1>7. {SubmitRequest(u)' : u \in Reservations}
        = {SubmitRequest(u) : u \in Reservations}
  BY <1>3, <1>4 DEF SubmitRequest, Trade
<1> QED BY <1>1, <1>2, <1>5, <1>6, <1>7 DEF BooksBalance

\* A workflow moves on and takes or releases its reservation.
LEMMA ReservationBooks ==
  ASSUME TypeOK, NoOverlap, BooksBalance,
         NEW t \in Threads, NEW step \in Admitted,
         pc[t] \in Admitted,
         pc' = [pc EXCEPT ![t] = step],
         UNCHANGED <<request, activeSymbols, inFlightKeys,
                     inFlightFingerprints>>,
         \/ /\ step \in Reserved
            /\ inFlightRequests' = inFlightRequests \cup {SubmitRequest(t)}
         \/ /\ step \notin Reserved
            /\ inFlightRequests' = inFlightRequests \ {SubmitRequest(t)}
  PROVE  NoOverlap' /\ BooksBalance'
<1>1. Workflows' = Workflows
  BY DEF Workflows, TypeOK, ThreadTypeOK, Admitted, Steps
<1>2. NoOverlap'
  BY <1>1 DEF NoOverlap, Symbol
<1>3. \A u \in Reservations : u # t => SubmitRequest(u) # SubmitRequest(t)
  <2> SUFFICES ASSUME NEW u \in Reservations, u # t
               PROVE  Symbol(u) # Symbol(t)
    BY DEF SubmitRequest, Symbol, Trade
  <2>1. u \in Workflows /\ t \in Workflows
    BY DEF Reservations, Workflows, Reserved, Admitted, Steps
  <2> QED BY <2>1 DEF NoOverlap
<1>4. inFlightRequests' = {SubmitRequest(u) : u \in Reservations'}
  <2>1. CASE step \in Reserved
    <3>1. Reservations' = Reservations \cup {t}
      BY <2>1 DEF Reservations, TypeOK, ThreadTypeOK
    <3> QED BY <2>1, <3>1 DEF BooksBalance
  <2>2. CASE step \notin Reserved
    <3>1. Reservations' = Reservations \ {t}
      BY <2>2 DEF Reservations, TypeOK, ThreadTypeOK
    <3> QED BY <2>2, <1>3, <3>1 DEF BooksBalance
  <2> QED BY <2>1, <2>2
<1>5. \A u \in Threads :
        /\ Symbol(u)' = Symbol(u)
        /\ Trade(u)' = Trade(u)
        /\ SubmitRequest(u)' = SubmitRequest(u)
  BY DEF Symbol, Trade, SubmitRequest
<1>6. /\ {Symbol(u)' : u \in Workflows} = {Symbol(u) : u \in Workflows}
      /\ {Trade(u)' : u \in Workflows} = {Trade(u) : u \in Workflows}
      /\ {SubmitRequest(u)' : u \in Reservations'}
           = {SubmitRequest(u) : u \in Reservations'}
  BY <1>5 DEF Workflows, Reservations
<1> QED BY <1>1, <1>2, <1>4, <1>6 DEF BooksBalance

LEMMA AdmitBooks ==
  ASSUME TypeOK, NoOverlap, BooksBalance, NEW t \in Threads, Admit(t)
  PROVE  NoOverlap' /\ BooksBalance'
<1>1. Workflows' = Workflows \cup {t}
  BY DEF Admit, Workflows, Admitted, Steps, TypeOK, ThreadTypeOK
<1>2. Reservations' = Reservations
  BY DEF Admit, Reservations, Reserved, TypeOK, ThreadTypeOK
<1>3. \A u \in Workflows :
        Symbol(u) # Symbol(t) /\ request[u].key # request[t].key
  BY DEF Admit, Admissible, SymbolFree, BooksBalance
<1>4. request' = request
  BY DEF Admit, local
<1>5. NoOverlap'
  BY <1>1, <1>3, <1>4 DEF NoOverlap, Symbol
<1>6. \A u \in Threads :
        /\ Symbol(u)' = Symbol(u)
        /\ Trade(u)' = Trade(u)
        /\ SubmitRequest(u)' = SubmitRequest(u)
  BY <1>4 DEF Symbol, Trade, SubmitRequest
<1>7. /\ activeSymbols' = {Symbol(u) : u \in Workflows'}
      /\ inFlightKeys' = {request[u].key : u \in Workflows'}
      /\ inFlightFingerprints' = {Trade(u) : u \in Workflows'}
  BY <1>1 DEF Admit, BooksBalance
<1>8. inFlightRequests' = {SubmitRequest(u) : u \in Reservations'}
  BY <1>2 DEF Admit, BooksBalance, service
<1>9. /\ {Symbol(u)' : u \in Workflows'} = {Symbol(u) : u \in Workflows'}
      /\ {Trade(u)' : u \in Workflows'} = {Trade(u) : u \in Workflows'}
      /\ {SubmitRequest(u)' : u \in Reservations'}
           = {SubmitRequest(u) : u \in Reservations'}
  BY <1>6 DEF Workflows, Reservations
<1> QED BY <1>4, <1>5, <1>7, <1>8, <1>9 DEF BooksBalance

LEMMA FinishBooks ==
  ASSUME TypeOK, NoOverlap, BooksBalance, NEW t \in Threads, Finish(t)
  PROVE  NoOverlap' /\ BooksBalance'
<1>1. /\ Workflows' = Workflows \ {t}
      /\ t \in Workflows
  BY DEF Finish, Leave, Workflows, Admitted, Steps, TypeOK, ThreadTypeOK
<1>2. Reservations' = Reservations /\ t \notin Reservations
  BY DEF Finish, Leave, Reservations, Reserved, TypeOK, ThreadTypeOK
<1>3. Reservations \subseteq Workflows \ {t}
  BY <1>2 DEF Reservations, Workflows, Reserved, Admitted, Steps
<1>4. \A u \in Workflows \ {t} :
        Symbol(u) # Symbol(t) /\ request[u].key # request[t].key
  BY <1>1 DEF NoOverlap
<1>5. \A u \in Workflows \ {t} : request'[u] = request[u]
  BY DEF Finish, Leave, Workflows, TypeOK, ThreadTypeOK
<1>6. \A u \in Workflows \ {t} : Trade(u) # Trade(t)
  BY <1>4 DEF Trade, Symbol
<1>7. NoOverlap'
  BY <1>1, <1>5 DEF NoOverlap, Symbol
<1>8. /\ activeSymbols' = {Symbol(u) : u \in Workflows \ {t}}
      /\ inFlightKeys' = {request[u].key : u \in Workflows \ {t}}
      /\ inFlightFingerprints' = {Trade(u) : u \in Workflows \ {t}}
  BY <1>1, <1>4, <1>6 DEF Finish, BooksBalance
<1>9. inFlightRequests' = {SubmitRequest(u) : u \in Reservations}
  BY DEF Finish, service, BooksBalance
<1>10. /\ {Symbol(u)' : u \in Workflows \ {t}}
            = {Symbol(u) : u \in Workflows \ {t}}
       /\ {request'[u].key : u \in Workflows \ {t}}
            = {request[u].key : u \in Workflows \ {t}}
       /\ {Trade(u)' : u \in Workflows \ {t}}
            = {Trade(u) : u \in Workflows \ {t}}
       /\ {SubmitRequest(u)' : u \in Reservations}
            = {SubmitRequest(u) : u \in Reservations}
  BY <1>3, <1>5 DEF Symbol, Trade, SubmitRequest
<1> QED BY <1>1, <1>2, <1>7, <1>8, <1>9, <1>10 DEF BooksBalance

LEMMA NextBooks ==
  ASSUME TypeOK, NoOverlap, BooksBalance, [Next]_vars
  PROVE  NoOverlap' /\ BooksBalance'
<1> DEFINE Books == NoOverlap /\ BooksBalance
<1> USE DEF TypeOK
<1>1. CASE UNCHANGED <<pc, local, supervisor, service>>
  <2>1. /\ UNCHANGED <<pc, request>>
        /\ UNCHANGED <<activeSymbols, inFlightKeys, inFlightFingerprints,
                       inFlightRequests>>
    BY <1>1 DEF local, supervisor, service
  <2>2. Workflows' = Workflows /\ Reservations' = Reservations
    BY <2>1 DEF Workflows, Reservations
  <2>3. \A u \in Threads :
          /\ Symbol(u)' = Symbol(u)
          /\ Trade(u)' = Trade(u)
          /\ SubmitRequest(u)' = SubmitRequest(u)
    BY <2>1 DEF Symbol, Trade, SubmitRequest
  <2>4. /\ {Symbol(u)' : u \in Workflows} = {Symbol(u) : u \in Workflows}
        /\ {Trade(u)' : u \in Workflows} = {Trade(u) : u \in Workflows}
        /\ {SubmitRequest(u)' : u \in Reservations}
             = {SubmitRequest(u) : u \in Reservations}
    BY <2>3 DEF Workflows, Reservations
  <2>5. NoOverlap'
    BY <2>1, <2>2 DEF NoOverlap, Symbol
  <2> QED BY <2>1, <2>2, <2>4, <2>5 DEF BooksBalance
<1>2. ASSUME NEW t \in Threads, NEW r \in Requests, ReadPositions(t, r)
      PROVE  Books'
  <2>1. \A u \in Threads : pc[u] \in Admitted => request'[u] = request[u]
    BY <1>2 DEF ReadPositions, ThreadTypeOK, Admitted, Steps
  <2> QED BY <1>2, <2>1, StepBooks
       DEF ReadPositions, supervisor, service, Admitted, Reserved, Steps
<1>3. ASSUME NEW t \in Threads, Execute(t) PROVE Books'
  <2>1. CASE Admit(t)
    BY <2>1, AdmitBooks
  <2>2. CASE Finish(t)
    BY <2>2, FinishBooks
  <2>3. CASE Reserve(t)
    BY <2>3, ReservationBooks
    DEF Reserve, Goto, supervisor, local, Admitted, Reserved, Steps
  <2>4. CASE Release(t)
    <3>1. PICK step \in {"complete", "abort", "reject"} :
            Goto(t, step, result[t])
      BY <2>4 DEF Release
    <3> QED BY <2>4, <3>1, ReservationBooks
         DEF Release, Goto, supervisor, local, Admitted, Reserved, Steps
  <2>5. CASE Skip(t)
    <3>1. \A u \in Threads : pc[u] \in Admitted => request'[u] = request[u]
      BY <2>5 DEF Skip, Leave, ThreadTypeOK, Admitted
    <3> QED BY <2>5, <3>1, StepBooks
         DEF Skip, Leave, supervisor, service, Admitted, Reserved, Steps
  <2>6. CASE ReadOpenOrders(t) \/ ReadClock(t) \/ ClockOut(t)
    <3>1. PICK step \in {"clock", "admit", "finish"} :
            /\ pc' = [pc EXCEPT ![t] = step]
            /\ step = "clock" => pc[t] = "orders"
            /\ step = "admit" => pc[t] = "clock"
            /\ step = "finish" => pc[t] = "clock out"
      BY <2>6 DEF ReadOpenOrders, ReadClock, ClockOut
    <3>2. UNCHANGED <<request, supervisor, service>>
      BY <2>6 DEF ReadOpenOrders, ReadClock, ClockOut
    <3> QED BY <3>1, <3>2, StepBooks
         DEF supervisor, service, Admitted, Reserved, Steps
  <2>7. CASE \/ Preview(t) \/ ReserveDuplicate(t) \/ CallBroker(t)
             \/ Announce(t) \/ Complete(t) \/ Reject(t) \/ Abort(t)
    <3>1. PICK step \in Admitted :
            /\ pc' = [pc EXCEPT ![t] = step]
            /\ step \in Reserved <=> pc[t] \in Reserved
      BY <2>7 DEF Preview, ReserveDuplicate, CallBroker, Announce, Complete,
           Reject, Abort, Publish, Goto, Admitted, Reserved, Steps
    <3>2. /\ UNCHANGED <<request, supervisor, service>>
          /\ pc[t] \in Admitted
      BY <2>7 DEF Preview, ReserveDuplicate, CallBroker, Announce, Complete,
           Reject, Abort, local, Admitted, Steps
    <3> QED BY <3>1, <3>2, StepBooks DEF supervisor, service, Admitted
  <2> QED BY <1>3, <2>1, <2>2, <2>3, <2>4, <2>5, <2>6, <2>7 DEF Execute
<1>4. ASSUME NEW t \in Threads, Interrupt(t) PROVE Books'
  <2>1. /\ pc' = [pc EXCEPT ![t] = "clock out"]
        /\ UNCHANGED <<request, activeSymbols, inFlightKeys,
                       inFlightFingerprints>>
    BY <1>4 DEF Interrupt, Goto, supervisor, local
  <2>2. CASE pc[t] \in {"broker", "announce"}
    <3>1. inFlightRequests' = inFlightRequests \ {SubmitRequest(t)}
      BY <1>4, <2>2 DEF Interrupt
    <3> QED BY <2>1, <2>2, <3>1, ReservationBooks
         DEF Admitted, Reserved, Steps
  <2>3. CASE pc[t] \in {"preview", "reserve", "complete", "reject", "abort"}
    <3>1. UNCHANGED inFlightRequests
      BY <1>4, <2>3 DEF Interrupt, service
    <3> QED BY <2>1, <2>3, <3>1, StepBooks DEF Admitted, Reserved, Steps
  <2> QED BY <1>4, <2>2, <2>3 DEF Interrupt
<1>5. CASE Tick \/ \E s \in Symbols : Fill(s) \/ Close(s)
  BY <1>1, <1>5 DEF Tick, Fill, Close
<1>6. CASE UNCHANGED vars
  BY <1>1, <1>6 DEF vars
<1> QED BY <1>2, <1>3, <1>4, <1>5, <1>6 DEF Next

(***************************************************************************)
(* What a workflow has come to, and what is remembered of it.              *)
(***************************************************************************)
\* Other threads keep their progress while one moves, provided that orders
\* are only added and no other workflow's key is completed.
LEMMA ProgressFrame ==
  ASSUME TypeOK, Progress, NEW t \in Threads, ProgressOf(t)',
         \A u \in Threads \ {t} :
           /\ pc'[u] = pc[u]
           /\ request'[u] = request[u]
           /\ result'[u] = result[u]
           /\ pc[u] \in Admitted =>
                completedByKey'[request[u].key] = completedByKey[request[u].key],
         \A d \in Trades : placed[d] > 0 => placed'[d] > 0
  PROVE  Progress'
<1> SUFFICES ASSUME NEW u \in Threads \ {t} PROVE ProgressOf(u)'
  BY DEF Progress
<1>1. ProgressOf(u)
  BY DEF Progress
<1>2. result[u] = "EXECUTION_COMPLETED" => Trade(u) \in Trades
  BY <1>1, RequestType, NoneAssumption
  DEF ProgressOf, Admitted, TypeOK, ThreadTypeOK, Steps, Codes
<1> QED BY <1>1, <1>2 DEF ProgressOf, Trade

\* A step that writes none of the records keeps them true.
LEMMA RecordsFrame ==
  ASSUME SubmittedIsPlaced,
         UNCHANGED <<successfulFingerprints, completedByKey, submittedRequests,
                     placed>>
  PROVE  SubmittedIsPlaced'
BY DEF SubmittedIsPlaced

LEMMA NextProgress ==
  ASSUME TypeOK, NoOverlap, Progress, SubmittedIsPlaced, [Next]_vars
  PROVE  Progress' /\ SubmittedIsPlaced'
<1> DEFINE Goal == Progress /\ SubmittedIsPlaced
<1> USE DEF TypeOK
<1>1. CASE UNCHANGED <<pc, local, result, supervisor, service, placed>>
  BY <1>1 DEF local, supervisor, service, Progress, ProgressOf, Trade,
       SubmittedIsPlaced
<1>2. ASSUME NEW t \in Threads, NEW r \in Requests, ReadPositions(t, r)
      PROVE  Goal'
  <2>1. ProgressOf(t)'
    BY <1>2, NoneAssumption
    DEF ReadPositions, Progress, ProgressOf, ThreadTypeOK, Admitted, Codes
  <2>2. Progress'
    BY <1>2, <2>1, ProgressFrame
    DEF ReadPositions, ThreadTypeOK, supervisor, brokerage
  <2> QED BY <1>2, <2>2, RecordsFrame
       DEF ReadPositions, supervisor, service, brokerage
<1>3. ASSUME NEW t \in Threads, Execute(t) PROVE Goal'
  <2>0. ProgressOf(t)
    BY DEF Progress
  <2>1. CASE Admit(t)
    <3>1. /\ UNCHANGED <<request, result, completedByKey>>
          /\ pc[t] = "admit" /\ pc'[t] = "preview"
          /\ completedByKey[request[t].key] = None
      BY <2>1 DEF Admit, Admissible, ThreadTypeOK, local
    <3>2. result'[t] = None
      BY <2>0, <3>1 DEF ProgressOf, Admitted, Steps
    <3>3. ProgressOf(t)'
      BY <3>1, <3>2, NoneAssumption DEF ProgressOf, Admitted, Steps, Codes
    <3>4. Progress'
      BY <2>1, <3>3, ProgressFrame DEF Admit, ThreadTypeOK, local, brokerage
    <3> QED BY <2>1, <3>4, RecordsFrame DEF Admit, service, brokerage
  <2>2. CASE Finish(t)
    <3>1. ProgressOf(t)'
      BY <2>2, NoneAssumption
      DEF Finish, Leave, ProgressOf, ThreadTypeOK, Admitted, Codes
    <3>2. \A u \in Threads \ {t} :
            pc[u] \in Admitted =>
              completedByKey'[request[u].key] = completedByKey[request[u].key]
      <4> SUFFICES ASSUME NEW u \in Threads \ {t}, pc[u] \in Admitted
                   PROVE  completedByKey'[request[u].key]
                            = completedByKey[request[u].key]
        OBVIOUS
      <4>1. u \in Workflows /\ t \in Workflows
        BY <2>2 DEF Finish, Workflows, Admitted, Steps
      <4>2. request[u].key # request[t].key
        BY <4>1 DEF NoOverlap
      <4> QED BY <2>2, <4>2 DEF Finish, SupervisorTypeOK
    <3>3. Progress'
      BY <2>2, <3>1, <3>2, ProgressFrame
      DEF Finish, Leave, ThreadTypeOK, brokerage
    <3>4. /\ Trade(t) \in Trades
          /\ request[t].key \in Keys
      BY <2>2, RequestType DEF Finish
    <3>5. result[t] = "EXECUTION_COMPLETED" => placed[Trade(t)] > 0
      BY <2>0 DEF ProgressOf
    <3>6. \A d \in successfulFingerprints' : placed[d] > 0
      BY <2>2, <3>5 DEF Finish, SubmittedIsPlaced
    <3>7. \A k \in Keys :
            completedByKey'[k] # None =>
              (completedByKey'[k].code = "EXECUTION_COMPLETED" =>
                 completedByKey'[k].trade \in successfulFingerprints')
      <4> SUFFICES ASSUME NEW k \in Keys, completedByKey'[k] # None,
                          completedByKey'[k].code = "EXECUTION_COMPLETED"
                   PROVE  completedByKey'[k].trade \in successfulFingerprints'
        OBVIOUS
      <4>1. CASE completedByKey'[k] = completedByKey[k]
        <5>1. completedByKey[k].trade \in successfulFingerprints
          BY <4>1 DEF SubmittedIsPlaced
        <5>2. successfulFingerprints \subseteq successfulFingerprints'
          BY <2>2 DEF Finish
        <5> QED BY <4>1, <5>1, <5>2
      <4>2. CASE completedByKey'[k] # completedByKey[k]
        <5>1. /\ result[t] # None
              /\ completedByKey'[k] = [trade |-> Trade(t), code |-> result[t]]
          BY <2>2, <4>2 DEF Finish, SupervisorTypeOK
        <5> QED BY <2>2, <5>1 DEF Finish
      <4> QED BY <4>1, <4>2
    <3>8. UNCHANGED <<placed, submittedRequests>>
      BY <2>2 DEF Finish, brokerage, service
    <3> QED BY <3>3, <3>6, <3>7, <3>8 DEF SubmittedIsPlaced
  <2>3. CASE CallBroker(t)
    <3>1. Trade(t) \in Trades /\ Trade(t).mode = "SUBMIT"
      BY <2>0, <2>3, RequestType DEF CallBroker, ProgressOf
    <3>2. CASE Take(t)
      <4>1. placed' = [placed EXCEPT ![Trade(t)] = @ + 1]
        BY <3>2 DEF Take
      <4>2. \A d \in Trades :
              /\ placed[d] > 0 => placed'[d] > 0
              /\ d # Trade(t) => placed'[d] = placed[d]
        BY <3>1, <4>1 DEF BrokerTypeOK
      <4>3. placed'[Trade(t)] > 0
        BY <3>1, <4>1 DEF BrokerTypeOK
      <4>4. /\ Trade(t)' = Trade(t)
            /\ pc' = [pc EXCEPT ![t] = "announce"]
            /\ completedByKey'[request'[t].key] = completedByKey[request[t].key]
            /\ pc[t] = "broker"
        BY <2>3 DEF CallBroker, Goto, local, Trade, supervisor
      <4>5. ProgressOf(t)'
        BY <2>0, <4>3, <4>4 DEF ProgressOf, Admitted, Steps, ThreadTypeOK
      <4>6. Progress'
        BY <2>3, <4>2, <4>5, ProgressFrame
        DEF CallBroker, Goto, ThreadTypeOK, local, supervisor
      <4>7. UNCHANGED <<successfulFingerprints, completedByKey,
                        submittedRequests>>
        BY <2>3 DEF CallBroker, supervisor, service
      <4>8. \A r \in submittedRequests : r.trade \in Trades
        BY DEF ServiceTypeOK, SubmitRequests
      <4>9. SubmittedIsPlaced'
        BY <3>1, <4>2, <4>7, <4>8 DEF SubmittedIsPlaced, SupervisorTypeOK
      <4> QED BY <4>6, <4>9
    <3>3. CASE UNCHANGED brokerage
      <4>1. /\ UNCHANGED <<placed, request, completedByKey>>
            /\ pc' = [pc EXCEPT ![t] = "announce"]
            /\ pc[t] = "broker"
        BY <2>3, <3>3 DEF CallBroker, Goto, brokerage, local, supervisor
      <4>2. CASE result'[t] = "EXECUTION_COMPLETED"
        <5>1. Take(t)
          BY <2>3, <4>2 DEF CallBroker, Goto, ThreadTypeOK
        <5> QED BY <3>2, <5>1
      <4>3. CASE result'[t] # "EXECUTION_COMPLETED"
        <5>1. ProgressOf(t)'
          BY <2>0, <4>1, <4>3
          DEF ProgressOf, Admitted, Steps, ThreadTypeOK
        <5>2. Progress'
          BY <2>3, <4>1, <5>1, ProgressFrame
          DEF CallBroker, Goto, ThreadTypeOK
        <5> QED BY <2>3, <4>1, <5>2, RecordsFrame
             DEF CallBroker, supervisor, service
      <4> QED BY <4>2, <4>3
    <3> QED BY <2>3, <3>2, <3>3 DEF CallBroker
  <2>4. CASE Release(t)
    <3>1. PICK step \in {"complete", "abort", "reject"} :
            Goto(t, step, result[t])
      BY <2>4 DEF Release
    <3>2. UNCHANGED <<request, completedByKey, placed>> /\ pc[t] = "release"
      BY <2>4 DEF Release, local, supervisor, brokerage
    <3>3. ProgressOf(t)'
      BY <2>0, <3>1, <3>2
      DEF ProgressOf, Goto, Admitted, Steps, ThreadTypeOK, Trade
    <3>4. Progress'
      BY <3>1, <3>2, <3>3, ProgressFrame DEF Goto, ThreadTypeOK
    <3>5. SubmittedIsPlaced'
      BY <2>0, <2>4, <3>2
      DEF Release, SubmittedIsPlaced, ProgressOf, SubmitRequest, supervisor
    <3> QED BY <3>4, <3>5
  <2>5. CASE Skip(t)
    <3>1. ProgressOf(t)'
      BY <2>5, NoneAssumption
      DEF Skip, Leave, ProgressOf, ThreadTypeOK, Admitted, Codes
    <3>2. Progress'
      BY <2>5, <3>1, ProgressFrame
      DEF Skip, Leave, ThreadTypeOK, supervisor, brokerage
    <3> QED BY <2>5, <3>2, RecordsFrame DEF Skip, supervisor, service, brokerage
  <2>6. CASE ReadOpenOrders(t) \/ ReadClock(t) \/ ClockOut(t)
    <3>1. /\ UNCHANGED <<request, result, supervisor, service, placed>>
          /\ \A u \in Threads \ {t} : pc'[u] = pc[u]
          /\ pc'[t] \in {"clock", "admit", "finish"}
          /\ pc'[t] \in Admitted <=> pc[t] \in Admitted
      BY <2>6 DEF ReadOpenOrders, ReadClock, ClockOut, brokerage, ThreadTypeOK,
           Admitted, Steps
    <3>2. ProgressOf(t)'
      BY <2>0, <3>1 DEF ProgressOf, Trade, supervisor
    <3>3. Progress'
      BY <3>1, <3>2, ProgressFrame DEF supervisor
    <3> QED BY <3>1, <3>3, RecordsFrame DEF supervisor, service
  <2>7. CASE \/ Preview(t) \/ ReserveDuplicate(t) \/ Announce(t)
             \/ Complete(t) \/ Reject(t) \/ Abort(t)
    <3>1. /\ \A u \in Threads \ {t} : pc'[u] = pc[u] /\ result'[u] = result[u]
          /\ pc'[t] \in Admitted \ {"broker"}
          /\ pc'[t] = "reserve" => Trade(t).mode = "SUBMIT"
          /\ result'[t] = "EXECUTION_COMPLETED" => result[t] = result'[t]
      BY <2>7, NoneAssumption
      DEF Preview, ReserveDuplicate, Announce, Complete, Reject, Abort, Publish,
          Goto, Admitted, Steps, Codes, ThreadTypeOK
    <3>2. /\ UNCHANGED <<request, supervisor, submittedRequests, placed>>
          /\ pc[t] \in Admitted
      BY <2>7 DEF Preview, ReserveDuplicate, Announce, Complete, Reject, Abort,
           local, service, brokerage, Admitted, Steps
    <3>3. ProgressOf(t)'
      BY <2>0, <3>1, <3>2 DEF ProgressOf, Trade, supervisor
    <3>4. Progress'
      BY <3>1, <3>2, <3>3, ProgressFrame DEF supervisor
    <3> QED BY <3>2, <3>4, RecordsFrame DEF supervisor
  <2>8. CASE Reserve(t)
    <3>1. /\ Goto(t, "broker", None)
          /\ pc[t] = "reserve"
          /\ UNCHANGED <<request, supervisor, submittedRequests, placed>>
      BY <2>8 DEF Reserve, local, brokerage
    <3>2. ProgressOf(t)'
      BY <2>0, <3>1, NoneAssumption DEF ProgressOf, Goto, ThreadTypeOK, Trade,
           supervisor, Admitted, Steps, Codes
    <3>3. Progress'
      BY <3>1, <3>2, ProgressFrame DEF Goto, ThreadTypeOK, supervisor
    <3> QED BY <3>1, <3>3, RecordsFrame DEF supervisor
  <2> QED
    BY <1>3, <2>1, <2>2, <2>3, <2>4, <2>5, <2>6, <2>7, <2>8 DEF Execute
<1>4. ASSUME NEW t \in Threads, Interrupt(t) PROVE Goal'
  <2>1. PICK code \in {None, "SUPERVISOR_ABORTED"} : Goto(t, "clock out", code)
    BY <1>4 DEF Interrupt
  <2>2. /\ UNCHANGED <<request, supervisor, submittedRequests, placed>>
        /\ pc[t] \in Admitted
    BY <1>4 DEF Interrupt, local, service, brokerage, Admitted, Steps
  <2>3. ProgressOf(t)'
    BY <2>1, <2>2, NoneAssumption DEF Progress, ProgressOf, Goto, ThreadTypeOK,
         supervisor, Admitted, Steps, Codes
  <2>4. Progress'
    BY <2>1, <2>2, <2>3, ProgressFrame DEF Goto, ThreadTypeOK, supervisor
  <2> QED BY <2>2, <2>4, RecordsFrame DEF supervisor
<1>5. CASE Tick \/ \E s \in Symbols : Fill(s) \/ Close(s)
  BY <1>1, <1>5 DEF Tick, Fill, Close, brokerage
<1>6. CASE UNCHANGED vars
  BY <1>1, <1>6 DEF vars, brokerage
<1> QED BY <1>2, <1>3, <1>4, <1>5, <1>6 DEF Next

(***************************************************************************)
(* What becomes of an order, when every one of them is answered as taken.  *)
(***************************************************************************)
\* A step that neither admits a workflow, nor takes an order, nor records it.
LEMMA OrdersFrame ==
  ASSUME TypeOK, TypeOK', Orders,
         clock <= clock',
         UNCHANGED <<placed, lastOrder, successfulFingerprints, lastSuccess>>,
         \A u \in Threads :
           /\ result'[u] = "EXECUTION_COMPLETED" <=> result[u] = "EXECUTION_COMPLETED"
           /\ u \in Ordered => pc'[u] \in AfterOrder
           /\ pc'[u] \in Admitted => pc[u] \in Admitted /\ request'[u] = request[u]
           /\ pc'[u] \in BeforeOrder => pc[u] \in BeforeOrder /\ now'[u] = now[u]
           /\ now'[u] \in {0, now[u], clock'}
           /\ pc'[u] = "finish" =>
                now'[u] = clock' \/ (pc[u] = "finish" /\ now'[u] = now[u])
  PROVE  Orders'
<1>1. Ordered' = Ordered
  BY DEF Ordered
<1>2. clock \in Nat /\ clock' \in Nat /\ \A u \in Threads : now[u] \in Nat
  BY DEF TypeOK, BrokerTypeOK, ThreadTypeOK
<1>3. AfterOrder \subseteq Admitted /\ BeforeOrder \subseteq Admitted
  BY DEF AfterOrder, BeforeOrder, Admitted, Steps
<1>4. \A u \in Threads : pc'[u] \in Admitted => Trade(u)' = Trade(u) /\ Symbol(u)' = Symbol(u)
  BY DEF Trade, Symbol
<1>5. ASSUME NEW u \in Threads PROVE OrderingOf(u)'
  <2>1. OrderingOf(u)
    BY DEF Orders
  <2>2. now'[u] <= clock'
    BY <1>2, <2>1 DEF OrderingOf
  <2>3. pc'[u] \in BeforeOrder => CooledDown(u)'
    BY <1>3, <1>4, <2>1 DEF OrderingOf, CooledDown
  <2>4. ASSUME u \in Ordered, pc'[u] = "finish", lastOrder'[Symbol(u)'] # None
        PROVE  lastOrder'[Symbol(u)'] <= now'[u]
    <3>1. pc[u] \in Admitted /\ Symbol(u)' = Symbol(u) /\ Symbol(u) \in Symbols
      BY <1>3, <1>4, <2>4, RequestType DEF Admitted, Steps
    <3>2. lastOrder[Symbol(u)] <= clock
      BY <2>4, <3>1 DEF Orders
    <3>3. lastOrder[Symbol(u)] \in Nat
      BY <2>4, <3>1 DEF TypeOK, BrokerTypeOK
    <3> QED BY <1>2, <2>1, <2>4, <3>1, <3>2, <3>3 DEF OrderingOf
  <2> QED BY <1>1, <1>4, <2>1, <2>2, <2>3, <2>4 DEF OrderingOf
<1>6. \A u \in Ordered : Trade(u)' = Trade(u) /\ Symbol(u)' = Symbol(u)
  BY <1>3, <1>4 DEF Ordered
<1>7. ASSUME NEW d \in Trades
      PROVE  /\ placed'[d] <= 1
             /\ placed'[d] > 0 =>
                  d \in successfulFingerprints' \/ \E t \in Ordered' : Trade(t)' = d
  BY <1>1, <1>6 DEF Orders
<1>8. ASSUME NEW s \in Symbols, lastOrder'[s] # None
      PROVE  /\ lastOrder'[s] <= clock'
             /\ \/ lastSuccess'[s] # None /\ lastOrder'[s] <= lastSuccess'[s]
                \/ \E t \in Ordered' : Symbol(t)' = s
  <2>1. lastOrder[s] \in Nat /\ lastOrder'[s] = lastOrder[s]
    BY <1>8 DEF TypeOK, BrokerTypeOK
  <2>2. lastOrder[s] <= clock /\ lastOrder[s] <= clock'
    BY <1>2, <1>8, <2>1 DEF Orders
  <2> QED BY <1>1, <1>6, <1>8, <2>1, <2>2 DEF Orders, Ordered
<1> QED BY <1>5, <1>7, <1>8 DEF Orders

LEMMA AdmitOrders ==
  ASSUME TypeOK, TypeOK', Progress, Orders, NEW t \in Threads, Admit(t)
  PROVE  Orders'
<1>1. UNCHANGED <<placed, lastOrder, successfulFingerprints, lastSuccess, clock,
                  request, now, result>>
  BY DEF Admit, brokerage, local
<1>2. pc' = [pc EXCEPT ![t] = "preview"] /\ pc \in [Threads -> Steps] /\ pc[t] = "admit"
  BY DEF Admit, TypeOK, ThreadTypeOK
<1>3. Ordered' = Ordered /\ t \notin Ordered
  BY <1>1, <1>2 DEF Ordered, Orders, OrderingOf, AfterOrder
<1>4. \A u \in Threads : Trade(u)' = Trade(u) /\ Symbol(u)' = Symbol(u)
  BY <1>1 DEF Trade, Symbol
<1>5. ASSUME NEW u \in Threads PROVE OrderingOf(u)'
  <2>1. OrderingOf(u)
    BY DEF Orders
  <2>2. CooledDown(u) => CooledDown(u)'
    BY <1>1, <1>4 DEF CooledDown
  <2>3. CASE u # t
    BY <1>1, <1>2, <1>3, <1>4, <2>1, <2>2, <2>3 DEF OrderingOf
  <2>4. CASE u = t
    <3>1. Trade(t) \notin successfulFingerprints /\ CooledDown(t)
      BY DEF Admit, Admissible, NotDuplicate
    <3> QED BY <1>1, <1>3, <1>4, <2>1, <2>2, <2>4, <3>1 DEF OrderingOf
  <2> QED BY <2>3, <2>4
<1>7. \A s \in Symbols :
        lastOrder'[s] # None =>
          /\ lastOrder'[s] <= clock'
          /\ \/ lastSuccess'[s] # None /\ lastOrder'[s] <= lastSuccess'[s]
             \/ \E u \in Ordered' : Symbol(u)' = s
  BY <1>1, <1>3, <1>4 DEF Orders, Ordered
<1>8. \A d \in Trades :
        /\ placed'[d] <= 1
        /\ placed'[d] > 0 =>
             d \in successfulFingerprints' \/ \E u \in Ordered' : Trade(u)' = d
  BY <1>1, <1>3, <1>4 DEF Orders, Ordered
<1> QED BY <1>5, <1>7, <1>8 DEF Orders

\* The broker has no order of a trade that a workflow before it is about, and
\* none of its symbol within the window.
LEMMA FirstOrder ==
  ASSUME TypeOK, NoOverlap, Orders, NEW t \in Threads, pc[t] = "broker"
  PROVE  /\ placed[Trade(t)] = 0
         /\ lastOrder[Symbol(t)] # None => clock - lastOrder[Symbol(t)] >= Window
<1>1. Trade(t) \in Trades /\ Symbol(t) \in Symbols
  BY RequestType
<1>2. \A u \in Ordered : Symbol(u) # Symbol(t) /\ Trade(u) # Trade(t)
  <2> SUFFICES ASSUME NEW u \in Ordered PROVE Symbol(u) # Symbol(t)
    BY DEF Symbol, Trade
  <2>1. u \in Workflows /\ t \in Workflows /\ u # t
    BY DEF Ordered, Orders, OrderingOf, AfterOrder, Workflows, Admitted, Steps
  <2> QED BY <2>1 DEF NoOverlap
<1>3. Trade(t) \notin successfulFingerprints /\ CooledDown(t) /\ now[t] <= clock
  BY DEF Orders, OrderingOf, Admitted, Steps, BeforeOrder
<1>4. placed[Trade(t)] = 0
  BY <1>1, <1>2, <1>3 DEF Orders, TypeOK, BrokerTypeOK
<1>5. ASSUME lastOrder[Symbol(t)] # None PROVE clock - lastOrder[Symbol(t)] >= Window
  <2> DEFINE taken == lastOrder[Symbol(t)]
             success == lastSuccess[Symbol(t)]
  <2>1. success # None /\ taken <= success
    BY <1>1, <1>2, <1>5 DEF Orders
  <2>2. now[t] - success >= Window
    BY <1>3, <2>1 DEF CooledDown
  <2>3. taken \in Nat /\ success \in Nat /\ now[t] \in Nat /\ clock \in Nat /\ Window \in Nat
    BY <1>1, <1>5, <2>1, BoundsAssumption
    DEF TypeOK, BrokerTypeOK, SupervisorTypeOK, ThreadTypeOK
  <2> HIDE DEF taken, success
  <2>4. clock - taken >= Window
    BY <1>3, <2>1, <2>2, <2>3
  <2> QED BY <2>4 DEF taken
<1> QED BY <1>4, <1>5

LEMMA TakeOrders ==
  ASSUME TypeOK, TypeOK', NoOverlap, Orders, NEW t \in Threads, pc[t] = "broker",
         Take(t), Goto(t, "announce", "EXECUTION_COMPLETED"),
         UNCHANGED <<supervisor, clock, local>>
  PROVE  Orders'
<1> DEFINE d == Trade(t)
           s == Symbol(t)
<1>1. d \in Trades /\ s \in Symbols
  BY RequestType
<1>2. UNCHANGED <<successfulFingerprints, lastSuccess, request, now, clock>>
  BY DEF supervisor, local
<1>3. \A u \in Threads : Trade(u)' = Trade(u) /\ Symbol(u)' = Symbol(u)
  BY <1>2 DEF Trade, Symbol
<1>4. /\ \A u \in Threads \ {t} : pc'[u] = pc[u] /\ result'[u] = result[u]
      /\ pc'[t] = "announce" /\ result'[t] = "EXECUTION_COMPLETED"
  BY DEF Goto, TypeOK, ThreadTypeOK
<1>5. Ordered' = Ordered \cup {t}
  BY <1>4 DEF Ordered
<1>6. ASSUME NEW u \in Threads PROVE OrderingOf(u)'
  <2>1. OrderingOf(u)
    BY DEF Orders
  <2>2. CooledDown(u) => CooledDown(u)'
    BY <1>2, <1>3 DEF CooledDown
  <2>3. CASE u # t
    <3>1. ASSUME pc[u] = "finish" PROVE lastOrder'[Symbol(u)] = lastOrder[Symbol(u)]
      <4>1. Symbol(u) # Symbol(t)
        BY <2>3, <3>1 DEF NoOverlap, Workflows, Admitted, Steps
      <4> QED BY <3>1, <4>1, RequestType DEF Take, TypeOK, BrokerTypeOK
    <3> QED BY <1>2, <1>3, <1>4, <1>5, <2>1, <2>2, <2>3, <3>1 DEF OrderingOf
  <2>4. CASE u = t
    BY <1>2, <1>3, <1>4, <2>1, <2>4
    DEF OrderingOf, AfterOrder, BeforeOrder, Admitted, Steps
  <2> QED BY <2>3, <2>4
<1>7. ASSUME NEW e \in Trades
      PROVE  /\ placed'[e] <= 1
             /\ placed'[e] > 0 =>
                  e \in successfulFingerprints' \/ \E u \in Ordered' : Trade(u)' = e
  <2>1. placed' = [placed EXCEPT ![d] = @ + 1] /\ placed \in [Trades -> Nat]
    BY DEF Take, TypeOK, BrokerTypeOK
  <2>2. CASE e = d
    <3>1. placed'[e] = 1
      BY <1>1, <2>1, <2>2, FirstOrder
    <3> QED BY <1>3, <1>5, <2>2, <3>1
  <2>3. CASE e # d
    <3>1. placed'[e] = placed[e]
      BY <2>1, <2>3
    <3> QED BY <1>2, <1>3, <1>5, <3>1 DEF Orders, Ordered
  <2> QED BY <2>2, <2>3
<1>8. ASSUME NEW x \in Symbols, lastOrder'[x] # None
      PROVE  /\ lastOrder'[x] <= clock'
             /\ \/ lastSuccess'[x] # None /\ lastOrder'[x] <= lastSuccess'[x]
                \/ \E u \in Ordered' : Symbol(u)' = x
  <2>1. lastOrder' = [lastOrder EXCEPT ![s] = clock] /\ lastOrder \in [Symbols -> Nat \cup {None}]
    BY DEF Take, TypeOK, BrokerTypeOK
  <2>2. CASE x = s
    <3>1. lastOrder'[x] = clock /\ clock \in Nat
      BY <1>1, <2>1, <2>2 DEF TypeOK, BrokerTypeOK
    <3> QED BY <1>2, <1>3, <1>4, <1>5, <2>2, <3>1
  <2>3. CASE x # s
    <3>1. lastOrder'[x] = lastOrder[x]
      BY <2>1, <2>3
    <3> QED BY <1>2, <1>3, <1>5, <1>8, <3>1 DEF Orders, Ordered
  <2> QED BY <2>2, <2>3
<1> QED BY <1>6, <1>7, <1>8 DEF Orders

LEMMA FinishOrders ==
  ASSUME TypeOK, TypeOK', NoOverlap, Orders, NEW t \in Threads, Finish(t)
  PROVE  Orders'
<1> DEFINE won == result[t] = "EXECUTION_COMPLETED"
<1>1. pc[t] = "finish" /\ Trade(t) \in Trades /\ Symbol(t) \in Symbols
  BY RequestType DEF Finish
<1>2. UNCHANGED <<placed, lastOrder, clock>>
  BY DEF Finish, brokerage
<1>3. /\ \A u \in Threads \ {t} :
           /\ pc'[u] = pc[u] /\ result'[u] = result[u] /\ now'[u] = now[u]
           /\ request'[u] = request[u] /\ Trade(u)' = Trade(u) /\ Symbol(u)' = Symbol(u)
      /\ pc'[t] = "idle" /\ result'[t] = None /\ now'[t] = 0
  BY DEF Finish, Leave, TypeOK, ThreadTypeOK, Trade, Symbol
<1>4. Ordered' = Ordered \ {t}
  BY <1>3, NoneAssumption DEF Ordered, Codes
<1>5. /\ won => /\ successfulFingerprints' = successfulFingerprints \cup {Trade(t)}
                /\ lastSuccess'[Symbol(t)] = now[t]
      /\ ~won => UNCHANGED <<successfulFingerprints, lastSuccess>>
      /\ \A s \in Symbols \ {Symbol(t)} : lastSuccess'[s] = lastSuccess[s]
  BY <1>1 DEF Finish, TypeOK, SupervisorTypeOK
<1>6. ASSUME NEW u \in Threads \ {t}, pc[u] \in Admitted PROVE Symbol(u) # Symbol(t)
  BY <1>1, <1>6 DEF NoOverlap, Workflows, Admitted, Steps
<1>7. ASSUME NEW u \in Threads PROVE OrderingOf(u)'
  <2>1. OrderingOf(u)
    BY DEF Orders
  <2>2. CASE u = t
    <3>1. 0 <= clock' /\ t \notin Ordered'
      BY <1>2, <1>4 DEF TypeOK, BrokerTypeOK
    <3>2. pc'[t] \notin Admitted /\ pc'[t] \notin BeforeOrder
      BY <1>3 DEF Admitted, BeforeOrder, Steps
    <3> QED BY <1>3, <2>2, <3>1, <3>2 DEF OrderingOf
  <2>3. CASE u # t
    <3>1. /\ pc'[u] = pc[u] /\ now'[u] = now[u] /\ Trade(u)' = Trade(u)
          /\ Symbol(u)' = Symbol(u)
          /\ u \in Ordered' <=> u \in Ordered
      BY <1>3, <1>4, <2>3
    <3>2. pc[u] \in Admitted => Trade(u) \notin successfulFingerprints'
      BY <1>5, <1>6, <2>1, <2>3 DEF OrderingOf, Trade, Symbol
    <3>3. ASSUME pc[u] \in BeforeOrder PROVE CooledDown(u)'
      <4>1. pc[u] \in Admitted /\ pc[u] # "idle"
        BY <3>3 DEF BeforeOrder, Admitted, Steps
      <4>2. lastSuccess'[Symbol(u)] = lastSuccess[Symbol(u)]
        BY <1>5, <1>6, <2>3, <4>1, RequestType
      <4> QED BY <2>1, <3>1, <3>3, <4>2 DEF OrderingOf, CooledDown
    <3> QED BY <1>2, <2>1, <3>1, <3>2, <3>3 DEF OrderingOf
  <2> QED BY <2>2, <2>3
<1>8. ASSUME NEW d \in Trades, placed[d] > 0
      PROVE  d \in successfulFingerprints' \/ \E u \in Ordered' : Trade(u)' = d
  <2>1. CASE d \in successfulFingerprints
    BY <1>5, <2>1
  <2>2. ASSUME NEW u \in Ordered, Trade(u) = d
        PROVE  d \in successfulFingerprints' \/ (u \in Ordered' /\ Trade(u)' = d)
    BY <1>3, <1>4, <1>5, <2>2 DEF Ordered
  <2> QED BY <1>8, <2>1, <2>2 DEF Orders
<1>9. ASSUME NEW s \in Symbols, lastOrder[s] # None
      PROVE  /\ lastOrder[s] <= clock
             /\ \/ lastSuccess'[s] # None /\ lastOrder[s] <= lastSuccess'[s]
                \/ \E u \in Ordered' : Symbol(u)' = s
  <2>0. now[t] # None
    BY NoneAssumption DEF TypeOK, ThreadTypeOK
  <2>1. CASE won /\ s = Symbol(t)
    BY <1>1, <1>5, <1>9, <2>0, <2>1 DEF Orders, OrderingOf, Ordered
  <2>2. CASE ~(won /\ s = Symbol(t))
    <3>1. lastSuccess'[s] = lastSuccess[s]
      BY <1>5, <2>2
    <3>2. ASSUME NEW u \in Ordered, Symbol(u) = s PROVE u \in Ordered' /\ Symbol(u)' = s
      BY <1>3, <1>4, <2>2, <3>2 DEF Ordered
    <3> QED BY <1>9, <3>1, <3>2 DEF Orders
  <2> QED BY <2>1, <2>2
<1> QED BY <1>2, <1>7, <1>8, <1>9 DEF Orders

\* A step of one thread that neither admits, nor orders, nor records.
LEMMA StepOrders ==
  ASSUME TypeOK, TypeOK', Orders, NEW t \in Threads,
         UNCHANGED <<clock, placed, lastOrder, successfulFingerprints, lastSuccess>>,
         \A u \in Threads \ {t} :
           /\ pc'[u] = pc[u] /\ result'[u] = result[u]
           /\ request'[u] = request[u] /\ now'[u] = now[u],
         result'[t] = "EXECUTION_COMPLETED" <=> result[t] = "EXECUTION_COMPLETED",
         t \in Ordered => pc'[t] \in AfterOrder,
         pc'[t] \in Admitted => pc[t] \in Admitted /\ request'[t] = request[t],
         pc'[t] \in BeforeOrder => pc[t] \in BeforeOrder /\ now'[t] = now[t],
         now'[t] \in {0, now[t], clock},
         pc'[t] = "finish" => now'[t] = clock \/ (pc[t] = "finish" /\ now'[t] = now[t])
  PROVE  Orders'
<1>1. \A u \in Threads : u \in Ordered => pc[u] \in AfterOrder
  BY DEF Orders, OrderingOf
<1>2. clock <= clock'
  BY DEF TypeOK, BrokerTypeOK
<1> QED BY <1>1, <1>2, OrdersFrame

\* Every step, when orders are answered as taken.
LEMMA NextOrders ==
  ASSUME Dependable, TypeOK, TypeOK', NoOverlap, Progress, Orders, [Next]_vars
  PROVE  Orders'
<1> USE DEF TypeOK
<1>0. \A t \in Threads : /\ t \in Ordered => pc[t] \in AfterOrder
                         /\ pc[t] \notin Admitted => result[t] = None
  BY DEF Orders, OrderingOf, Progress, ProgressOf
<1>1. ASSUME UNCHANGED <<placed, lastOrder, supervisor, pc, local, result>>,
             clock' = clock \/ clock' = clock + 1
      PROVE  Orders'
  <2>1. clock <= clock'
    BY <1>1 DEF BrokerTypeOK
  <2> QED BY <1>0, <1>1, <2>1, OrdersFrame DEF local, supervisor
<1>2. ASSUME NEW t \in Threads, NEW r \in Requests, ReadPositions(t, r) PROVE Orders'
  <2>1. /\ pc[t] = "idle" /\ pc' = [pc EXCEPT ![t] = "orders"]
        /\ request' = [request EXCEPT ![t] = r]
        /\ UNCHANGED <<now, result, clock, placed, lastOrder, successfulFingerprints,
                       lastSuccess>>
    BY <1>2 DEF ReadPositions, supervisor, brokerage
  <2>2. pc'[t] = "orders" /\ t \notin Ordered
    BY <1>0, <2>1 DEF ThreadTypeOK, AfterOrder
  <2>3. \A u \in Threads \ {t} : pc'[u] = pc[u] /\ request'[u] = request[u]
    BY <2>1 DEF ThreadTypeOK
  <2> QED BY <2>1, <2>2, <2>3, StepOrders
       DEF Ordered, Admitted, BeforeOrder, AfterOrder, Steps
<1>3. ASSUME NEW t \in Threads, Skip(t) PROVE Orders'
  <2>1. /\ pc[t] = "admit" /\ pc'[t] = "idle" /\ now'[t] = 0
        /\ result'[t] = None /\ t \notin Ordered
        /\ UNCHANGED <<clock, placed, lastOrder, successfulFingerprints, lastSuccess>>
    BY <1>0, <1>3 DEF Skip, Leave, supervisor, brokerage, ThreadTypeOK, AfterOrder
  <2>2. \A u \in Threads \ {t} : /\ pc'[u] = pc[u] /\ request'[u] = request[u]
                                 /\ result'[u] = result[u] /\ now'[u] = now[u]
    BY <1>3 DEF Skip, Leave, ThreadTypeOK
  <2>3. result'[t] # "EXECUTION_COMPLETED"
    BY <2>1, NoneAssumption DEF Codes
  <2> QED BY <2>1, <2>2, <2>3, StepOrders
       DEF Ordered, Admitted, BeforeOrder, AfterOrder, Steps
<1>4. ASSUME NEW t \in Threads, ReadOpenOrders(t) \/ ReadClock(t) \/ ClockOut(t) PROVE Orders'
  <2>1. /\ \/ pc[t] = "orders" /\ pc'[t] = "clock"
           \/ pc[t] = "clock" /\ pc'[t] = "admit"
           \/ pc[t] = "clock out" /\ pc'[t] = "finish" /\ now'[t] = clock
        /\ now'[t] \in {now[t], clock}
        /\ \A u \in Threads \ {t} : pc'[u] = pc[u] /\ now'[u] = now[u]
    BY <1>4 DEF ReadOpenOrders, ReadClock, ClockOut, ThreadTypeOK
  <2>2. UNCHANGED <<clock, placed, lastOrder, successfulFingerprints, lastSuccess,
                    request, result>>
    BY <1>4 DEF ReadOpenOrders, ReadClock, ClockOut, supervisor, brokerage
  <2> QED BY <1>0, <2>1, <2>2, StepOrders
       DEF Ordered, Admitted, BeforeOrder, AfterOrder, Steps
<1>5. ASSUME NEW t \in Threads,
             Preview(t) \/ Reserve(t) \/ ReserveDuplicate(t) \/ Abort(t)
                 \/ (CallBroker(t) /\ UNCHANGED brokerage)
      PROVE  Orders'
  <2>1. pc[t] \in Admitted /\ pc[t] \notin AfterOrder
    BY <1>5 DEF Preview, Reserve, ReserveDuplicate, CallBroker, Abort, Admitted, Steps,
       AfterOrder
  <2>2. /\ pc'[t] \in {"reject", "complete", "reserve", "broker", "abort", "announce", "clock out"}
        /\ pc'[t] \in BeforeOrder => pc[t] \in BeforeOrder
        /\ result'[t] # "EXECUTION_COMPLETED"
        /\ \A u \in Threads \ {t} : pc'[u] = pc[u] /\ result'[u] = result[u]
    <3>0. None # "EXECUTION_COMPLETED"
      BY NoneAssumption DEF Codes
    <3>1. CASE Preview(t) \/ Reserve(t) \/ ReserveDuplicate(t) \/ Abort(t)
      <4>1. PICK step \in {"reject", "complete", "reserve", "broker", "abort", "clock out"},
                 code \in {"PREVIEW_REJECTED", "PREVIEW_COMPLETED", "DUPLICATE_SUBMISSION",
                          "SUPERVISOR_ABORTED", None} :
              Goto(t, step, code) /\ (step \in BeforeOrder => pc[t] \in BeforeOrder)
        BY <3>1 DEF Preview, Reserve, ReserveDuplicate, Abort, BeforeOrder
      <4> QED BY <3>0, <4>1 DEF Goto, ThreadTypeOK
    <3>2. CASE CallBroker(t) /\ UNCHANGED brokerage
      <4>1. ~Take(t)
        <5> SUFFICES ASSUME Take(t), UNCHANGED placed PROVE FALSE
          BY <3>2 DEF brokerage
        <5>1. Trade(t) \in Trades
          BY <3>2, RequestType DEF CallBroker
        <5> QED BY <5>1 DEF Take, BrokerTypeOK
      <4> QED BY <3>2, <4>1 DEF CallBroker, Goto, ThreadTypeOK, BeforeOrder
    <3> QED BY <1>5, <3>1, <3>2
  <2>3. UNCHANGED <<clock, placed, lastOrder, successfulFingerprints, lastSuccess,
                    request, now>>
    BY <1>5 DEF Preview, Reserve, ReserveDuplicate, CallBroker, Abort, supervisor,
       brokerage, local
  <2>4. t \notin Ordered
    BY <1>0, <2>1
  <2> QED BY <2>1, <2>2, <2>3, <2>4, StepOrders DEF Ordered
<1>6. ASSUME NEW t \in Threads, Announce(t) \/ Release(t) \/ Complete(t) \/ Reject(t)
      PROVE  Orders'
  <2>1. /\ pc[t] \in {"announce", "release", "complete", "reject"}
        /\ result'[t] = result[t]
        /\ pc'[t] \in {"release", "complete", "abort", "reject", "clock out"}
        /\ result[t] = "EXECUTION_COMPLETED" => pc'[t] \in AfterOrder
        /\ \A u \in Threads \ {t} : pc'[u] = pc[u] /\ result'[u] = result[u]
    <3>1. CASE Announce(t) \/ Complete(t) \/ Reject(t)
      BY <3>1 DEF Announce, Complete, Reject, Publish, Dependable, Goto, ThreadTypeOK,
         AfterOrder
    <3>2. CASE Release(t)
      <4>1. PICK step \in {"complete", "abort", "reject"} : Goto(t, step, result[t])
        BY <3>2 DEF Release
      <4>2. ASSUME result[t] = "EXECUTION_COMPLETED"
            PROVE  Goto(t, "complete", result[t])
        <5>1. result[t] # None
          BY <4>2, NoneAssumption DEF Codes
        <5> QED BY <3>2, <4>2, <5>1, Zenon DEF Release
      <4> QED BY <3>2, <4>1, <4>2 DEF Release, Goto, ThreadTypeOK, AfterOrder
    <3> QED BY <1>6, <3>1, <3>2
  <2>2. UNCHANGED <<clock, placed, lastOrder, successfulFingerprints, lastSuccess,
                    request, now>>
    BY <1>6 DEF Announce, Release, Complete, Reject, supervisor, brokerage, local
  <2> QED BY <2>1, <2>2, StepOrders DEF Ordered, Admitted, BeforeOrder, Steps
<1>7. ASSUME NEW t \in Threads, CallBroker(t), ~UNCHANGED brokerage PROVE Orders'
  <2>1. Take(t) /\ Goto(t, "announce", "EXECUTION_COMPLETED")
    BY <1>7 DEF CallBroker, Dependable
  <2> QED BY <1>7, <2>1, TakeOrders DEF CallBroker
<1>8. CASE Tick \/ \E s \in Symbols : Fill(s) \/ Close(s)
  BY <1>1, <1>8 DEF Tick, Fill, Close, brokerage
<1>9. CASE UNCHANGED vars
  BY <1>1, <1>9 DEF vars, brokerage
<1>10. ASSUME NEW t \in Threads, Execute(t) PROVE Orders'
  BY <1>3, <1>4, <1>5, <1>6, <1>7, <1>10, AdmitOrders, FinishOrders DEF Execute
<1>11. ASSUME NEW t \in Threads PROVE ~Interrupt(t)
  BY DEF Interrupt, Dependable
<1> QED BY <1>2, <1>8, <1>9, <1>10, <1>11 DEF Next

(***************************************************************************)
(* Theorems.                                                               *)
(***************************************************************************)
LEMMA InitInductive == Init => IInv
<1> SUFFICES ASSUME Init PROVE IInv
  OBVIOUS
<1>1. Workflows = {} /\ Reservations = {}
  BY DEF Init, Workflows, Reservations, Admitted, Reserved
<1> QED BY <1>1, InitType, NoneAssumption
     DEF Init, IInv, NoOverlap, BooksBalance, Progress, ProgressOf, Admitted,
         SubmittedIsPlaced, Codes

LEMMA Inductive == Spec => []IInv
<1>1. IInv /\ [Next]_vars => IInv'
  BY NextType, NextBooks, NextProgress DEF IInv
<1> QED BY InitInductive, <1>1, PTL DEF Spec

\* Admitted workflows never overlap on a symbol or on a key, for any number
\* of threads and whatever fails (ExecutionSupervisor._admit and _finish).
THEOREM Exclusion == Spec => []NoOverlap
BY Inductive, PTL DEF IInv

\* No path through execute leaves a symbol, key, fingerprint or reservation
\* behind, or gives back one that is still in use.
THEOREM Balance == Spec => []BooksBalance
BY Inductive, PTL DEF IInv

\* What is remembered as submitted was taken by the broker.
THEOREM TruthfulRecords == Spec => []SubmittedIsPlaced
BY Inductive, PTL DEF IInv

\* The completed result of an idempotency key is never replaced.
THEOREM CompletedStays == Spec => CompletedIsFinal
<1> DEFINE Keeps == \A k \in Keys :
                      completedByKey[k] # None =>
                        completedByKey'[k] = completedByKey[k]
<1>1. ASSUME IInv, [Next]_vars PROVE [Keeps]_vars
  <2>1. CASE UNCHANGED completedByKey
    BY <2>1
  <2>2. ASSUME NEW t \in Threads, Finish(t) PROVE Keeps
    <3>1. completedByKey[request[t].key] = None
      BY <1>1, <2>2 DEF IInv, Progress, ProgressOf, Finish, Admitted, Steps
    <3> QED BY <1>1, <2>2, <3>1
         DEF IInv, TypeOK, SupervisorTypeOK, Finish
  <2>3. ASSUME NEW t \in Threads, Execute(t), ~Finish(t)
        PROVE  UNCHANGED completedByKey
    BY <2>3 DEF Execute, ReadOpenOrders, ReadClock, Admit, Skip, Preview,
         Reserve, ReserveDuplicate, CallBroker, Announce, Release, Complete,
         Reject, Abort, ClockOut, supervisor
  <2> QED BY <1>1, <2>1, <2>2, <2>3
       DEF Next, vars, supervisor, Tick, Fill, Close, ReadPositions, Interrupt
<1> QED BY <1>1, Inductive, PTL DEF Spec, CompletedIsFinal

\* The strengthening that the two theorems below rest on.
LEMMA OrdersInductive == Dependable => (Spec => []Orders)
<1> SUFFICES ASSUME Dependable PROVE Spec => []Orders
  OBVIOUS
<1>1. Init => Orders
  <2> SUFFICES ASSUME Init PROVE Orders
    OBVIOUS
  <2>1. \A t \in Threads : OrderingOf(t)
    <3> SUFFICES ASSUME NEW t \in Threads PROVE OrderingOf(t)
      OBVIOUS
    <3>1. pc[t] = "idle" /\ now[t] <= clock /\ t \notin Ordered
      BY NoneAssumption DEF Init, Ordered, Codes
    <3> QED BY <3>1 DEF OrderingOf, Admitted, BeforeOrder, Steps
  <2> QED BY <2>1 DEF Init, Orders
<1>2. IInv /\ IInv' /\ Orders /\ [Next]_vars => Orders'
  BY NextOrders DEF IInv
<1> QED BY <1>1, <1>2, Inductive, PTL DEF Spec

\* If every order is answered as taken, the broker takes at most one order of
\* a trade, whatever the keys it is requested under (OneOrderPerTrade).
THEOREM OneOrder == Dependable => (Spec => []OneOrderPerTrade)
<1> SUFFICES ASSUME Dependable PROVE Spec => []OneOrderPerTrade
  OBVIOUS
<1>1. Orders => OneOrderPerTrade
  BY DEF Orders, OneOrderPerTrade
<1>2. Spec => []Orders
  BY OrdersInductive
<1> QED BY <1>1, <1>2, PTL

\* And two orders of one symbol are a window apart at the broker, although
\* both instants compared are read outside the lock (CooldownKept).
THEOREM Cooldown == Dependable => (Spec => CooldownKept)
<1> SUFFICES ASSUME Dependable PROVE Spec => CooldownKept
  OBVIOUS
<1> DEFINE Apart == \A d \in Trades :
                      placed'[d] # placed[d] /\ lastOrder[d.symbol] # None =>
                        clock - lastOrder[d.symbol] >= Window
<1>1. ASSUME IInv, Orders, [Next]_vars PROVE [Apart]_vars
  <2>1. CASE UNCHANGED placed
    BY <2>1
  <2>2. ASSUME NEW t \in Threads, CallBroker(t) PROVE Apart
    <3>1. pc[t] = "broker" /\ (Take(t) \/ UNCHANGED placed)
      BY <2>2 DEF CallBroker, brokerage
    <3>2. lastOrder[Symbol(t)] # None => clock - lastOrder[Symbol(t)] >= Window
      BY <1>1, <3>1, FirstOrder DEF IInv
    <3>3. \A d \in Trades : placed'[d] # placed[d] => d = Trade(t)
      BY <1>1, <3>1 DEF Take, IInv, TypeOK, BrokerTypeOK
    <3> QED BY <3>2, <3>3 DEF Symbol, Trade
  <2>3. ASSUME NEW t \in Threads, Execute(t), ~CallBroker(t) PROVE UNCHANGED placed
    BY <2>3 DEF Execute, ReadOpenOrders, ReadClock, Admit, Skip, Preview, Reserve,
       ReserveDuplicate, Announce, Release, Complete, Reject, Abort, ClockOut, Finish,
       brokerage
  <2> QED BY <1>1, <2>1, <2>2, <2>3
       DEF Next, vars, brokerage, Tick, Fill, Close, ReadPositions, Interrupt
<1>2. Spec => []Orders
  BY OrdersInductive
<1> QED BY <1>1, <1>2, Inductive, PTL DEF Spec, CooldownKept

=============================================================================
