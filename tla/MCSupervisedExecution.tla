----------------------- MODULE MCSupervisedExecution -----------------------
(***************************************************************************)
(* Finite instances of SupervisedExecution: two threads, and requests that *)
(* collide on a trade, on a key, on a correlation identity or on a symbol. *)
(***************************************************************************)
EXTENDS SupervisedExecution, TLC

CONSTANTS t1, t2, aapl, msft, p1, p2, k1, k2, k3, x1, x2

Of(prices, mode) == [symbol |-> aapl, prices |-> prices, mode |-> mode]

Other == [symbol |-> msft, prices |-> p1, mode |-> "SUBMIT"]

Ask(key, correlation, trade) ==
  [key |-> key, correlation |-> correlation, trade |-> trade,
   market |-> "OPEN", size |-> 1]

\* One trade under two keys and one correlation identity, a trade of another
\* symbol and a preview that reuse these keys.
MCRequests ==
  {Ask(k1, x1, Of(p1, "SUBMIT")), Ask(k2, x1, Of(p1, "SUBMIT")),
   Ask(k1, x2, Other), Ask(k2, x2, Of(p2, "PREVIEW_ONLY"))}

\* And the trade at another size under the same correlation identity.
MCResized == MCRequests \cup {[Ask(k3, x1, Of(p1, "SUBMIT")) EXCEPT !.size = 2]}

\* One trade under two keys, each with a correlation identity of its own.
MCSameTrade ==
  {Ask(k1, x1, Of(p1, "SUBMIT")), Ask(k2, x2, Of(p1, "SUBMIT"))}

\* One trade under two keys, another trade of its symbol, and that trade
\* while the market is closed.
MCCoolingDown ==
  LET other == Ask(k3, x2, Of(p2, "SUBMIT"))
  IN  MCSameTrade \cup {other, [other EXCEPT !.market = "CLOSED"]}

MCAllSound == {}
MCOtherIsUnsound == {Other}

ThreadSymmetry == Permutations(Threads)

=============================================================================
