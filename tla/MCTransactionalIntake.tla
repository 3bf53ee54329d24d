------------------------ MODULE MCTransactionalIntake ------------------------
(***************************************************************************)
(* Instances of TransactionalIntake for TLC.                               *)
(***************************************************************************)
EXTENDS TransactionalIntake, TLC

CONSTANTS c1, c2, c3, k1, k2, m1, m2, m3, a1, a2, p1, p2, v1, v2, s1, s2

Request(command, key, aggregate, payload, approval) ==
    [command |-> command, key |-> key, aggregate |-> aggregate,
     payload |-> payload, approval |-> approval]

\* A request; the same command with another payload; another command with the
\* same key and payload for another aggregate; a command that reuses the
\* approval, bound to another payload, for the first aggregate.
MCRequests ==
    {Request(m1, k1, a1, p1, v1), Request(m1, k1, a1, p2, v2),
     Request(m2, k1, a2, p1, v1), Request(m3, k2, a1, p2, v1)}

MCPrior == {Request(m1, k1, a1, p1, v1)}

\* Two submissions of the first command, and one of the command that shares its key.
MCAttempts ==
    {[submission |-> s1, command |-> m1, key |-> k1],
     [submission |-> s2, command |-> m1, key |-> k1],
     [submission |-> s1, command |-> m2, key |-> k1]}

MCNoPrior == {}
MCIsolations == {"snapshot", "immediate"}
MCSnapshot == {"snapshot"}
MCCallers == {c1, c2, c3}
MCTwoCallers == {c1, c2}
Symmetry == Permutations(Callers)
=============================================================================
