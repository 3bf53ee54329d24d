-------------------------- MODULE MCOperatorRecovery --------------------------
(***************************************************************************)
(* Instances of OperatorRecovery for TLC.                                  *)
(***************************************************************************)
EXTENDS OperatorRecovery, TLC

CONSTANTS w1, w2, m0, m1, m2, m3, m4, k1, k2, k3, k4, v1, v2, v3, v4, e1, e2, e3, e4, t1, t2

Request(command, key, approval, destination, evidence, outcome, recorded) ==
    [command |-> command, key |-> key, approval |-> approval, destination |-> destination,
     evidence |-> evidence, outcome |-> outcome, recorded |-> recorded]

\* A recovery; one of the same evidence compared at another instant; one by
\* another operator of the same comparison, to a state that stays open; one
\* that shares key and operation with the first; a comparison that stays
\* unresolved, under the approval of the first; one the broker can prove.
MCRequests ==
    {Request(m1, k1, v1, "FILLED", e1, "OPERATOR_ACTION_REQUIRED", t1),
     Request(m1, k1, v1, "FILLED", e1, "OPERATOR_ACTION_REQUIRED", t2),
     Request(m2, k2, v2, "BROKER_ACKNOWLEDGED", e1, "OPERATOR_ACTION_REQUIRED", t1),
     Request(m3, k1, v3, "FILLED", e1, "OPERATOR_ACTION_REQUIRED", t1),
     Request(m4, k4, v1, "CANCELLED", e2, "UNRESOLVED", t1),
     Request(m2, k3, v2, "FILLED", e3, "BROKER_AHEAD", t1)}

MCWorkers == {w1, w2}
MCVersions == {0, 3, 4, 5}
=============================================================================
