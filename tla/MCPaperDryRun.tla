---------------------------- MODULE MCPaperDryRun ----------------------------
(***************************************************************************)
(* Instances of PaperDryRun for TLC.                                       *)
(***************************************************************************)
EXTENDS PaperDryRun, TLC

Command(operation, revision, bound, from, until, operations, required) ==
    [operation |-> operation, revision |-> revision, bound |-> bound, from |-> from,
     until |-> until, snapshot |-> [operations |-> operations, required |-> required]]

\* A submission whose approval holds for an instant, one that expects a later
\* revision, a replacement whose approval is bound to an intent it does not
\* have, and a cancellation made under a policy that did not ask for paper.
MCCommands ==
    {Command("SUBMIT", 0, "intent", 1, 2, {"SUBMIT"}, SnapshotFlags),
     Command("SUBMIT", 1, "aggregate", 0, None, {"SUBMIT"}, SnapshotFlags),
     Command("REPLACE", 1, "intent", 0, 2, Operations, SnapshotFlags),
     Command("CANCEL", 0, "aggregate", 0, None, {"CANCEL"}, SnapshotFlags \ {"paper"})}

Policy(operations, required, binding, unexpired, snapshot, external, keyConsistency) ==
    [operations |-> operations, required |-> required, binding |-> binding,
     unexpired |-> unexpired, snapshot |-> snapshot, initialRevision |-> TRUE,
     external |-> external, keyConsistency |-> keyConsistency]

\* The default policy, one that asks for no approval, one that allows no
\* cancellation, one that asks for an external clearance.
MCPolicies ==
    {Policy(Operations, SnapshotFlags, TRUE, TRUE, TRUE, {}, FALSE),
     Policy(Operations, {}, FALSE, FALSE, TRUE, {}, FALSE),
     Policy({"SUBMIT"}, SnapshotFlags, TRUE, TRUE, TRUE, {}, FALSE),
     Policy(Operations, SnapshotFlags, TRUE, TRUE, FALSE, {"emergencyStop"}, FALSE)}

AllFacts ==
    [current |-> TRUE, paper |-> TRUE, prior |-> None, approval |-> TRUE,
     reserved |-> TRUE, clearance |-> TRUE, prerequisites |-> TRUE]

\* All facts, and every way of missing one.
MCFactSets ==
    {AllFacts}
        \cup {[AllFacts EXCEPT ![fact] = FALSE] : fact \in DOMAIN AllFacts \ {"prior"}}
        \cup {[AllFacts EXCEPT !.prior = prior] :
                  prior \in {"COMMAND_CONFLICT", "IDEMPOTENCY_REPLAY"}}

MCLoadable ==
    {[state |-> "ELIGIBILITY_EVALUATED", revision |-> 1],
     [state |-> "DISPATCH_PENDING", revision |-> 5],
     [state |-> "OUTCOME_UNKNOWN", revision |-> 7]}
=============================================================================
