------------------------ MODULE MCShadowObservation ------------------------
EXTENDS ShadowObservation, TLC
(***************************************************************************)
(* Two runs, one new and one with its submission prepared; evaluations     *)
(* that match with an action and without, that mismatch, that cannot be    *)
(* compared and that fail; a facade that names no order, the order asked   *)
(* for or another; and the strict policy with three results.               *)
(***************************************************************************)
CONSTANTS o1, o2, r1, r2, k1, k2

Evaluation(run, key, kind, guards, shares, legacy, approved) ==
  [shadow |-> TRUE, run |-> run, key |-> key, kind |-> kind,
   guards |-> guards, expected |-> 0, shares |-> shares, legacy |-> legacy,
   approved |-> approved, replays |-> FALSE]

Begun == {"SCENARIO_AUTHORIZED", "PAPER_ENVIRONMENT"}

MCOffered ==
  {Evaluation(r1, k1, "START_QUALIFICATION", Begun, 0, "NO_ACTION", "unstated"),
   Evaluation(r2, k1, "START_QUALIFICATION", Begun, 0, "NO_ACTION", "unstated"),
   \* The observation of an approved preview.
   Evaluation(r1, k1, "START_QUALIFICATION", {"PAPER_ENVIRONMENT"}, 1,
              "PROCEED", "yes"),
   Evaluation(r1, k2, "PRECHECKS_FAILED", {"EVIDENCE_AVAILABLE"}, 0,
              "BLOCK", "no")}
    \cup
  \* One submission, asked for under two keys.
  {Evaluation(r2, key, "BROKER_REQUEST_SENT",
              {"BROKER_CAPABILITY_AVAILABLE", "NO_DUPLICATE_KEY",
               "PAPER_ENVIRONMENT"}, 1, "REQUEST_SUBMISSION", "yes") :
     key \in {k1, k2}}

MCDeliveries ==
  {[Evaluation(r2, "d1", "BROKER_REQUEST_OUTCOME_UNCERTAIN",
               {"BROKER_OUTCOME_UNKNOWN", "BROKER_SEND_UNCERTAIN"}, 0,
               "NO_ACTION", "unstated") EXCEPT !.shadow = FALSE]}

\* The second run is absent, waits for its start or is about to send.
MCStored ==
  {(r1 :> Absent) @@ (r2 :> run) :
     run \in {Absent, Fresh, [state |-> "SUBMISSION_PENDING",
                              result |-> "PENDING", revision |-> 1]}}

\* One result less than strict_validation_policy asks for.
StrictPolicy ==
  [total |-> 3, unique |-> 2, repeatable |-> 1, replay |-> TRUE,
   conflicts |-> 0, errors |-> 0, invalid |-> 0, incomparable |-> 0,
   mismatches |-> 0, matchRatio |-> TRUE, allowed |-> {},
   prohibited |-> {}]

Symmetry == Permutations(Observers)
=============================================================================
