---------------------- MODULE MCQualificationCampaign ----------------------
EXTENDS QualificationCampaign, TLC
(***************************************************************************)
(* One operator beside the harness, two keys, and three scenarios: one     *)
(* that sends and repeats the send, one that ends in a rejection, and one  *)
(* that is not executable.                                                 *)
(***************************************************************************)
CONSTANTS op1, k1, k2
NotPaper == [IdempotencyConflict EXCEPT !.environment = "LIVE"]
MCOffered == {DuplicateCommand, IdempotencyConflict, NotPaper}
Symmetry == Permutations(Keys)
=============================================================================
