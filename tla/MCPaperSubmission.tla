------------------------- MODULE MCPaperSubmission -------------------------
(***************************************************************************)
(* Finite instances of PaperSubmission: two workers, two or three          *)
(* commands and their submissions, two broker references.                  *)
(***************************************************************************)
EXTENDS PaperSubmission, FiniteSets, TLC

CONSTANTS w1, w2, c1, c2, c3, s1, s2, s3, ref1, ref2

Ask(s, c, k) == [submission |-> s, command |-> c, key |-> k]

\* Each command under a submission of its own, and a request that reuses the
\* submission of another command.
MCRequests == {Ask(s1, c1, c1), Ask(s2, c2, c2), Ask(s1, c2, c2)}

\* As above, with a request that presents the key of another command.
MCMismatchedRequests == {Ask(s1, c1, c1), Ask(s2, c2, c2), Ask(s2, c2, c1)}

\* Every kind of misuse beside each other.
MCAllRequests == MCRequests \cup MCMismatchedRequests

MCPlainRequests == {Ask(s1, c1, c1), Ask(s2, c2, c2), Ask(s3, c3, c3)}

Flags(e, s, l) == [enabled |-> e, emergencyStop |-> s, legacyAuthority |-> l]

Open == Flags(TRUE, FALSE, FALSE)

MCOpenOnly    == {Open}

\* The row that permits dispatch, and three that refuse for one reason each.
MCSettings == {Open, Flags(FALSE, FALSE, FALSE), Flags(TRUE, TRUE, FALSE),
               Flags(TRUE, FALSE, TRUE)}

NoInvalidOrders  == {}
ThirdIsInvalid   == {c3}
NeverExpires     == [c \in Commands |-> MaxClock]
ExpiresAtOnce    == [c \in Commands |-> 0]

WorkerSymmetry    == Permutations(Workers)
ReferenceSymmetry == Permutations(References)
Symmetry          == WorkerSymmetry \cup ReferenceSymmetry

=============================================================================
