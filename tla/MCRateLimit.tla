---------------------------- MODULE MCRateLimit ----------------------------
(***************************************************************************)
(* Model checking of RateLimit on small instances.                         *)
(***************************************************************************)
EXTENDS RateLimit, TLC

\* The processes are interchangeable.  The keys are not: one has a shorter window.
Symmetry == Permutations(Procs)

\* A key with a short window, as of the requests per minute, and the others
\* with a long one, as of the uploads per hour.
TwoLengths ==
  LET short == CHOOSE k \in Keys : TRUE
  IN  [k \in Keys |-> IF k = short THEN 1 ELSE 2]
=============================================================================
