------------------------------ MODULE MCOwner ------------------------------
(***************************************************************************)
(* Model checking of OwnerIdentity.                                        *)
(***************************************************************************)
EXTENDS OwnerIdentity, TLC

\* A link with the old or the new token.
MCCredentials == {[header |-> 0, query |-> 1], [header |-> 0, query |-> 2]}

MCSymmetry == Permutations(Browsers) \cup Permutations(Requests)
=============================================================================
