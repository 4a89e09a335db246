------------------------------ MODULE MCIntake ------------------------------
(***************************************************************************)
(* Model checking of Intake with a lexicon of four entries.                *)
(***************************************************************************)
EXTENDS Intake

MCTerms == <<"pihak">> :> 1

MCPhrases == <<"pasal", "n">> :> 4 @@ <<"pihak">> :> 5

MCNegative == <<"resep">> :> 1

MCMarkers == <<"pasal", "n">> :> 5
=============================================================================
