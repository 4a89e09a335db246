---------------------------- MODULE MCResultPage ----------------------------
(***************************************************************************)
(* Model checking of ResultPage and Negotiation: agent C alone, whose      *)
(* draft may be a text or empty, so that a run without a useful result     *)
(* fails and one with an empty draft is done.                              *)
(***************************************************************************)
EXTENDS ResultPage

MCPayload == [counter |-> {"draft", NoDraft}]
=============================================================================
