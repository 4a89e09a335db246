--------------------------- MODULE MCNegotiation ---------------------------
(***************************************************************************)
(* Model checking of Negotiation: agent C and one of the other two.        *)
(***************************************************************************)
EXTENDS Negotiation

MCAgents == {"risk", "counter"}

MCPayload == [risk |-> {"ok"}, counter |-> {"draft", NoDraft}]
=============================================================================
