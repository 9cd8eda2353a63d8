--------------------------- MODULE MCModelRouting ---------------------------
(***************************************************************************)
(* An instance of ModelRouting: the two shapes of ROUTING_TABLE that share *)
(* the fallback provider, and calls that overlap.                          *)
(***************************************************************************)
EXTENDS ModelRouting

CONSTANTS anthropic, openai, groq, k1, k2

MCTwoRoutes == {<<anthropic, groq>>, <<openai, groq>>}
=============================================================================
