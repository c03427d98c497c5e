------------------------- MODULE MCBotCredentials --------------------------
(* ann may enroll a bot of her own, or run the organization that enrolls    *)
(* one and steward it.                                                      *)
EXTENDS BotCredentials, TLC

CONSTANTS d1, d2

Symmetry == Permutations(Bodies)
=============================================================================
