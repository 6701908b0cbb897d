--------------------------- MODULE MCTurnControl ---------------------------
(* TurnControl with two requests of the user.                              *)
EXTENDS TurnControl
=============================================================================
