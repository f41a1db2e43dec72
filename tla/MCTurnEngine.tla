--------------------------- MODULE MCTurnEngine ----------------------------
(* TurnEngine on two turns of one session, or on one.                       *)
EXTENDS TurnEngine
=============================================================================
