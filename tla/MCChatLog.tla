----------------------------- MODULE MCChatLog ------------------------------
(* ChatLog on two turns; a batch is one exchange (EveryN = 1) so that       *)
(* every turn can find the backlog due.                                     *)
EXTENDS ChatLog
=============================================================================
