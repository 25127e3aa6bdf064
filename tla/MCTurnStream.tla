---------------------------- MODULE MCTurnStream ----------------------------
(* TurnStream with small numbers for TLC; its constants are all numbers.    *)
EXTENDS TurnStream
=============================================================================
