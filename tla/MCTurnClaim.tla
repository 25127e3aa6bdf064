----------------------------- MODULE MCTurnClaim -----------------------------
(* TurnClaim with finite sets for TLC.                                      *)
EXTENDS TurnClaim, TLC

\* workers, keys and inputs are interchangeable: no action tells them apart
Symmetric == Permutations(Workers) \cup Permutations(Keys) \cup Permutations(Inputs)
=============================================================================
