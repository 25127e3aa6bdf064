--------------------------- MODULE MCContentPublish ---------------------------
(* ContentPublish with finite sets for TLC.                                 *)
EXTENDS ContentPublish, TLC

\* no action tells requests, keys or contents apart
Symmetric == Permutations(Requests) \cup Permutations(Keys) \cup Permutations(Contents)
=============================================================================
