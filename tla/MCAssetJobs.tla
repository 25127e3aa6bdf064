----------------------------- MODULE MCAssetJobs -----------------------------
(* AssetJobs with finite sets for TLC.                                      *)
EXTENDS AssetJobs, TLC

\* workers, requests, keys and ids are interchangeable: no action tells them apart
Symmetric == Permutations(Workers) \cup Permutations(Requests)
               \cup Permutations(Keys) \cup Permutations(AssetIds)
=============================================================================
