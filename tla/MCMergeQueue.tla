----------------------------- MODULE MCMergeQueue -----------------------------
(* Small instances of MergeQueue for TLC. *)
EXTENDS MergeQueue, TLC

\* Dispatchers are interchangeable, and so are the options of a merge.
Symmetry == Permutations(Dispatchers) \cup Permutations(Intents)
=============================================================================
