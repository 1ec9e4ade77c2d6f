--------------------------- MODULE MCWorkTaskEngine ---------------------------
(* Small instances of WorkTaskEngine for TLC. *)
EXTENDS WorkTaskEngine, TLC

\* Tasks are interchangeable, and so are the requests of an agent.
Symmetry == Permutations(Tasks) \cup Permutations(Keys)
=============================================================================
