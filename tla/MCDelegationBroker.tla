-------------------------- MODULE MCDelegationBroker --------------------------
(* Small instances of DelegationBroker for TLC. *)
EXTENDS DelegationBroker, TLC

\* Calls that may do the same are interchangeable.
Symmetry ==
  Permutations(Starts \ Cancelable) \cup Permutations(Calls \ (Starts \cup Cancelable))
=============================================================================
