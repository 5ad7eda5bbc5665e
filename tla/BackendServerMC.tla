-------------------------- MODULE BackendServerMC --------------------------
(* Model-checking instances of BackendServer: worker slots are symmetric. *)
EXTENDS BackendServer, TLC

Symmetry == Permutations(Pollers) \cup Permutations(Previews) \cup Permutations(Setups)
=============================================================================
