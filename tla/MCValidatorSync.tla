----------------------------- MODULE MCValidatorSync -----------------------------
(* Small instances of ValidatorSync for TLC. *)
EXTENDS ValidatorSync, TLC

Symmetry == Permutations(Workers) \cup Permutations(Keys)
=================================================================================
