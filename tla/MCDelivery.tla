------------------------------- MODULE MCDelivery -------------------------------
(* Small instances of Delivery for TLC. *)
EXTENDS Delivery, TLC

Symmetry == Permutations(Batches) \cup Permutations(SiteWorkers)
              \cup Permutations(CentralWorkers)
=================================================================================
