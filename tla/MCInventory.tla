----------------------------- MODULE MCInventory ----------------------------
(* Model checking of Inventory: ids are interchangeable, so they are symmetric. *)
EXTENDS Inventory, TLC

Symmetry == Permutations(Worker) \cup Permutations(Product) \cup Permutations(Sale)
=============================================================================
