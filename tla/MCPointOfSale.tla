---------------------------- MODULE MCPointOfSale ----------------------------
(* Model checking of PointOfSale.  No symmetry: a liveness property is checked. *)
EXTENDS PointOfSale
=============================================================================
