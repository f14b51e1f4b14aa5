------------------------------ MODULE MCBilling ------------------------------
(* Model checking of Billing: requests, tenants and invoices are interchangeable. *)
EXTENDS Billing, TLC

Symmetry ==
    Permutations(Worker) \cup Permutations(Tenant) \cup Permutations(Invoice)
=============================================================================
