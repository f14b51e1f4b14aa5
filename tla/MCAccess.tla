------------------------------ MODULE MCAccess -------------------------------
(* Model checking of Access: ids are interchangeable. *)
EXTENDS ClubAccess, TLC

Spec == Gate!Spec

Symmetry ==
    Permutations(Worker) \cup Permutations(Link) \cup Permutations(Lock)
    \cup Permutations(Login) \cup Permutations(Password) \cup Permutations(Secret)
=============================================================================
