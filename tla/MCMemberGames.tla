---------------------------- MODULE MCMemberGames ----------------------------
(* Model checking of MemberGames: requests and sessions are interchangeable. *)
EXTENDS ClubGames, TLC

Spec == Games!Spec

Symmetry == Permutations(Worker) \cup Permutations(Session)
=============================================================================
