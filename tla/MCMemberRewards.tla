--------------------------- MODULE MCMemberRewards ---------------------------
(* Model checking of MemberRewards: ids are interchangeable. *)
EXTENDS MemberRewards, TLC

Symmetry ==
    Permutations(Worker) \cup Permutations(Member) \cup Permutations(Redemption)
=============================================================================
