----------------------------- MODULE MCCashDesk -----------------------------
(* Model checking of CashDesk: ids are interchangeable, so they are symmetric. *)
EXTENDS CashDesk, TLC

\* Bound: one approval of a receivable is looked at, that of the receivable by hand; an
\* approval writes a column that no handler reads except another approval.
ApprovedByHand == \A i \in Sale : account[i].approvedBy = NoUser

Symmetry ==
    Permutations(Worker) \cup Permutations(User) \cup Permutations(Sale)
    \cup Permutations(ManualAccount) \cup Permutations(Payment)
=============================================================================
