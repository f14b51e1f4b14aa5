------------------------------ MODULE MCRaces -------------------------------
(***************************************************************************)
(* Model checking of overlapping requests in CashDesk, MemberRewards and   *)
(* Staff.  They share no row, so that a step of one changes nothing that   *)
(* is said of the others: TLC looks at them one after the other, and part  *)
(* tells which of them has requests.  Of edits of rewards it looks at      *)
(* those that leave the reward active and both columns of the stock null   *)
(* or neither, up to one that begins or ceases to count it;                *)
(* MCMemberRewards looks at all.  Staff is looked at twice: with requests  *)
(* about powers, two of which can be given, and with requests about the    *)
(* seats of the plan, with tokens of the founder and one more employee.    *)
(***************************************************************************)
EXTENDS CashDesk, RewardTables, ClubStaff, TLC

CONSTANT Last    \* the employee more

VARIABLE part

shop == <<balance, entries, reward, redemption, lost, supplied, recounted>>
staff == <<role, status, override, token, entrusted, unblocked, left, crossed>>

Shop == INSTANCE MemberRewards WITH
    Amount <- {1}, Cost <- Amount, Stock <- {1}, MaxGranted <- 1, MaxWithdrawn <- 1

MCInit ==
    /\ Init
    /\ Shop!Init
    /\ Team!Init
    /\ part \in {"desk", "shop", "powers", "seats"}

MCNext ==
    /\ UNCHANGED part
    /\ \/ /\ part = "desk"
          /\ Next
          /\ UNCHANGED <<shop, staff>>
       \/ /\ part = "shop"
          /\ Shop!Next
          /\ \A r \in Reward : reward'[r].status \in {"NONE", "ACTIVE"}
                               /\ reward'[r].stocked = reward'[r].stockLimit
          /\ recounted # {} /\ reward' # reward => redemption' # redemption
          /\ UNCHANGED <<Tables, staff>>
       \/ /\ part = "powers"
          /\ Team!Next
          /\ \A e \in Employee : role'[e] # "EMPLOYEE"
          /\ role'[Last] = "NONE"
          /\ \A e \in Employee, p \in {"users.update", "users.disable"} :
                override'[e][p] = "NONE"
          /\ UNCHANGED <<status, left, Tables, shop>>
       \/ /\ part = "seats"
          /\ Team!Next
          /\ \A e \in Employee : role'[e] # "MANAGER"
          /\ \A a \in Team!Actor \ {Founder} : token'[a] = {}
          /\ UNCHANGED <<override, Tables, shop>>

MCSpec == MCInit /\ [][MCNext]_<<part, vars, shop, staff>>

\* Ids are interchangeable; employees and redemptions take theirs from the same set, which
\* keeps the group of permutations small.
Symmetry == Permutations(Worker) \cup Permutations(Redemption)
=============================================================================
