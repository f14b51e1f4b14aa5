------------------------------ MODULE RewardBook -----------------------------
(***************************************************************************)
(* What the reward shop of the member portal promises, without requests,   *)
(* rows of history or stale reads: a member never owes points, a claim is  *)
(* made at the price and from the stock of an open offer, and it is        *)
(* refused, with its points given back, or accepted and then handed over;  *)
(* each once.  A unit is taken and put back if the stock of the offer is   *)
(* counted at the time.                                                    *)
(***************************************************************************)
EXTENDS Integers

CONSTANTS Member, Reward, Redemption

VARIABLES points, offer, claim

vars == <<points, offer, claim>>
-----------------------------------------------------------------------------
Offer == [open : BOOLEAN, price : Nat, counted : BOOLEAN, stock : Nat]
NoClaim == [state |-> "NONE"]
Claim ==
    {NoClaim}
    \cup [state : {"REQUESTED", "APPROVED", "REJECTED", "DELIVERED"},
          member : Member, reward : Reward, price : Nat]

Consistent ==
    /\ points \in [Member -> Nat]
    /\ offer \in [Reward -> Offer]
    /\ claim \in [Redemption -> Claim]

Init ==
    /\ points = [m \in Member |-> 0]
    /\ offer = [r \in Reward |-> [open |-> FALSE, price |-> 0, counted |-> FALSE, stock |-> 0]]
    /\ claim = [x \in Redemption |-> NoClaim]

\* One unit of a reward leaves (n = -1) or returns (n = 1), if its stock is counted then.
Units(r, n) == IF offer[r].counted THEN n ELSE 0

\* Points are granted to a member or withdrawn.
Grant(m) ==
    /\ points' = [points EXCEPT ![m] = points'[m]]
    /\ UNCHANGED <<offer, claim>>

\* A member asks for a reward.
Ask(m, r, x) ==
    /\ claim[x].state = "NONE"
    /\ offer[r].open
    /\ points' = [points EXCEPT ![m] = @ - offer[r].price]
    /\ offer' = [offer EXCEPT ![r].stock = @ + Units(r, -1)]
    /\ claim' = [claim EXCEPT ![x] = [state |-> "REQUESTED", member |-> m, reward |-> r,
                                      price |-> offer[r].price]]

Refuse(x) ==
    LET c == claim[x] IN
    /\ c.state = "REQUESTED"
    /\ points' = [points EXCEPT ![c.member] = @ + c.price]
    /\ offer' = [offer EXCEPT ![c.reward].stock = @ + Units(c.reward, 1)]
    /\ claim' = [claim EXCEPT ![x].state = "REJECTED"]

Advance(x, from, to) ==
    /\ claim[x].state = from
    /\ claim' = [claim EXCEPT ![x].state = to]
    /\ UNCHANGED <<points, offer>>

\* The club changes an offer.
Change(r) ==
    /\ offer' = [offer EXCEPT ![r] = offer'[r]]
    /\ UNCHANGED <<points, claim>>

Step ==
    \/ \E m \in Member : Grant(m)
    \/ \E m \in Member, r \in Reward, x \in Redemption : Ask(m, r, x)
    \/ \E x \in Redemption :
          \/ Refuse(x)
          \/ Advance(x, "REQUESTED", "APPROVED")
          \/ Advance(x, "APPROVED", "DELIVERED")
    \/ \E r \in Reward : Change(r)

\* No step leaves a member in debt or a stock below zero.
Next == Step /\ Consistent'

Spec == Init /\ [][Next]_vars
=============================================================================
