---------------------------- MODULE RewardTables -----------------------------
(***************************************************************************)
(* The tables of the reward shop of the member portal, and how they add up *)
(* whatever the handlers of MemberRewards do to them at once.              *)
(***************************************************************************)
EXTENDS Integers, FiniteSetsExt, InFlight

CONSTANTS Member, Reward, Redemption

VARIABLES
    balance,      \* member_point_balances
    entries,      \* member_point_transactions, as a total per member and kind
    reward,       \* rewards; stockLimit: there is one, stocked: currentStock is not null
    redemption,   \* reward_redemptions; refunds: entries that give its points back
    lost,         \* history: points of entries whose update a crash prevented
    supplied,     \* history: units put on the shelf less those taken off it, zero for recounted
    recounted     \* history: rewards of which an edit began or ceased to count the stock
-----------------------------------------------------------------------------
\* The stock of r is counted.
Counts(r) == reward[r].stockLimit /\ reward[r].stocked

\* Points of m that a request has entered and is still to add to the balance.
StillToCome(t, m) ==
    IF t.op = "adjustPoints" /\ t.step = "entered" /\ t.member = m THEN t.points ELSE 0

\* The points of a member are those of the entries in the member's history, but
\* for the entries whose update is still to come or was lost in a crash:
\* overlapping requests never overwrite each other's points (addPoints).
EntriesExplainBalance ==
    \A m \in Member :
        balance[m].points + lost[m] + SumFunction([w \in Worker |-> StillToCome(txn[w], m)])
        = entries[m]["granted"] + entries[m]["withdrawn"]
            + entries[m]["redeemed"] + entries[m]["refunded"]

\* What a redemption has cost m, and what was given back for it.
CostOf(c, m) == IF c.status # "NONE" /\ c.member = m THEN c.pointsSpent ELSE 0
BackFor(c, m) ==
    IF c.status # "NONE" /\ c.member = m THEN c.pointsSpent * c.refunds ELSE 0

\* What the history shows as spent and given back is what the member's
\* redemptions cost when they were made, whatever the reward costs now
\* (redeemReward, rejectRedemption).
RedemptionsExplained ==
    \A m \in Member :
        /\ entries[m]["redeemed"] =
               -SumFunction([x \in Redemption |-> CostOf(redemption[x], m)])
        /\ entries[m]["refunded"] =
               SumFunction([x \in Redemption |-> BackFor(redemption[x], m)])

\* Units of r that a redemption keeps off the shelf.
UnitsFor(c, r) == IF c.status # "NONE" /\ c.reward = r THEN 1 - c.refunds ELSE 0

\* Where the stock has been counted from the start, a unit is off the shelf for every
\* redemption, less one for every refund, though the stock may be below zero when
\* requests overlap.
StockAccounted ==
    \A r \in Reward \ recounted : Counts(r) =>
        reward[r].currentStock =
            supplied[r] - SumFunction([x \in Redemption |-> UnitsFor(redemption[x], r)])

\* Under every interleaving the rewards add up: the entries explain the balance but for what
\* a crash cut off, each redemption has its entries and, where an edit has not begun or
\* ceased to count the stock meanwhile, its unit
\* (member-app.service.ts:1435-1512, 1738-1795, 1990-2039).
RewardsReconcile == EntriesExplainBalance /\ RedemptionsExplained /\ StockAccounted
=============================================================================
