---------------------------- MODULE MemberRewards ----------------------------
(***************************************************************************)
(* The reward shop of the member portal (member-app.service.ts): points of *)
(* the members, rewards, redemptions and the handlers of both sides.       *)
(*                                                                         *)
(* A redemption is checked before its transaction starts, and nothing it   *)
(* has read is locked.  adjustPoints is no transaction at all: addPoints   *)
(* then reads the balance, inserts the entry and updates the balance in    *)
(* three statements that commit one by one, and a crash between the last   *)
(* two leaves an entry without its points.  Every write of points and of   *)
(* stock is an increment; every write of a status is unconditional.        *)
(*                                                                         *)
(* A member without a row in member_point_balances counts as one with zero *)
(* points, which is how addPoints and getOrCreateBalance treat it.  What   *)
(* members earn by check-ins, games and missions reaches this module as an *)
(* adjustment: all of it goes through the same addPoints.                  *)
(***************************************************************************)
EXTENDS Integers, FiniteSets, RewardTables

CONSTANTS
    Amount,       \* points an administrator gives or takes at a time
    Cost, Stock,  \* values of pointsCost and of currentStock, besides zero
    MaxGranted,   \* bound: points given to a member
    MaxWithdrawn  \* bound: points taken from a member

ASSUME ConstantsOK ==
    /\ Amount \subseteq Nat \ {0}
    /\ Cost \subseteq Nat
    /\ Stock \subseteq Nat
    /\ MaxGranted \in Nat
    /\ MaxWithdrawn \in Nat

vars == <<balance, entries, reward, redemption, txn, lost, supplied, recounted>>
-----------------------------------------------------------------------------
\* By sourceType and sign: admin_adjustment up and down, reward_redemption down and up.
EntryKind == {"granted", "withdrawn", "redeemed", "refunded"}
BalanceRow == [points : Int, lifetimePoints : Nat]
RewardRow ==
    [status : {"NONE", "ACTIVE", "PAUSED", "ARCHIVED"}, pointsCost : Nat,
     stockLimit : BOOLEAN, stocked : BOOLEAN, currentStock : Int]
NoRedemption == [status |-> "NONE"]
RedemptionRow ==
    {NoRedemption}
    \cup [status : {"REQUESTED", "APPROVED", "REJECTED", "DELIVERED"},
          member : Member, reward : Reward, pointsSpent : Nat, refunds : Nat]

Idle == [op |-> "idle"]
Txn ==
    {Idle}
    \cup [op : {"adjustPoints"}, step : {"checked", "entered"}, member : Member, points : Int]
    \cup [op : {"redeemReward"}, step : {"read", "checked"}, member : Member, points : Int,
          reward : Reward, counted : BOOLEAN]
    \cup [op : {"rejectRedemption"}, step : {"read", "checked"}, member : Member, points : Int,
          redemption : Redemption, counted : BOOLEAN]
    \cup [op : {"approveRedemption", "deliverRedemption"}, redemption : Redemption]

TypeOK ==
    /\ balance \in [Member -> BalanceRow]
    /\ entries \in [Member -> [EntryKind -> Int]]
    /\ reward \in [Reward -> RewardRow]
    /\ redemption \in [Redemption -> RedemptionRow]
    /\ txn \in [Worker -> Txn]
    /\ lost \in [Member -> Int]
    /\ supplied \in [Reward -> Int]
    /\ recounted \subseteq Reward

Init ==
    /\ balance = [m \in Member |-> [points |-> 0, lifetimePoints |-> 0]]
    /\ entries = [m \in Member |-> [k \in EntryKind |-> 0]]
    /\ reward = [r \in Reward |-> [status |-> "NONE", pointsCost |-> 0, stockLimit |-> FALSE,
                                   stocked |-> FALSE, currentStock |-> 0]]
    /\ redemption = [x \in Redemption |-> NoRedemption]
    /\ txn = [w \in Worker |-> Idle]
    /\ lost = [m \in Member |-> 0]
    /\ supplied = [r \in Reward |-> 0]
    /\ recounted = {}
-----------------------------------------------------------------------------
Begin(w, t) == txn[w] = Idle /\ txn' = [txn EXCEPT ![w] = t]
Done(w) == txn' = [txn EXCEPT ![w] = Idle]
Shop == <<reward, redemption, supplied, recounted>>
Tables == <<balance, entries, lost, Shop>>

\* The request ends without its writes: it is refused, or its connection or the
\* server is lost.  An entry that was inserted on its own stays.
Abort(w) ==
    LET t == txn[w] IN
    /\ t # Idle
    /\ Done(w)
    /\ IF t.op = "adjustPoints" /\ t.step = "entered"
       THEN lost' = [lost EXCEPT ![t.member] = @ + t.points]
       ELSE UNCHANGED lost
    /\ UNCHANGED <<balance, entries, Shop>>
-----------------------------------------------------------------------------
(* addPoints                                                               *)

\* (mutant) the balance is not looked at.
AffordableUnchecked(m, points) == TRUE

Affordable(m, points) == balance[m].points + points >= 0

Enter(m, kind, points) == entries' = [entries EXCEPT ![m][kind] = @ + points]

Credit(m, points) ==
    balance' = [balance EXCEPT
        ![m].points = @ + points,
        ![m].lifetimePoints = IF points > 0 THEN @ + points ELSE @]

\* The balance is read and checked, in the transaction of redeemReward and
\* rejectRedemption (redeemReward's own check just before is the same one).
CheckBalance(w) ==
    LET t == txn[w] IN
    /\ t.op \in {"redeemReward", "rejectRedemption"} /\ t.step = "read"
    /\ Affordable(t.member, t.points)
    /\ txn' = [txn EXCEPT ![w].step = "checked"]
    /\ UNCHANGED Tables
-----------------------------------------------------------------------------
(* Points given or taken by an administrator: one statement at a time.     *)

ReadAdjustPoints(w) ==
    \E m \in Member, points \in Amount \cup {-n : n \in Amount} :
        /\ Affordable(m, points)
        /\ Begin(w, [op |-> "adjustPoints", step |-> "checked", member |-> m,
                     points |-> points])
        /\ UNCHANGED Tables

EnterAdjustPoints(w) ==
    LET t == txn[w]
        kind == IF t.points > 0 THEN "granted" ELSE "withdrawn" IN
    /\ t.op = "adjustPoints" /\ t.step = "checked"
    /\ entries[t.member]["granted"] + t.points <= MaxGranted         \* bound
    /\ -entries[t.member]["withdrawn"] - t.points <= MaxWithdrawn    \* bound
    /\ Enter(t.member, kind, t.points)
    /\ txn' = [txn EXCEPT ![w].step = "entered"]
    /\ UNCHANGED <<balance, lost, Shop>>

UpdateAdjustPoints(w) ==
    LET t == txn[w] IN
    /\ t.op = "adjustPoints" /\ t.step = "entered"
    /\ Credit(t.member, t.points)
    /\ Done(w)
    /\ UNCHANGED <<entries, lost, Shop>>
-----------------------------------------------------------------------------
(* Rewards, one statement each: the row is looked up and written.          *)

\* A reward is counted if it has a limit, from which its stock starts.
NewRows ==
    {row \in [status : {"ACTIVE"}, pointsCost : Cost, stockLimit : BOOLEAN, stocked : BOOLEAN,
              currentStock : Stock \cup {0}] :
        row.stocked = row.stockLimit /\ (row.stocked \/ row.currentStock = 0)}

CreateReward(w, r) ==
    /\ txn[w] = Idle
    /\ reward[r].status = "NONE"
    /\ \E row \in NewRows :
          /\ reward' = [reward EXCEPT ![r] = row]
          /\ supplied' = [supplied EXCEPT ![r] = row.currentStock]
    /\ UNCHANGED <<balance, entries, redemption, txn, lost, recounted>>

\* Any of the columns, null where they may be.
Edited(r) ==
    {row \in [status : {"ACTIVE", "PAUSED", "ARCHIVED"},
              pointsCost : Cost \cup {reward[r].pointsCost},
              stockLimit : BOOLEAN, stocked : BOOLEAN,
              currentStock : Stock \cup {0, reward[r].currentStock}] :
        row.stocked \/ row.currentStock = 0}

UpdateReward(w, r) ==
    /\ txn[w] = Idle
    /\ reward[r].status # "NONE"
    /\ \E row \in Edited(r) :
          /\ reward' = [reward EXCEPT ![r] = row]
          /\ recounted' = IF (row.stockLimit /\ row.stocked) = Counts(r)
                          THEN recounted ELSE recounted \cup {r}
          /\ supplied' = [supplied EXCEPT ![r] =
                 IF r \in recounted' THEN 0
                 ELSE supplied[r] + row.currentStock - reward[r].currentStock]
    /\ UNCHANGED <<balance, entries, redemption, txn, lost>>

\* What the stock of a reward becomes (currentStock: increment, decrement) when a request
\* has read that it is counted; nothing is added to null.
Stocked(r, n, counted) ==
    IF counted /\ reward[r].stocked THEN reward[r].currentStock + n ELSE reward[r].currentStock
-----------------------------------------------------------------------------
(* Redemptions                                                             *)

ReadRedeem(w, m, r) ==
    /\ reward[r].status = "ACTIVE"
    /\ Counts(r) => reward[r].currentStock > 0
    /\ Begin(w, [op |-> "redeemReward", step |-> "read", member |-> m,
                 points |-> -reward[r].pointsCost, reward |-> r, counted |-> Counts(r)])
    /\ UNCHANGED Tables

CommitRedeem(w, x) ==
    LET t == txn[w] IN
    /\ t.op = "redeemReward" /\ t.step = "checked"
    /\ redemption[x].status = "NONE"
    /\ redemption' = [redemption EXCEPT ![x] =
           [status |-> "REQUESTED", member |-> t.member, reward |-> t.reward,
            pointsSpent |-> -t.points, refunds |-> 0]]
    /\ Enter(t.member, "redeemed", t.points)
    /\ Credit(t.member, t.points)
    /\ reward' = [reward EXCEPT ![t.reward].currentStock = Stocked(t.reward, -1, t.counted)]
    /\ Done(w)
    /\ UNCHANGED <<lost, supplied, recounted>>

ReadApprove(w, x) ==
    /\ redemption[x].status = "REQUESTED"
    /\ Begin(w, [op |-> "approveRedemption", redemption |-> x])
    /\ UNCHANGED Tables

ReadDeliver(w, x) ==
    /\ redemption[x].status = "APPROVED"
    /\ Begin(w, [op |-> "deliverRedemption", redemption |-> x])
    /\ UNCHANGED Tables

\* approveRedemption and deliverRedemption: the status alone.
CommitReview(w) ==
    LET t == txn[w] IN
    /\ t.op \in {"approveRedemption", "deliverRedemption"}
    /\ redemption' = [redemption EXCEPT ![t.redemption].status =
           IF t.op = "approveRedemption" THEN "APPROVED" ELSE "DELIVERED"]
    /\ Done(w)
    /\ UNCHANGED <<balance, entries, reward, lost, supplied, recounted>>

\* (mutant) a redemption that was processed is not refused.
ReadRejectAgain(w, x) ==
    /\ redemption[x].status # "NONE"
    /\ Begin(w, [op |-> "rejectRedemption", step |-> "read", member |-> redemption[x].member,
                 points |-> redemption[x].pointsSpent, redemption |-> x,
                 counted |-> Counts(redemption[x].reward)])
    /\ UNCHANGED Tables

\* (mutant) what the reward costs now is refunded.
ReadRejectPrice(w, x) ==
    /\ redemption[x].status = "REQUESTED"
    /\ Begin(w, [op |-> "rejectRedemption", step |-> "read", member |-> redemption[x].member,
                 points |-> reward[redemption[x].reward].pointsCost, redemption |-> x,
                 counted |-> Counts(redemption[x].reward)])
    /\ UNCHANGED Tables

ReadReject(w, x) ==
    /\ redemption[x].status = "REQUESTED"
    /\ Begin(w, [op |-> "rejectRedemption", step |-> "read", member |-> redemption[x].member,
                 points |-> redemption[x].pointsSpent, redemption |-> x,
                 counted |-> Counts(redemption[x].reward)])
    /\ UNCHANGED Tables

\* (mutant) the points are given back without an entry.
CommitRejectNoEntry(w) ==
    LET t == txn[w]
        x == t.redemption
        r == redemption[x].reward IN
    /\ t.op = "rejectRedemption" /\ t.step = "checked"
    /\ Credit(t.member, t.points)
    /\ reward' = [reward EXCEPT ![r].currentStock = Stocked(r, 1, t.counted)]
    /\ redemption' = [redemption EXCEPT ![x].status = "REJECTED"]
    /\ Done(w)
    /\ UNCHANGED <<entries, lost, supplied, recounted>>

\* (mutant) the unit is not put back.
CommitRejectNoUnit(w) ==
    LET t == txn[w]
        x == t.redemption IN
    /\ t.op = "rejectRedemption" /\ t.step = "checked"
    /\ Enter(t.member, "refunded", t.points)
    /\ Credit(t.member, t.points)
    /\ redemption' = [redemption EXCEPT ![x] =
           [redemption[x] EXCEPT !.status = "REJECTED", !.refunds = redemption[x].refunds + 1]]
    /\ Done(w)
    /\ UNCHANGED <<reward, lost, supplied, recounted>>

CommitReject(w) ==
    LET t == txn[w]
        x == t.redemption
        r == redemption[x].reward IN
    /\ t.op = "rejectRedemption" /\ t.step = "checked"
    /\ Enter(t.member, "refunded", t.points)
    /\ Credit(t.member, t.points)
    /\ reward' = [reward EXCEPT ![r].currentStock = Stocked(r, 1, t.counted)]
    /\ redemption' = [redemption EXCEPT ![x] =
           [redemption[x] EXCEPT !.status = "REJECTED", !.refunds = redemption[x].refunds + 1]]
    /\ Done(w)
    /\ UNCHANGED <<lost, supplied, recounted>>
-----------------------------------------------------------------------------
Step(w) ==
    \/ ReadAdjustPoints(w) \/ EnterAdjustPoints(w) \/ UpdateAdjustPoints(w)
    \/ \E r \in Reward : CreateReward(w, r) \/ UpdateReward(w, r)
    \/ \E m \in Member, r \in Reward : ReadRedeem(w, m, r)
    \/ CheckBalance(w)
    \/ \E x \in Redemption :
          CommitRedeem(w, x) \/ ReadApprove(w, x) \/ ReadDeliver(w, x) \/ ReadReject(w, x)
    \/ CommitReview(w)
    \/ CommitReject(w)
    \/ Abort(w)

Next == \E w \in Worker : Step(w)

Spec == Init /\ [][Next]_vars
-----------------------------------------------------------------------------
(* Properties that hold when requests do not overlap (one worker); those   *)
(* that hold whatever overlaps are of the tables alone (RewardTables).     *)

Made == {x \in Redemption : redemption[x].status # "NONE"}

\* The points of a redemption are given back once if it is rejected, and never
\* if it is approved or delivered (member-app.service.ts:1744-1761).
RefundedOnce ==
    \A x \in Made : redemption[x].refunds = IF redemption[x].status = "REJECTED" THEN 1 ELSE 0

\* Rewards and redemptions as the book sees them.
OfferOf(r) ==
    [open |-> reward[r].status = "ACTIVE", price |-> reward[r].pointsCost,
     counted |-> Counts(r), stock |-> reward[r].currentStock]
ClaimOf(x) ==
    IF redemption[x] = NoRedemption THEN [state |-> "NONE"]
    ELSE [state |-> redemption[x].status, member |-> redemption[x].member,
          reward |-> redemption[x].reward, price |-> redemption[x].pointsSpent]

Book == INSTANCE RewardBook WITH
    points <- [m \in Member |-> balance[m].points],
    offer <- [r \in Reward |-> OfferOf(r)],
    claim <- [x \in Redemption |-> ClaimOf(x)]

\* The shop keeps its promise: nobody owes points, no unit is promised twice,
\* claims are made at the price of an open offer and settled once.
KeepsBook == Book!Spec
-----------------------------------------------------------------------------
(* What the portal says of the figures it shows.                           *)

\* The points accumulated in total never exceed those the member was given
\* (apps/web/src/app/member/points/page.tsx:120, 'puntos acumulados en total').
AccumulatedWereGiven ==
    \A m \in Member : balance[m].lifetimePoints <= entries[m]["granted"]
=============================================================================
