------------------------- MODULE MemberRewardsProofs -------------------------
(***************************************************************************)
(* Theorems about MemberRewards, for every value of its constants.         *)
(***************************************************************************)
EXTENDS MemberRewards, Sums, TLAPS

(* What holds of a request in flight whatever the others do: a redemption  *)
(* it refers to was made, and a redemption costs points.                   *)
Refers(w) ==
    /\ txn[w].op \in {"rejectRedemption", "approveRedemption", "deliverRedemption"} =>
           redemption[txn[w].redemption].status # "NONE"
    /\ txn[w].op = "redeemReward" => txn[w].points <= 0
TypeInv == TypeOK /\ \A w \in Worker : Refers(w)

\* What a request has read is typed by its operation.
LEMMA TxnFields ==
    ASSUME TypeOK, NEW w \in Worker
    PROVE  /\ txn[w].op \in {"adjustPoints", "redeemReward", "rejectRedemption"} =>
                txn[w].member \in Member /\ txn[w].points \in Int
           /\ txn[w].op = "redeemReward" => txn[w].reward \in Reward
           /\ txn[w].op \in {"redeemReward", "rejectRedemption"} => txn[w].counted \in BOOLEAN
           /\ txn[w].op \in {"rejectRedemption", "approveRedemption", "deliverRedemption"} =>
                txn[w].redemption \in Redemption
<1>1. txn[w] \in Txn
  BY DEF TypeOK
<1>2. QED
  BY <1>1 DEF Txn, Idle

\* A redemption that was made has its fields.
LEMMA MadeFields ==
    ASSUME TypeOK, NEW x \in Redemption, redemption[x].status # "NONE"
    PROVE  /\ redemption[x] # NoRedemption
           /\ redemption[x].member \in Member /\ redemption[x].reward \in Reward
           /\ redemption[x].pointsSpent \in Nat /\ redemption[x].refunds \in Nat
           /\ redemption[x].status \in {"REQUESTED", "APPROVED", "REJECTED", "DELIVERED"}
<1>1. redemption[x] \in RedemptionRow
  BY DEF TypeOK
<1>2. QED
  BY <1>1 DEF RedemptionRow, NoRedemption

LEMMA NotMade ==
    ASSUME TypeOK, NEW x \in Redemption, redemption[x].status = "NONE"
    PROVE  redemption[x] = NoRedemption
<1>1. redemption[x] \in RedemptionRow
  BY DEF TypeOK
<1>2. QED
  BY <1>1 DEF RedemptionRow

LEMMA RewardFields ==
    ASSUME TypeOK, NEW r \in Reward
    PROVE  /\ reward[r].status \in {"NONE", "ACTIVE", "PAUSED", "ARCHIVED"}
           /\ reward[r].pointsCost \in Nat /\ reward[r].currentStock \in Int
           /\ reward[r].stockLimit \in BOOLEAN /\ reward[r].stocked \in BOOLEAN
           /\ Counts(r) \in BOOLEAN
BY DEF TypeOK, RewardRow, Counts

(* The parts of a commit.                                                  *)
LEMMA CreditEffect ==
    ASSUME TypeOK, NEW m \in Member, NEW points \in Int, Credit(m, points)
    PROVE  /\ balance' \in [Member -> BalanceRow]
           /\ balance'[m].points = balance[m].points + points
           /\ \A n \in Member \ {m} : balance'[n] = balance[n]
<1>. DEFINE old == balance[m]
            p == old.points + points
            l == IF points > 0 THEN old.lifetimePoints + points ELSE old.lifetimePoints
            row == [old EXCEPT !.points = p, !.lifetimePoints = l]
<1>1. old \in BalanceRow /\ p \in Int /\ l \in Nat
  BY DEF TypeOK, BalanceRow
<1>2. balance' = [balance EXCEPT ![m] = row]
  BY DEF Credit
<1>. HIDE DEF old, p, l
<1>3. row \in BalanceRow /\ row.points = p
  BY <1>1 DEF BalanceRow
<1>. HIDE DEF row
<1>4. balance' \in [Member -> BalanceRow] /\ balance'[m] = row
      /\ \A n \in Member \ {m} : balance'[n] = balance[n]
  BY <1>2, <1>3 DEF TypeOK
<1>5. QED
  BY <1>3, <1>4 DEF p, old

LEMMA EnterEffect ==
    ASSUME TypeOK, NEW m \in Member, NEW kind \in EntryKind, NEW points \in Int,
           Enter(m, kind, points)
    PROVE  entries' \in [Member -> [EntryKind -> Int]]
BY DEF TypeOK, Enter

LEMMA StockEffect ==
    ASSUME TypeOK, NEW r \in Reward, NEW n \in Int, NEW counted \in BOOLEAN,
           reward' = [reward EXCEPT ![r].currentStock = Stocked(r, n, counted)]
    PROVE  /\ reward' \in [Reward -> RewardRow]
           /\ reward'[r].status = reward[r].status
           /\ reward'[r].pointsCost = reward[r].pointsCost
           /\ Counts(r)' = Counts(r)
           /\ reward'[r].currentStock = Stocked(r, n, counted)
           /\ \A q \in Reward \ {r} : reward'[q] = reward[q]
<1>. DEFINE s == Stocked(r, n, counted)
            row == [reward[r] EXCEPT !.currentStock = s]
<1>1. reward[r] \in RewardRow
  BY DEF TypeOK
<1>2. s \in Int
  BY <1>1 DEF Stocked, RewardRow
<1>. HIDE DEF s
<1>3. /\ row \in RewardRow /\ row.currentStock = s
      /\ row.status = reward[r].status /\ row.pointsCost = reward[r].pointsCost
      /\ row.stockLimit = reward[r].stockLimit /\ row.stocked = reward[r].stocked
  BY <1>1, <1>2 DEF RewardRow
<1>4. reward' = [reward EXCEPT ![r] = row]
  BY DEF s
<1>. HIDE DEF row
<1>5. /\ reward' \in [Reward -> RewardRow] /\ reward'[r] = row
      /\ \A q \in Reward \ {r} : reward'[q] = reward[q]
  BY <1>3, <1>4 DEF TypeOK
<1>6. QED
  BY <1>3, <1>5 DEF s, Counts

LEMMA StockKept ==
    ASSUME TypeOK, NEW r \in Reward, NEW counted \in BOOLEAN,
           \/ reward' = [reward EXCEPT ![r].currentStock = Stocked(r, 1, counted)]
           \/ reward' = [reward EXCEPT ![r].currentStock = Stocked(r, -1, counted)]
    PROVE  reward' \in [Reward -> RewardRow]
<1>1. 1 \in Int /\ -1 \in Int
  OBVIOUS
<1>2. QED
  BY <1>1, StockEffect

\* A row whose columns have the values of the table is one.
LEMMA RowsTypedBy ==
    ASSUME NEW states \in SUBSET {"ACTIVE", "PAUSED", "ARCHIVED"}, NEW costs, NEW stocks,
           \A n \in costs : n \in Nat, \A n \in stocks : n \in Int,
           NEW row \in [status : states, pointsCost : costs, stockLimit : BOOLEAN,
                        stocked : BOOLEAN, currentStock : stocks]
    PROVE  row \in RewardRow /\ row.status # "NONE" /\ row.currentStock \in Int
BY DEF RewardRow

\* What a new row and an edit write.
LEMMA RowWritten ==
    ASSUME TypeOK, NEW r \in Reward, NEW row \in NewRows \cup Edited(r),
           reward' = [reward EXCEPT ![r] = row]
    PROVE  /\ row.status # "NONE" /\ row.currentStock \in Int
           /\ reward' \in [Reward -> RewardRow] /\ reward'[r] = row
           /\ Counts(r)' = (row.stockLimit /\ row.stocked)
           /\ \A q \in Reward \ {r} : reward'[q] = reward[q]
<1>1. reward[r].pointsCost \in Nat /\ reward[r].currentStock \in Int
  BY RewardFields
<1>2. Cost \subseteq Nat /\ Stock \subseteq Nat
  BY ConstantsOK
<1>3. row \in RewardRow /\ row.status # "NONE" /\ row.currentStock \in Int
  <2>1. CASE row \in NewRows
    <3>. DEFINE stocks == Stock \cup {0}
    <3>1. row \in [status : {"ACTIVE"}, pointsCost : Cost, stockLimit : BOOLEAN,
                   stocked : BOOLEAN, currentStock : stocks]
      BY <2>1 DEF NewRows
    <3>2. \A n \in stocks : n \in Int
      BY <1>2
    <3>. HIDE DEF stocks
    <3>3. QED
      BY <1>2, <3>1, <3>2, RowsTypedBy
  <2>2. CASE row \in Edited(r)
    <3>. DEFINE stocks == Stock \cup {0, reward[r].currentStock}
                costs == Cost \cup {reward[r].pointsCost}
    <3>1. row \in [status : {"ACTIVE", "PAUSED", "ARCHIVED"}, pointsCost : costs,
                   stockLimit : BOOLEAN, stocked : BOOLEAN, currentStock : stocks]
      BY <2>2 DEF Edited
    <3>2. (\A n \in stocks : n \in Int) /\ (\A n \in costs : n \in Nat)
      BY <1>1, <1>2
    <3>. HIDE DEF stocks, costs
    <3>3. QED
      BY <3>1, <3>2, RowsTypedBy
  <2>3. QED
    BY <2>1, <2>2
<1>4. /\ reward' \in [Reward -> RewardRow] /\ reward'[r] = row
      /\ \A q \in Reward \ {r} : reward'[q] = reward[q]
  BY <1>3 DEF TypeOK
<1>5. QED
  BY <1>3, <1>4 DEF Counts

\* Only the request of this worker changes.
LEMMA TxnEffect ==
    ASSUME TypeOK, NEW w \in Worker, NEW t \in Txn, txn' = [txn EXCEPT ![w] = t]
    PROVE  /\ txn' \in [Worker -> Txn]
           /\ txn'[w] = t
           /\ \A v \in Worker \ {w} : txn'[v] = txn[v]
BY DEF TypeOK

LEMMA DoneEffect ==
    ASSUME TypeOK, NEW w \in Worker, Done(w)
    PROVE  /\ txn' \in [Worker -> Txn]
           /\ txn'[w] = Idle
           /\ \A v \in Worker \ {w} : txn'[v] = txn[v]
BY TxnEffect DEF Done, Txn

\* The status of a redemption that was made is overwritten.
LEMMA ReviewEffect ==
    ASSUME TypeOK, NEW x \in Redemption, redemption[x].status # "NONE",
           NEW status \in {"REQUESTED", "APPROVED", "REJECTED", "DELIVERED"},
           redemption' = [redemption EXCEPT ![x].status = status]
    PROVE  /\ redemption' \in [Redemption -> RedemptionRow]
           /\ redemption'[x] = [redemption[x] EXCEPT !.status = status]
           /\ redemption'[x].status = status
           /\ redemption'[x].member = redemption[x].member
           /\ redemption'[x].reward = redemption[x].reward
           /\ redemption'[x].pointsSpent = redemption[x].pointsSpent
           /\ redemption'[x].refunds = redemption[x].refunds
           /\ \A y \in Redemption \ {x} : redemption'[y] = redemption[y]
<1>. DEFINE Row == [status : {"REQUESTED", "APPROVED", "REJECTED", "DELIVERED"},
                    member : Member, reward : Reward, pointsSpent : Nat, refunds : Nat]
<1>1. redemption[x] \in Row
  BY DEF TypeOK, RedemptionRow, NoRedemption
<1>2. [redemption[x] EXCEPT !.status = status] \in Row
  BY <1>1
<1>3. QED
  BY <1>1, <1>2 DEF TypeOK, RedemptionRow

\* A rejection overwrites the status and counts a refund.
LEMMA RejectEffect ==
    ASSUME TypeOK, NEW x \in Redemption, redemption[x].status # "NONE",
           redemption' = [redemption EXCEPT ![x] =
           [redemption[x] EXCEPT !.status = "REJECTED", !.refunds = redemption[x].refunds + 1]]
    PROVE  /\ redemption' \in [Redemption -> RedemptionRow]
           /\ redemption'[x].status = "REJECTED"
           /\ redemption'[x].member = redemption[x].member
           /\ redemption'[x].reward = redemption[x].reward
           /\ redemption'[x].pointsSpent = redemption[x].pointsSpent
           /\ redemption'[x].refunds = redemption[x].refunds + 1
           /\ \A y \in Redemption \ {x} : redemption'[y] = redemption[y]
<1>. DEFINE Row == [status : {"REQUESTED", "APPROVED", "REJECTED", "DELIVERED"},
                    member : Member, reward : Reward, pointsSpent : Nat, refunds : Nat]
            row == [redemption[x] EXCEPT !.status = "REJECTED",
                                         !.refunds = redemption[x].refunds + 1]
<1>1. redemption[x] \in Row
  BY DEF TypeOK, RedemptionRow, NoRedemption
<1>2. row \in Row
  <2>1. redemption[x].refunds + 1 \in Nat
    BY <1>1
  <2>. DEFINE old == redemption[x]  n == redemption[x].refunds + 1
  <2>. HIDE DEF old, n
  <2>2. [old EXCEPT !.status = "REJECTED", !.refunds = n] \in Row
    BY <1>1, <2>1 DEF old, n
  <2>3. QED
    BY <2>2 DEF old, n
<1>3. /\ row.status = "REJECTED" /\ row.member = redemption[x].member
      /\ row.reward = redemption[x].reward /\ row.pointsSpent = redemption[x].pointsSpent
      /\ row.refunds = redemption[x].refunds + 1
  BY <1>1
<1>4. redemption' = [redemption EXCEPT ![x] = row]
  BY DEF TypeOK
<1>. HIDE DEF row
<1>5. redemption'[x] = row /\ \A y \in Redemption \ {x} : redemption'[y] = redemption[y]
  BY <1>4 DEF TypeOK
<1>6. redemption' \in [Redemption -> RedemptionRow]
  BY <1>2, <1>4 DEF TypeOK, RedemptionRow
<1>7. QED
  BY <1>3, <1>5, <1>6
-----------------------------------------------------------------------------
(* Type correctness.                                                       *)

\* What a step of one request may do to the others' invariant.
Keeps(w) ==
    /\ TypeOK'
    /\ \A v \in Worker \ {w} : txn'[v] = txn[v]
    /\ \A x \in Redemption : redemption[x].status # "NONE" => redemption'[x].status # "NONE"
    /\ Refers(w)'

LEMMA KeepsEnough ==
    ASSUME TypeInv, NEW w \in Worker, Keeps(w)
    PROVE  TypeInv'
<1>1. ASSUME NEW v \in Worker
      PROVE  Refers(v)'
  <2>1. CASE v = w
    BY <2>1 DEF Keeps
  <2>2. CASE v # w
    <3>1. txn'[v] = txn[v] /\ Refers(v)
      BY <2>2 DEF Keeps, TypeInv
    <3>2. txn[v].op \in {"rejectRedemption", "approveRedemption", "deliverRedemption"} =>
              redemption'[txn[v].redemption].status # "NONE"
      BY <3>1, TxnFields DEF Refers, Keeps, TypeInv
    <3>3. QED
      BY <3>1, <3>2 DEF Refers
  <2>3. QED
    BY <2>1, <2>2
<1>2. QED
  BY <1>1 DEF Keeps, TypeInv

LEMMA BeginKeeps ==
    ASSUME TypeInv, NEW w \in Worker, NEW t \in Txn, txn' = [txn EXCEPT ![w] = t],
           UNCHANGED Tables, Refers(w)'
    PROVE  Keeps(w)
BY TxnEffect DEF TypeInv, TypeOK, Keeps, Tables, Shop

\* What an administrator gives or takes (adjustPoints, member-app.service.ts:682-712).
LEMMA AdjustmentIsInt ==
    ASSUME NEW points \in Amount \cup {-n : n \in Amount}
    PROVE  points \in Int
<1>1. Amount \subseteq Int
  BY ConstantsOK
<1>2. CASE points \in Amount
  BY <1>1, <1>2
<1>3. CASE points \in {-n : n \in Amount}
  <2>1. PICK n \in Amount : points = -n
    BY <1>3
  <2>2. n \in Int
    BY <1>1
  <2>3. QED
    BY <2>1, <2>2
<1>4. QED
  BY <1>2, <1>3

LEMMA AdjustKeeps ==
    ASSUME TypeInv, NEW w \in Worker,
           ReadAdjustPoints(w) \/ EnterAdjustPoints(w) \/ UpdateAdjustPoints(w)
    PROVE  Keeps(w)
<1>1. CASE ReadAdjustPoints(w)
  <2>1. PICK m \in Member, points \in Amount \cup {-n : n \in Amount} :
            /\ Begin(w, [op |-> "adjustPoints", step |-> "checked", member |-> m,
                         points |-> points])
            /\ UNCHANGED Tables
    BY <1>1 DEF ReadAdjustPoints
  <2>. DEFINE t == [op |-> "adjustPoints", step |-> "checked", member |-> m, points |-> points]
  <2>2. points \in Int
    BY AdjustmentIsInt
  <2>3. t \in Txn
    BY <2>2 DEF Txn
  <2>4. txn' = [txn EXCEPT ![w] = t] /\ t.op = "adjustPoints"
    BY <2>1 DEF Begin
  <2>. HIDE DEF t
  <2>5. txn'[w] = t
    BY <2>3, <2>4, TxnEffect DEF TypeInv
  <2>6. QED
    BY <2>1, <2>3, <2>4, <2>5, BeginKeeps DEF Refers
<1>2. CASE EnterAdjustPoints(w)
  <2>. DEFINE t == [txn[w] EXCEPT !.step = "entered"]
              kind == IF txn[w].points > 0 THEN "granted" ELSE "withdrawn"
  <2>1. /\ txn[w].op = "adjustPoints" /\ txn[w].member \in Member /\ txn[w].points \in Int
        /\ txn[w] \in Txn
    BY <1>2, TxnFields DEF EnterAdjustPoints, TypeInv, TypeOK
  <2>2. t \in Txn /\ t.op = "adjustPoints"
    BY <2>1 DEF Txn, Idle
  <2>3. /\ txn' = [txn EXCEPT ![w] = t] /\ Enter(txn[w].member, kind, txn[w].points)
        /\ UNCHANGED <<balance, lost, Shop>>
    BY <1>2 DEF EnterAdjustPoints
  <2>4. kind \in EntryKind
    BY DEF EntryKind
  <2>. HIDE DEF t, kind
  <2>5. entries' \in [Member -> [EntryKind -> Int]]
    BY <2>1, <2>3, <2>4, EnterEffect DEF TypeInv
  <2>6. txn' \in [Worker -> Txn] /\ txn'[w] = t /\ \A v \in Worker \ {w} : txn'[v] = txn[v]
    BY <2>2, <2>3, TxnEffect DEF TypeInv
  <2>7. QED
    BY <2>2, <2>3, <2>5, <2>6 DEF TypeInv, TypeOK, Keeps, Refers, Shop
<1>3. CASE UpdateAdjustPoints(w)
  <2>1. /\ txn[w].member \in Member /\ txn[w].points \in Int
        /\ Credit(txn[w].member, txn[w].points) /\ Done(w)
        /\ UNCHANGED <<entries, lost, Shop>>
    BY <1>3, TxnFields DEF UpdateAdjustPoints, TypeInv
  <2>2. balance' \in [Member -> BalanceRow]
    BY <2>1, CreditEffect DEF TypeInv
  <2>3. QED
    BY <2>1, <2>2, DoneEffect DEF TypeInv, TypeOK, Keeps, Refers, Shop, Idle
<1>4. QED
  BY <1>1, <1>2, <1>3

LEMMA RewardKeeps ==
    ASSUME TypeInv, NEW w \in Worker, NEW r \in Reward, CreateReward(w, r) \/ UpdateReward(w, r)
    PROVE  Keeps(w)
<1>1. /\ reward' \in [Reward -> RewardRow] /\ supplied' \in [Reward -> Int]
      /\ recounted' \subseteq Reward
  <2>1. TypeOK
    BY DEF TypeInv
  <2>2. CASE CreateReward(w, r)
    <3>1. PICK row \in NewRows :
              /\ reward' = [reward EXCEPT ![r] = row]
              /\ supplied' = [supplied EXCEPT ![r] = row.currentStock]
              /\ recounted' = recounted
      BY <2>2 DEF CreateReward
    <3>2. row \in NewRows \cup Edited(r)
      OBVIOUS
    <3>3. row.currentStock \in Int /\ reward' \in [Reward -> RewardRow]
      BY <2>1, <3>1, <3>2, RowWritten
    <3>4. QED
      BY <2>1, <3>1, <3>3 DEF TypeOK
  <2>3. CASE UpdateReward(w, r)
    <3>1. PICK row \in Edited(r) :
              /\ reward' = [reward EXCEPT ![r] = row]
              /\ recounted' = IF (row.stockLimit /\ row.stocked) = Counts(r)
                              THEN recounted ELSE recounted \cup {r}
              /\ supplied' = [supplied EXCEPT ![r] =
                     IF r \in recounted' THEN 0
                     ELSE supplied[r] + row.currentStock - reward[r].currentStock]
      BY <2>3 DEF UpdateReward
    <3>2. row \in NewRows \cup Edited(r)
      OBVIOUS
    <3>3. row.currentStock \in Int /\ reward' \in [Reward -> RewardRow]
      BY <2>1, <3>1, <3>2, RowWritten
    <3>4. reward[r].currentStock \in Int /\ supplied[r] \in Int
      BY <2>1, RewardFields DEF TypeOK
    <3>. DEFINE s == IF r \in recounted' THEN 0
                     ELSE supplied[r] + row.currentStock - reward[r].currentStock
    <3>5. s \in Int
      BY <3>3, <3>4
    <3>6. supplied' = [supplied EXCEPT ![r] = s]
      BY <3>1
    <3>. HIDE DEF s
    <3>7. supplied' \in [Reward -> Int]
      BY <2>1, <3>5, <3>6 DEF TypeOK
    <3>8. recounted' \subseteq Reward
      BY <2>1, <3>1 DEF TypeOK
    <3>9. QED
      BY <3>3, <3>7, <3>8
  <2>4. QED
    BY <2>2, <2>3
<1>2. UNCHANGED <<balance, entries, redemption, txn, lost>>
  BY DEF CreateReward, UpdateReward
<1>3. Refers(w)'
  BY <1>2 DEF TypeInv, Refers
<1>4. QED
  BY <1>1, <1>2, <1>3 DEF TypeInv, TypeOK, Keeps

LEMMA ReadKeeps ==
    ASSUME TypeInv, NEW w \in Worker,
           \/ \E m \in Member, r \in Reward : ReadRedeem(w, m, r)
           \/ \E x \in Redemption : ReadApprove(w, x) \/ ReadDeliver(w, x) \/ ReadReject(w, x)
    PROVE  Keeps(w)
<1>1. ASSUME NEW t \in Txn, Begin(w, t), UNCHANGED Tables, Refers(w)'
      PROVE  Keeps(w)
  BY <1>1, BeginKeeps DEF Begin
<1>2. ASSUME NEW t \in Txn, Begin(w, t)
      PROVE  txn'[w] = t
  BY <1>2, TxnEffect DEF Begin, TypeInv
<1>3. ASSUME NEW m \in Member, NEW r \in Reward, ReadRedeem(w, m, r)
      PROVE  Keeps(w)
  <2>. DEFINE t == [op |-> "redeemReward", step |-> "read", member |-> m,
                    points |-> -reward[r].pointsCost, reward |-> r, counted |-> Counts(r)]
  <2>1. /\ -reward[r].pointsCost \in Int /\ -reward[r].pointsCost <= 0
        /\ Counts(r) \in BOOLEAN
    BY RewardFields DEF TypeInv
  <2>2. t \in Txn /\ t.op = "redeemReward" /\ t.points <= 0
    BY <2>1 DEF Txn
  <2>3. Begin(w, t) /\ UNCHANGED Tables
    BY <1>3 DEF ReadRedeem
  <2>. HIDE DEF t
  <2>4. QED
    BY <1>1, <1>2, <2>2, <2>3 DEF Refers
<1>4. ASSUME NEW x \in Redemption, ReadApprove(w, x) \/ ReadDeliver(w, x)
      PROVE  Keeps(w)
  <2>1. PICK op \in {"approveRedemption", "deliverRedemption"} :
            Begin(w, [op |-> op, redemption |-> x])
    BY <1>4 DEF ReadApprove, ReadDeliver
  <2>. DEFINE t == [op |-> op, redemption |-> x]
  <2>2. t \in Txn /\ t.op \in {"approveRedemption", "deliverRedemption"} /\ t.redemption = x
    BY DEF Txn
  <2>3. Begin(w, t) /\ UNCHANGED Tables /\ redemption[x].status # "NONE"
    BY <1>4, <2>1 DEF ReadApprove, ReadDeliver
  <2>. HIDE DEF t
  <2>4. QED
    BY <1>1, <1>2, <2>2, <2>3 DEF Refers, Tables, Shop
<1>5. ASSUME NEW x \in Redemption, ReadReject(w, x)
      PROVE  Keeps(w)
  <2>. DEFINE t == [op |-> "rejectRedemption", step |-> "read",
                    member |-> redemption[x].member,
                    points |-> redemption[x].pointsSpent, redemption |-> x,
                    counted |-> Counts(redemption[x].reward)]
  <2>1. Begin(w, t) /\ UNCHANGED Tables /\ redemption[x].status # "NONE"
    BY <1>5 DEF ReadReject
  <2>2. t \in Txn /\ t.op = "rejectRedemption" /\ t.redemption = x
    BY <2>1, MadeFields DEF Txn, TypeInv, Counts
  <2>. HIDE DEF t
  <2>3. QED
    BY <1>1, <1>2, <2>1, <2>2 DEF Refers, Tables, Shop
<1>6. QED
  BY <1>3, <1>4, <1>5

LEMMA CheckKeeps ==
    ASSUME TypeInv, NEW w \in Worker, CheckBalance(w)
    PROVE  Keeps(w)
<1>. DEFINE t == [txn[w] EXCEPT !.step = "checked"]
<1>1. txn[w] \in Txn /\ txn[w].op \in {"redeemReward", "rejectRedemption"}
  BY DEF CheckBalance, TypeInv, TypeOK
<1>2. t \in Txn /\ t.op = txn[w].op
  BY <1>1 DEF Txn, Idle
<1>3. /\ txn[w].op = "redeemReward" => t.points = txn[w].points
      /\ txn[w].op = "rejectRedemption" => t.redemption = txn[w].redemption
  BY <1>1 DEF Txn, Idle
<1>4. txn' = [txn EXCEPT ![w] = t] /\ UNCHANGED Tables
  BY DEF CheckBalance
<1>. HIDE DEF t
<1>5. txn'[w] = t
  BY <1>2, <1>4, TxnEffect DEF TypeInv
<1>6. Refers(w)'
  BY <1>1, <1>2, <1>3, <1>4, <1>5 DEF TypeInv, Refers, Tables, Shop
<1>7. QED
  BY <1>2, <1>4, <1>6, BeginKeeps

LEMMA RedeemKeeps ==
    ASSUME TypeInv, NEW w \in Worker, NEW x \in Redemption, CommitRedeem(w, x)
    PROVE  Keeps(w)
<1>. DEFINE t == txn[w]
            row == [status |-> "REQUESTED", member |-> t.member, reward |-> t.reward,
                    pointsSpent |-> -t.points, refunds |-> 0]
<1>1. /\ t.op = "redeemReward" /\ t.member \in Member /\ t.reward \in Reward
      /\ t.points \in Int /\ t.points <= 0 /\ t.counted \in BOOLEAN
  BY TxnFields DEF CommitRedeem, TypeInv, Refers
<1>2. /\ redemption' = [redemption EXCEPT ![x] = row]
      /\ Enter(t.member, "redeemed", t.points) /\ Credit(t.member, t.points)
      /\ reward' = [reward EXCEPT ![t.reward].currentStock = Stocked(t.reward, -1, t.counted)]
      /\ Done(w) /\ UNCHANGED <<lost, supplied, recounted>>
  BY DEF CommitRedeem
<1>3. row \in RedemptionRow /\ row.status = "REQUESTED"
  BY <1>1 DEF RedemptionRow
<1>. HIDE DEF row, t
<1>4. /\ redemption' \in [Redemption -> RedemptionRow]
      /\ \A y \in Redemption : redemption[y].status # "NONE" => redemption'[y].status # "NONE"
  BY <1>2, <1>3 DEF TypeInv, TypeOK
<1>5. balance' \in [Member -> BalanceRow]
  BY <1>1, <1>2, CreditEffect DEF TypeInv
<1>6. entries' \in [Member -> [EntryKind -> Int]]
  <2>1. "redeemed" \in EntryKind
    BY DEF EntryKind
  <2>2. QED
    BY <1>1, <1>2, <2>1, EnterEffect DEF TypeInv
<1>7. reward' \in [Reward -> RewardRow]
  BY <1>1, <1>2, StockKept DEF TypeInv
<1>8. QED
  BY <1>2, <1>4, <1>5, <1>6, <1>7, DoneEffect DEF TypeInv, TypeOK, Keeps, Refers, Idle

LEMMA ReviewKeeps ==
    ASSUME TypeInv, NEW w \in Worker, CommitReview(w)
    PROVE  Keeps(w)
<1>. DEFINE x == txn[w].redemption
            status == IF txn[w].op = "approveRedemption" THEN "APPROVED" ELSE "DELIVERED"
<1>1. /\ x \in Redemption /\ redemption[x].status # "NONE"
      /\ status \in {"REQUESTED", "APPROVED", "REJECTED", "DELIVERED"} /\ status # "NONE"
      /\ redemption' = [redemption EXCEPT ![x].status = status]
      /\ Done(w) /\ UNCHANGED <<balance, entries, reward, lost, supplied, recounted>>
  BY TxnFields DEF CommitReview, TypeInv, Refers
<1>. HIDE DEF x, status
<1>2. /\ redemption' \in [Redemption -> RedemptionRow] /\ redemption'[x].status = status
      /\ \A y \in Redemption \ {x} : redemption'[y] = redemption[y]
  BY <1>1, ReviewEffect DEF TypeInv
<1>3. QED
  BY <1>1, <1>2, DoneEffect DEF TypeInv, TypeOK, Keeps, Refers, Idle

LEMMA RejectKeeps ==
    ASSUME TypeInv, NEW w \in Worker, CommitReject(w)
    PROVE  Keeps(w)
<1>. DEFINE t == txn[w]  x == t.redemption  r == redemption[x].reward
<1>1. /\ t.op = "rejectRedemption" /\ t.member \in Member /\ t.points \in Int
      /\ t.counted \in BOOLEAN /\ x \in Redemption /\ redemption[x].status # "NONE"
  BY TxnFields DEF CommitReject, TypeInv, Refers
<1>2. r \in Reward
  BY <1>1, MadeFields DEF TypeInv
<1>3. /\ redemption' = [redemption EXCEPT ![x] =
             [redemption[x] EXCEPT !.status = "REJECTED", !.refunds = redemption[x].refunds + 1]]
      /\ Enter(t.member, "refunded", t.points) /\ Credit(t.member, t.points)
      /\ reward' = [reward EXCEPT ![r].currentStock = Stocked(r, 1, t.counted)]
      /\ Done(w) /\ UNCHANGED <<lost, supplied, recounted>>
  BY DEF CommitReject
<1>. HIDE DEF t, x, r
<1>4. /\ redemption' \in [Redemption -> RedemptionRow] /\ redemption'[x].status = "REJECTED"
      /\ \A y \in Redemption \ {x} : redemption'[y] = redemption[y]
  BY <1>1, <1>3, RejectEffect DEF TypeInv
<1>5. balance' \in [Member -> BalanceRow]
  BY <1>1, <1>3, CreditEffect DEF TypeInv
<1>6. entries' \in [Member -> [EntryKind -> Int]]
  <2>1. "refunded" \in EntryKind
    BY DEF EntryKind
  <2>2. QED
    BY <1>1, <1>3, <2>1, EnterEffect DEF TypeInv
<1>7. reward' \in [Reward -> RewardRow]
  BY <1>1, <1>2, <1>3, StockKept DEF TypeInv
<1>8. QED
  BY <1>3, <1>4, <1>5, <1>6, <1>7, DoneEffect DEF TypeInv, TypeOK, Keeps, Refers, Idle

LEMMA AbortKeeps ==
    ASSUME TypeInv, NEW w \in Worker, Abort(w)
    PROVE  Keeps(w)
<1>1. lost' \in [Member -> Int]
  <2>1. CASE txn[w].op = "adjustPoints"
    <3>1. txn[w].member \in Member /\ txn[w].points \in Int
      BY <2>1, TxnFields DEF TypeInv
    <3>2. QED
      BY <3>1 DEF TypeInv, TypeOK, Abort
  <2>2. CASE txn[w].op # "adjustPoints"
    BY <2>2 DEF TypeInv, TypeOK, Abort
  <2>3. QED
    BY <2>1, <2>2
<1>2. Done(w) /\ UNCHANGED <<balance, entries, Shop>>
  BY DEF Abort
<1>3. QED
  BY <1>1, <1>2, DoneEffect DEF TypeInv, TypeOK, Keeps, Refers, Shop, Idle

LEMMA StepKeeps ==
    ASSUME TypeInv, NEW w \in Worker, Step(w)
    PROVE  Keeps(w)
BY AdjustKeeps, RewardKeeps, ReadKeeps, CheckKeeps, RedeemKeeps, ReviewKeeps, RejectKeeps,
   AbortKeeps DEF Step

LEMMA TypeInit == Init => TypeInv
<1>1. ASSUME Init
      PROVE  TypeOK
  BY <1>1 DEF Init, TypeOK, BalanceRow, RewardRow, RedemptionRow, NoRedemption, Txn
<1>2. QED
  BY <1>1 DEF Init, TypeInv, Refers, Idle

LEMMA TypeNext == TypeInv /\ [Next]_vars => TypeInv'
<1>1. ASSUME TypeInv, Next
      PROVE  TypeInv'
  BY <1>1, StepKeeps, KeepsEnough DEF Next
<1>2. ASSUME TypeInv, UNCHANGED vars
      PROVE  TypeInv'
  BY <1>2 DEF TypeInv, TypeOK, Refers, vars
<1>3. QED
  BY <1>1, <1>2

\* Every row, history and request keeps its type, however many requests overlap:
\* no handler writes a field of a redemption that does not exist.
THEOREM TypeCorrect == Spec => []TypeOK
<1>1. TypeInv => TypeOK
  BY DEF TypeInv
<1>2. QED
  BY <1>1, TypeInit, TypeNext, PTL DEF Spec
-----------------------------------------------------------------------------
(***************************************************************************)
(* MemberRewards keeps the promise of RewardBook when requests do not      *)
(* overlap: every step of a handler is a step of the book or none.         *)
(***************************************************************************)

OneWorker == \A v, w \in Worker : v = w

\* Nobody owes points and no stock is below zero.
Covered ==
    /\ \A m \in Member : balance[m].points >= 0
    /\ \A r \in Reward : reward[r].currentStock >= 0

\* What a request has read is still so.
ReadsStand(w) ==
    LET t == txn[w] IN
    /\ t.op = "adjustPoints" => balance[t.member].points + t.points >= 0
    /\ t.op = "redeemReward" =>
           /\ reward[t.reward].status = "ACTIVE"
           /\ t.points = -reward[t.reward].pointsCost
           /\ t.counted = Counts(t.reward)
           /\ t.counted => reward[t.reward].currentStock > 0
           /\ t.step = "checked" => balance[t.member].points + t.points >= 0
    /\ t.op = "rejectRedemption" =>
           /\ redemption[t.redemption].status = "REQUESTED"
           /\ t.member = redemption[t.redemption].member
           /\ t.points = redemption[t.redemption].pointsSpent
           /\ t.counted = Counts(redemption[t.redemption].reward)
    /\ t.op = "approveRedemption" => redemption[t.redemption].status = "REQUESTED"
    /\ t.op = "deliverRedemption" => redemption[t.redemption].status = "APPROVED"

SerialInv == Covered /\ RefundedOnce /\ \A w \in Worker : ReadsStand(w)

\* The book's view of the tables.
Points == [m \in Member |-> balance[m].points]
Offers == [r \in Reward |-> OfferOf(r)]
Claims == [x \in Redemption |-> ClaimOf(x)]
-----------------------------------------------------------------------------
(* How the parts of a commit look to the book.                             *)

LEMMA Unseen ==
    /\ UNCHANGED balance => UNCHANGED Points
    /\ UNCHANGED reward => UNCHANGED Offers
    /\ UNCHANGED redemption => UNCHANGED Claims
BY DEF Points, Offers, Claims, OfferOf, ClaimOf, Counts

LEMMA PointsMove ==
    ASSUME TypeOK, NEW m \in Member, NEW n \in Int, Credit(m, n)
    PROVE  Points' = [Points EXCEPT ![m] = @ + n]
<1>1. /\ balance'[m].points = balance[m].points + n
      /\ \A k \in Member \ {m} : balance'[k] = balance[k]
  BY CreditEffect
<1>2. QED
  BY <1>1 DEF Points

LEMMA OffersMove ==
    ASSUME TypeOK, NEW r \in Reward, NEW n \in Int, NEW counted \in BOOLEAN,
           counted = Counts(r),
           reward' = [reward EXCEPT ![r].currentStock = Stocked(r, n, counted)]
    PROVE  Offers' = [Offers EXCEPT ![r].stock = @ + Book!Units(r, n)]
<1>. DEFINE s == Stocked(r, n, counted)
            o == [open |-> reward[r].status = "ACTIVE", price |-> reward[r].pointsCost,
                  counted |-> Counts(r), stock |-> s]
<1>0. Book!Units(r, n) = IF Counts(r) THEN n ELSE 0
  BY DEF Book!Units, OfferOf
<1>1. s = reward[r].currentStock + Book!Units(r, n)
  BY <1>0, RewardFields DEF Stocked, Counts
<1>2. /\ reward'[r].status = reward[r].status /\ reward'[r].pointsCost = reward[r].pointsCost
      /\ reward'[r].currentStock = s /\ Counts(r)' = Counts(r)
      /\ \A q \in Reward \ {r} : reward'[q] = reward[q]
  BY StockEffect
<1>3. \A q \in Reward \ {r} : Counts(q)' = Counts(q)
  BY <1>2 DEF Counts
<1>4. Offers' = [Offers EXCEPT ![r] = o]
  <2>. HIDE DEF s
  <2>1. OfferOf(r)' = o
    BY <1>2 DEF OfferOf
  <2>2. \A q \in Reward \ {r} : OfferOf(q)' = OfferOf(q)
    BY <1>2, <1>3 DEF OfferOf
  <2>3. QED
    BY <2>1, <2>2 DEF Offers
<1>5. o = [Offers[r] EXCEPT !.stock = Offers[r].stock + Book!Units(r, n)]
  BY <1>1 DEF Offers, OfferOf
<1>. HIDE DEF o
<1>6. QED
  BY <1>4, <1>5

LEMMA ClaimFields ==
    ASSUME TypeOK, NEW x \in Redemption
    PROVE  /\ redemption[x].status = "NONE" => Claims[x].state = "NONE"
           /\ redemption[x].status # "NONE" =>
                Claims[x] = [state |-> redemption[x].status, member |-> redemption[x].member,
                             reward |-> redemption[x].reward,
                             price |-> redemption[x].pointsSpent]
BY NotMade, MadeFields DEF Claims, ClaimOf

LEMMA ClaimParts ==
    ASSUME TypeOK, NEW x \in Redemption, redemption[x].status # "NONE"
    PROVE  /\ Claims[x].state = redemption[x].status
           /\ Claims[x].member = redemption[x].member
           /\ Claims[x].reward = redemption[x].reward
           /\ Claims[x].price = redemption[x].pointsSpent
<1>1. Claims[x] = [state |-> redemption[x].status, member |-> redemption[x].member,
                   reward |-> redemption[x].reward, price |-> redemption[x].pointsSpent]
  BY ClaimFields
<1>2. QED
  BY <1>1

\* A new status and nothing else.
LEMMA ClaimsMove ==
    ASSUME TypeOK, NEW x \in Redemption, redemption[x].status # "NONE",
           NEW status \in {"APPROVED", "REJECTED", "DELIVERED"},
           redemption'[x].status = status,
           redemption'[x].member = redemption[x].member,
           redemption'[x].reward = redemption[x].reward,
           redemption'[x].pointsSpent = redemption[x].pointsSpent,
           \A y \in Redemption \ {x} : redemption'[y] = redemption[y]
    PROVE  Claims' = [Claims EXCEPT ![x].state = status]
<1>. DEFINE c == [state |-> status, member |-> redemption[x].member,
                  reward |-> redemption[x].reward, price |-> redemption[x].pointsSpent]
<1>1. redemption'[x] # NoRedemption
  BY DEF NoRedemption
<1>2. Claims' = [Claims EXCEPT ![x] = c]
  BY <1>1 DEF Claims, ClaimOf
<1>3. c = [Claims[x] EXCEPT !.state = status]
  <2>. DEFINE old == [state |-> redemption[x].status, member |-> redemption[x].member,
                      reward |-> redemption[x].reward, price |-> redemption[x].pointsSpent]
  <2>1. Claims[x] = old
    BY ClaimFields
  <2>2. c = [old EXCEPT !.state = status]
    OBVIOUS
  <2>. HIDE DEF old, c
  <2>3. QED
    BY <2>1, <2>2
<1>. HIDE DEF c
<1>4. QED
  BY <1>2, <1>3

\* The rows of the new state are what the book calls consistent.
LEMMA CoveredConsistent ==
    ASSUME TypeOK, Covered
    PROVE  Book!Consistent
<1>1. Points \in [Member -> Nat]
  BY DEF TypeOK, BalanceRow, Covered, Points
<1>2. Offers \in [Reward -> Book!Offer]
  BY RewardFields DEF Covered, Offers, OfferOf, Book!Offer
<1>3. Claims \in [Redemption -> Book!Claim]
  <2>1. ASSUME NEW x \in Redemption
        PROVE  ClaimOf(x) \in Book!Claim
    BY MadeFields, NotMade DEF ClaimOf, Book!Claim, Book!NoClaim
  <2>2. QED
    BY <2>1 DEF Claims
<1>4. QED
  BY <1>1, <1>2, <1>3 DEF Book!Consistent, Points, Offers, Claims
-----------------------------------------------------------------------------
(* Every step is one of the book's, and the invariant is kept.             *)

Unseeing == UNCHANGED <<Points, Offers, Claims>>

\* What a step of a handler is to the book, with what it leaves behind.
Books(w) ==
    /\ Book!Step \/ Unseeing
    /\ Covered' /\ RefundedOnce' /\ ReadsStand(w)'

LEMMA TablesUnseen ==
    ASSUME Covered, RefundedOnce, UNCHANGED <<balance, reward, redemption>>
    PROVE  Unseeing /\ Covered' /\ RefundedOnce'
BY Unseen DEF Covered, RefundedOnce, Made, Unseeing

LEMMA BeginStands ==
    ASSUME TypeOK, NEW w \in Worker, NEW t \in Txn, Begin(w, t)
    PROVE  txn'[w] = t
BY TxnEffect DEF Begin

LEMMA DoneStands ==
    ASSUME TypeOK, NEW w \in Worker, Done(w)
    PROVE  ReadsStand(w)'
BY DoneEffect DEF ReadsStand, Idle

LEMMA AdjustBooks ==
    ASSUME TypeInv, SerialInv, NEW w \in Worker,
           ReadAdjustPoints(w) \/ EnterAdjustPoints(w) \/ UpdateAdjustPoints(w)
    PROVE  Books(w)
<1>1. CASE ReadAdjustPoints(w)
  <2>1. PICK m \in Member, points \in Amount \cup {-n : n \in Amount} :
            /\ balance[m].points + points >= 0
            /\ Begin(w, [op |-> "adjustPoints", step |-> "checked", member |-> m,
                         points |-> points])
            /\ UNCHANGED Tables
    BY <1>1 DEF ReadAdjustPoints, Affordable
  <2>. DEFINE t == [op |-> "adjustPoints", step |-> "checked", member |-> m, points |-> points]
  <2>2. points \in Int
    BY AdjustmentIsInt
  <2>3. t \in Txn /\ t.op = "adjustPoints" /\ t.member = m /\ t.points = points
    BY <2>2 DEF Txn
  <2>4. Begin(w, t)
    BY <2>1
  <2>. HIDE DEF t
  <2>5. ReadsStand(w)'
    BY <2>1, <2>3, <2>4, BeginStands DEF ReadsStand, TypeInv, Tables
  <2>6. QED
    BY <2>1, <2>5, TablesUnseen DEF Books, SerialInv, Tables, Shop
<1>2. CASE EnterAdjustPoints(w)
  <2>. DEFINE t == [txn[w] EXCEPT !.step = "entered"]
  <2>1. /\ txn[w].op = "adjustPoints" /\ txn[w] \in Txn
        /\ txn' = [txn EXCEPT ![w] = t]
        /\ UNCHANGED <<balance, lost, Shop>>
    BY <1>2 DEF EnterAdjustPoints, TypeInv, TypeOK
  <2>2. /\ t \in Txn /\ t.op = "adjustPoints" /\ t.member = txn[w].member
        /\ t.points = txn[w].points
    BY <2>1 DEF Txn, Idle
  <2>. HIDE DEF t
  <2>3. txn'[w] = t
    BY <2>1, <2>2, TxnEffect DEF TypeInv
  <2>4. ReadsStand(w)'
    BY <2>1, <2>2, <2>3 DEF ReadsStand, SerialInv
  <2>5. QED
    BY <2>1, <2>4, TablesUnseen DEF Books, SerialInv, Shop
<1>3. CASE UpdateAdjustPoints(w)
  <2>1. PICK m \in Member, n \in Int :
            /\ Credit(m, n) /\ Done(w)
            /\ UNCHANGED <<entries, lost, Shop>> /\ balance[m].points + n >= 0
    BY <1>3, TxnFields DEF UpdateAdjustPoints, TypeInv, SerialInv, ReadsStand
  <2>2. /\ balance'[m].points = balance[m].points + n
        /\ \A k \in Member \ {m} : balance'[k] = balance[k]
    BY <2>1, CreditEffect DEF TypeInv
  <2>3. Covered' /\ RefundedOnce'
    BY <2>1, <2>2 DEF SerialInv, Covered, RefundedOnce, Made, Shop
  <2>4. Points' = [Points EXCEPT ![m] = @ + n] /\ UNCHANGED Offers /\ UNCHANGED Claims
    BY <2>1, PointsMove, Unseen DEF TypeInv, Shop
  <2>5. Points' = [Points EXCEPT ![m] = Points'[m]]
    BY <2>1, <2>4 DEF Points
  <2>6. Book!Grant(m)
    BY <2>4, <2>5 DEF Book!Grant, Points, Offers, Claims
  <2>7. Book!Step
    BY <2>6 DEF Book!Step
  <2>8. ReadsStand(w)'
    BY <2>1, DoneStands DEF TypeInv
  <2>9. QED
    BY <2>3, <2>7, <2>8 DEF Books
<1>4. QED
  BY <1>1, <1>2, <1>3

LEMMA RewardBooks ==
    ASSUME TypeInv, SerialInv, NEW w \in Worker, NEW r \in Reward,
           CreateReward(w, r) \/ UpdateReward(w, r)
    PROVE  Books(w)
<1>1. /\ txn[w] = Idle /\ UNCHANGED <<balance, redemption, txn>>
      /\ TypeOK'
  BY RewardKeeps DEF CreateReward, UpdateReward, Keeps
<1>2. /\ \A q \in Reward \ {r} : reward'[q] = reward[q]
      /\ reward'[r].currentStock >= 0
  <2>1. PICK row \in NewRows \cup Edited(r) : reward' = [reward EXCEPT ![r] = row]
    BY DEF CreateReward, UpdateReward
  <2>2. reward[r].currentStock >= 0 /\ Stock \subseteq Nat
    BY ConstantsOK DEF SerialInv, Covered
  <2>3. row.currentStock >= 0
    <3>1. row.currentStock \in Stock \cup {0, reward[r].currentStock}
      BY DEF NewRows, Edited
    <3>2. \A n \in Stock \cup {0, reward[r].currentStock} : n >= 0
      BY <2>2
    <3>3. QED
      BY <3>1, <3>2
  <2>4. QED
    BY <2>1, <2>3, RowWritten DEF TypeInv
<1>3. Covered' /\ RefundedOnce' /\ ReadsStand(w)'
  BY <1>1, <1>2 DEF SerialInv, Covered, RefundedOnce, Made, ReadsStand, Idle
<1>4. Offers' = [Offers EXCEPT ![r] = Offers'[r]]
  BY <1>2 DEF Offers, OfferOf, Counts
<1>5. Book!Change(r)
  BY <1>1, <1>4, Unseen DEF Book!Change, Points, Offers, Claims
<1>6. QED
  BY <1>3, <1>5 DEF Books, Book!Step

LEMMA ReadBooks ==
    ASSUME TypeInv, SerialInv, NEW w \in Worker,
           \/ \E m \in Member, r \in Reward : ReadRedeem(w, m, r)
           \/ \E x \in Redemption : ReadApprove(w, x) \/ ReadDeliver(w, x) \/ ReadReject(w, x)
    PROVE  Books(w)
<1>1. ASSUME NEW t \in Txn, Begin(w, t), UNCHANGED Tables, ReadsStand(w)'
      PROVE  Books(w)
  BY <1>1, TablesUnseen DEF Books, SerialInv, Tables, Shop
<1>2. ASSUME NEW m \in Member, NEW r \in Reward, ReadRedeem(w, m, r)
      PROVE  Books(w)
  <2>. DEFINE t == [op |-> "redeemReward", step |-> "read", member |-> m,
                    points |-> -reward[r].pointsCost, reward |-> r, counted |-> Counts(r)]
  <2>1. /\ Begin(w, t) /\ UNCHANGED Tables /\ reward[r].status = "ACTIVE"
        /\ Counts(r) => reward[r].currentStock > 0
    BY <1>2 DEF ReadRedeem
  <2>2. -reward[r].pointsCost \in Int /\ Counts(r) \in BOOLEAN
    BY RewardFields DEF TypeInv
  <2>3. /\ t \in Txn /\ t.op = "redeemReward" /\ t.step = "read" /\ t.reward = r
        /\ t.points = -reward[r].pointsCost /\ t.counted = Counts(r)
    BY <2>2 DEF Txn
  <2>. HIDE DEF t
  <2>4. txn'[w] = t
    BY <2>1, <2>3, BeginStands DEF TypeInv
  <2>5. ReadsStand(w)'
    BY <2>1, <2>3, <2>4 DEF ReadsStand, Tables, Shop, Counts
  <2>6. QED
    BY <1>1, <2>1, <2>3, <2>5
<1>3. ASSUME NEW x \in Redemption, ReadApprove(w, x) \/ ReadDeliver(w, x)
      PROVE  Books(w)
  <2>1. PICK op \in {"approveRedemption", "deliverRedemption"} :
            /\ Begin(w, [op |-> op, redemption |-> x]) /\ UNCHANGED Tables
            /\ redemption[x].status =
                   IF op = "approveRedemption" THEN "REQUESTED" ELSE "APPROVED"
    BY <1>3 DEF ReadApprove, ReadDeliver
  <2>. DEFINE t == [op |-> op, redemption |-> x]
  <2>2. t \in Txn /\ t.op = op /\ t.redemption = x /\ Begin(w, t)
    BY <2>1 DEF Txn
  <2>. HIDE DEF t
  <2>3. txn'[w] = t
    BY <2>2, BeginStands DEF TypeInv
  <2>4. ReadsStand(w)'
    BY <2>1, <2>2, <2>3 DEF ReadsStand, Tables, Shop
  <2>5. QED
    BY <1>1, <2>1, <2>2, <2>4
<1>4. ASSUME NEW x \in Redemption, ReadReject(w, x)
      PROVE  Books(w)
  <2>. DEFINE t == [op |-> "rejectRedemption", step |-> "read",
                    member |-> redemption[x].member,
                    points |-> redemption[x].pointsSpent, redemption |-> x,
                    counted |-> Counts(redemption[x].reward)]
  <2>1. Begin(w, t) /\ UNCHANGED Tables /\ redemption[x].status = "REQUESTED"
    BY <1>4 DEF ReadReject
  <2>2. /\ t \in Txn /\ t.op = "rejectRedemption" /\ t.redemption = x
        /\ t.member = redemption[x].member /\ t.points = redemption[x].pointsSpent
        /\ t.counted = Counts(redemption[x].reward)
    BY <2>1, MadeFields DEF Txn, TypeInv, Counts
  <2>. HIDE DEF t
  <2>3. txn'[w] = t
    BY <2>1, <2>2, BeginStands DEF TypeInv
  <2>4. ReadsStand(w)'
    BY <2>1, <2>2, <2>3 DEF ReadsStand, Tables, Shop, Counts
  <2>5. QED
    BY <1>1, <2>1, <2>2, <2>4
<1>5. QED
  BY <1>2, <1>3, <1>4

LEMMA CheckBooks ==
    ASSUME TypeInv, SerialInv, NEW w \in Worker, CheckBalance(w)
    PROVE  Books(w)
<1>. DEFINE old == txn[w]  t == [old EXCEPT !.step = "checked"]
<1>1. /\ old \in Txn /\ old.op \in {"redeemReward", "rejectRedemption"}
      /\ balance[old.member].points + old.points >= 0
      /\ txn' = [txn EXCEPT ![w] = t] /\ UNCHANGED Tables
  BY DEF CheckBalance, Affordable, TypeInv, TypeOK
<1>2. ReadsStand(w)
  BY DEF SerialInv
<1>. HIDE DEF old
<1>3. /\ t \in Txn /\ t.op = old.op /\ t.member = old.member /\ t.points = old.points
      /\ t.counted = old.counted
      /\ old.op = "redeemReward" => t.reward = old.reward
      /\ old.op = "rejectRedemption" => t.redemption = old.redemption
  BY <1>1 DEF Txn, Idle
<1>. HIDE DEF t
<1>4. txn'[w] = t
  BY <1>1, <1>3, TxnEffect DEF TypeInv
<1>5. ReadsStand(w)'
  BY <1>1, <1>2, <1>3, <1>4 DEF ReadsStand, Tables, Shop, Counts, old
<1>6. QED
  BY <1>1, <1>5, TablesUnseen DEF Books, SerialInv, Tables, Shop

LEMMA RedeemBooks ==
    ASSUME TypeInv, SerialInv, NEW w \in Worker, NEW x \in Redemption, CommitRedeem(w, x)
    PROVE  Books(w)
<1>. DEFINE t == txn[w]  m == t.member  r == t.reward  n == t.points  k == t.counted
            row == [status |-> "REQUESTED", member |-> m, reward |-> r,
                    pointsSpent |-> -n, refunds |-> 0]
            c == [state |-> "REQUESTED", member |-> m, reward |-> r, price |-> Offers[r].price]
<1>1. /\ m \in Member /\ r \in Reward /\ n \in Int
      /\ reward[r].status = "ACTIVE" /\ n = -reward[r].pointsCost
      /\ k \in BOOLEAN /\ k = Counts(r) /\ (k => reward[r].currentStock > 0)
      /\ balance[m].points + n >= 0
  BY TxnFields DEF CommitRedeem, TypeInv, SerialInv, ReadsStand
<1>2. /\ redemption[x].status = "NONE" /\ redemption' = [redemption EXCEPT ![x] = row]
      /\ Credit(m, n)
      /\ reward' = [reward EXCEPT ![r].currentStock = Stocked(r, -1, k)]
      /\ Done(w)
  BY DEF CommitRedeem
<1>3. /\ row.status = "REQUESTED" /\ row.refunds = 0 /\ row # NoRedemption
      /\ row.member = m /\ row.reward = r /\ row.pointsSpent = -n
  BY DEF NoRedemption
<1>. HIDE DEF k, m, n, r, row, t
<1>4. /\ redemption'[x] = row /\ \A y \in Redemption \ {x} : redemption'[y] = redemption[y]
  BY <1>2 DEF TypeInv, TypeOK
<1>5. /\ balance'[m].points = balance[m].points + n
      /\ \A o \in Member \ {m} : balance'[o] = balance[o]
  BY <1>1, <1>2, CreditEffect DEF TypeInv
<1>6. -1 \in Int
  OBVIOUS
<1>7. /\ reward'[r].currentStock = Stocked(r, -1, k)
      /\ \A q \in Reward \ {r} : reward'[q] = reward[q]
      /\ Offers' = [Offers EXCEPT ![r].stock = @ + Book!Units(r, -1)]
  BY <1>1, <1>2, <1>6, StockEffect, OffersMove DEF TypeInv
<1>8. Covered'
  <2>1. reward'[r].currentStock >= 0
    BY <1>1, <1>7, RewardFields DEF Stocked, TypeInv, SerialInv, Covered
  <2>2. QED
    BY <1>1, <1>5, <1>7, <2>1 DEF SerialInv, Covered
<1>9. RefundedOnce'
  BY <1>3, <1>4 DEF SerialInv, RefundedOnce, Made
<1>10. Offers[r].open /\ Offers[r].price = -n
  <2>1. Offers[r].price = reward[r].pointsCost
    BY <1>1 DEF Offers, OfferOf
  <2>2. reward[r].pointsCost = -n
    BY <1>1, RewardFields DEF TypeInv
  <2>3. Offers[r].open
    BY <1>1 DEF Offers, OfferOf
  <2>4. QED
    BY <2>1, <2>2, <2>3
<1>11. Points' = [Points EXCEPT ![m] = @ - Offers[r].price]
  <2>1. Points' = [Points EXCEPT ![m] = Points[m] + n]
    BY <1>1, <1>2, PointsMove DEF TypeInv
  <2>2. Points[m] \in Int
    BY <1>1 DEF Points, TypeInv, TypeOK, BalanceRow
  <2>3. Points[m] + n = Points[m] - Offers[r].price
    BY <1>1, <1>10, <2>2
  <2>4. QED
    BY <2>1, <2>3
<1>12. Claims' = [Claims EXCEPT ![x] = c]
  BY <1>3, <1>4, <1>10 DEF Claims, ClaimOf
<1>13. Claims[x].state = "NONE"
  BY <1>2, ClaimFields DEF TypeInv
<1>14. Book!Ask(m, r, x)
  BY <1>7, <1>10, <1>11, <1>12, <1>13 DEF Book!Ask, Points, Offers, Claims
<1>15. Book!Step
  BY <1>1, <1>14 DEF Book!Step
<1>16. QED
  BY <1>2, <1>8, <1>9, <1>15, DoneStands DEF Books, TypeInv

LEMMA ReviewBooks ==
    ASSUME TypeInv, SerialInv, NEW w \in Worker, CommitReview(w)
    PROVE  Books(w)
<1>1. PICK x \in Redemption, from \in {"REQUESTED", "APPROVED"},
           to \in {"APPROVED", "DELIVERED"} :
        /\ <<from, to>> \in {<<"REQUESTED", "APPROVED">>, <<"APPROVED", "DELIVERED">>}
        /\ redemption[x].status = from
        /\ redemption' = [redemption EXCEPT ![x].status = to]
        /\ Done(w) /\ UNCHANGED <<balance, entries, reward, lost, supplied, recounted>>
  <2>1. txn[w].op \in {"approveRedemption", "deliverRedemption"} /\ ReadsStand(w)
        /\ txn[w].redemption \in Redemption
    BY TxnFields DEF CommitReview, TypeInv, SerialInv
  <2>2. CASE txn[w].op = "approveRedemption"
    BY <2>1, <2>2 DEF CommitReview, ReadsStand
  <2>3. CASE txn[w].op = "deliverRedemption"
    BY <2>1, <2>3 DEF CommitReview, ReadsStand
  <2>4. QED
    BY <2>1, <2>2, <2>3
<1>2. redemption[x].status # "NONE" /\ to \in {"REQUESTED", "APPROVED", "REJECTED", "DELIVERED"}
  BY <1>1
<1>3. /\ redemption'[x].status = to
      /\ redemption'[x].member = redemption[x].member
      /\ redemption'[x].reward = redemption[x].reward
      /\ redemption'[x].pointsSpent = redemption[x].pointsSpent
      /\ redemption'[x].refunds = redemption[x].refunds
      /\ \A y \in Redemption \ {x} : redemption'[y] = redemption[y]
  BY <1>1, <1>2, ReviewEffect DEF TypeInv
<1>4. Covered' /\ RefundedOnce'
  BY <1>1, <1>2, <1>3 DEF SerialInv, Covered, RefundedOnce, Made
<1>5. Claims' = [Claims EXCEPT ![x].state = to]
  BY <1>1, <1>2, <1>3, ClaimsMove DEF TypeInv
<1>6. Claims[x].state = from
  BY <1>1, <1>2, ClaimParts DEF TypeInv
<1>7. Book!Advance(x, from, to)
  BY <1>1, <1>5, <1>6, Unseen DEF Book!Advance, Points, Offers, Claims
<1>8. Book!Step
  <2>1. CASE from = "REQUESTED" /\ to = "APPROVED"
    BY <1>7, <2>1 DEF Book!Step
  <2>2. CASE from = "APPROVED" /\ to = "DELIVERED"
    BY <1>7, <2>2 DEF Book!Step
  <2>3. QED
    BY <1>1, <2>1, <2>2
<1>9. QED
  BY <1>1, <1>4, <1>8, DoneStands DEF Books, TypeInv

LEMMA RejectBooks ==
    ASSUME TypeInv, SerialInv, NEW w \in Worker, CommitReject(w)
    PROVE  Books(w)
<1>1. PICK x \in Redemption, m \in Member, r \in Reward, n \in Nat, c \in BOOLEAN :
        /\ redemption[x].status = "REQUESTED" /\ redemption[x].member = m
        /\ redemption[x].reward = r /\ redemption[x].pointsSpent = n
        /\ redemption' = [redemption EXCEPT ![x] =
               [redemption[x] EXCEPT !.status = "REJECTED", !.refunds = redemption[x].refunds + 1]]
        /\ Credit(m, n) /\ c = Counts(r)
        /\ reward' = [reward EXCEPT ![r].currentStock = Stocked(r, 1, c)]
        /\ Done(w)
  <2>1. /\ txn[w].op = "rejectRedemption" /\ txn[w].redemption \in Redemption
        /\ redemption[txn[w].redemption].status = "REQUESTED"
        /\ txn[w].member = redemption[txn[w].redemption].member
        /\ txn[w].points = redemption[txn[w].redemption].pointsSpent
        /\ txn[w].counted = Counts(redemption[txn[w].redemption].reward)
        /\ txn[w].counted \in BOOLEAN
    BY TxnFields DEF CommitReject, TypeInv, SerialInv, ReadsStand
  <2>2. /\ redemption[txn[w].redemption].member \in Member
        /\ redemption[txn[w].redemption].reward \in Reward
        /\ redemption[txn[w].redemption].pointsSpent \in Nat
    BY <2>1, MadeFields DEF TypeInv
  <2>3. QED
    BY <2>1, <2>2 DEF CommitReject
<1>2. redemption[x].status # "NONE" /\ redemption[x].refunds = 0 /\ n \in Int
  BY <1>1 DEF SerialInv, RefundedOnce, Made
<1>3. /\ redemption'[x].status = "REJECTED"
      /\ redemption'[x].member = redemption[x].member
      /\ redemption'[x].reward = redemption[x].reward
      /\ redemption'[x].pointsSpent = redemption[x].pointsSpent
      /\ redemption'[x].refunds = redemption[x].refunds + 1
      /\ \A y \in Redemption \ {x} : redemption'[y] = redemption[y]
  BY <1>1, <1>2, RejectEffect DEF TypeInv
<1>4. RefundedOnce'
  BY <1>2, <1>3 DEF SerialInv, RefundedOnce, Made
<1>5. /\ balance'[m].points = balance[m].points + n
      /\ \A k \in Member \ {m} : balance'[k] = balance[k]
      /\ Points' = [Points EXCEPT ![m] = @ + n]
  BY <1>1, <1>2, CreditEffect, PointsMove DEF TypeInv
<1>6. /\ reward'[r].currentStock = Stocked(r, 1, c)
      /\ \A q \in Reward \ {r} : reward'[q] = reward[q]
      /\ Offers' = [Offers EXCEPT ![r].stock = @ + Book!Units(r, 1)]
  <2>1. 1 \in Int
    OBVIOUS
  <2>2. TypeOK /\ c = Counts(r) /\ reward' = [reward EXCEPT ![r].currentStock = Stocked(r, 1, c)]
    BY <1>1 DEF TypeInv
  <2>3. QED
    BY <2>1, <2>2, StockEffect, OffersMove
<1>7. Covered'
  <2>1. balance[m].points \in Int /\ balance[m].points >= 0
    BY DEF TypeInv, TypeOK, BalanceRow, SerialInv, Covered
  <2>2. reward'[r].currentStock >= 0
    BY <1>6, RewardFields DEF Stocked, TypeInv, SerialInv, Covered
  <2>3. QED
    BY <1>5, <1>6, <2>1, <2>2 DEF SerialInv, Covered
<1>8. Claims' = [Claims EXCEPT ![x].state = "REJECTED"]
  BY <1>2, <1>3, ClaimsMove DEF TypeInv
<1>9. /\ Claims[x].state = "REQUESTED" /\ Claims[x].member = m
      /\ Claims[x].reward = r /\ Claims[x].price = n
  BY <1>1, <1>2, ClaimParts DEF TypeInv
<1>10. Book!Refuse(x)
  BY <1>5, <1>6, <1>8, <1>9 DEF Book!Refuse, Points, Offers, Claims
<1>11. Book!Step
  BY <1>10 DEF Book!Step
<1>12. QED
  BY <1>1, <1>4, <1>7, <1>11, DoneStands DEF Books, TypeInv

LEMMA AbortBooks ==
    ASSUME TypeInv, SerialInv, NEW w \in Worker, Abort(w)
    PROVE  Books(w)
<1>1. Done(w) /\ UNCHANGED <<balance, reward, redemption>>
  BY DEF Abort, Shop
<1>2. QED
  BY <1>1, TablesUnseen, DoneStands DEF Books, SerialInv, TypeInv

LEMMA StepBooks ==
    ASSUME TypeInv, SerialInv, NEW w \in Worker, Step(w)
    PROVE  Books(w)
BY AdjustBooks, RewardBooks, ReadBooks, CheckBooks, RedeemBooks, ReviewBooks, RejectBooks,
   AbortBooks DEF Step
-----------------------------------------------------------------------------
LEMMA SerialInit == Init => SerialInv /\ Book!Init
<1>1. ASSUME Init
      PROVE  SerialInv
  BY <1>1 DEF Init, SerialInv, Covered, RefundedOnce, Made, NoRedemption, ReadsStand, Idle
<1>2. ASSUME Init
      PROVE  Book!Init
  BY <1>2 DEF Init, Book!Init, Book!NoClaim, OfferOf, ClaimOf, NoRedemption, Counts
<1>3. QED
  BY <1>1, <1>2

\* With one worker nothing disturbs what it has read.
LEMMA SerialNext ==
    ASSUME OneWorker, TypeInv, SerialInv, [Next]_vars
    PROVE  SerialInv'
<1>1. CASE Next
  <2>1. PICK w \in Worker : Step(w)
    BY <1>1 DEF Next
  <2>2. Books(w)
    BY <2>1, StepBooks
  <2>3. \A v \in Worker : v = w
    BY DEF OneWorker
  <2>4. QED
    BY <2>2, <2>3 DEF Books, SerialInv
<1>2. CASE UNCHANGED vars
  <2>1. UNCHANGED <<balance, reward, redemption, txn>>
    BY <1>2 DEF vars
  <2>2. QED
    BY <2>1 DEF SerialInv, Covered, RefundedOnce, Made, ReadsStand, Counts
<1>3. QED
  BY <1>1, <1>2

\* A step of the handlers is a step of the book or leaves it as it is.
LEMMA StepRefines ==
    ASSUME TypeInv, SerialInv, TypeInv', SerialInv', [Next]_vars
    PROVE  [Book!Next]_(Book!vars)
<1>1. Book!Step \/ Unseeing
  <2>1. CASE Next
    BY <2>1, StepBooks DEF Next, Books
  <2>2. CASE UNCHANGED vars
    BY <2>2, Unseen DEF vars, Unseeing
  <2>3. QED
    BY <2>1, <2>2
<1>2. (Book!Consistent)'
  BY CoveredConsistent, PTL DEF TypeInv, SerialInv
<1>3. QED
  BY <1>1, <1>2 DEF Book!Next, Book!vars, Unseeing, Points, Offers, Claims

\* When requests do not overlap, the shop keeps the promise of RewardBook: nobody
\* owes points, claims are made at the price and from the stock of an open offer,
\* and settled once (redeemReward, approve-, reject- and deliverRedemption).
THEOREM ShopKeepsBook == ASSUME OneWorker PROVE Spec => KeepsBook
<1>1. Init => TypeInv /\ SerialInv /\ Book!Init
  BY TypeInit, SerialInit
<1>2. TypeInv /\ SerialInv /\ [Next]_vars => TypeInv' /\ SerialInv'
  BY TypeNext, SerialNext
<1>3. TypeInv /\ SerialInv /\ TypeInv' /\ SerialInv' /\ [Next]_vars => [Book!Next]_(Book!vars)
  BY StepRefines
<1>4. QED
  BY <1>1, <1>2, <1>3, PTL DEF Spec, KeepsBook, Book!Spec

\* Nor is a redemption refunded twice, or refunded and delivered.
THEOREM RefundsSettle == ASSUME OneWorker PROVE Spec => []RefundedOnce
<1>1. Init => TypeInv /\ SerialInv
  BY TypeInit, SerialInit
<1>2. TypeInv /\ SerialInv /\ [Next]_vars => TypeInv' /\ SerialInv'
  BY TypeNext, SerialNext
<1>3. SerialInv => RefundedOnce
  BY DEF SerialInv
<1>4. QED
  BY <1>1, <1>2, <1>3, PTL DEF Spec
-----------------------------------------------------------------------------
(***************************************************************************)
(* The rewards add up, whatever requests overlap.  A sum changes by what   *)
(* the row of one worker or of one redemption adds to it before and after  *)
(* the step (Sums), and that is what the step writes elsewhere.            *)
(***************************************************************************)

\* Finitely many requests are in flight and finitely many redemptions are made.
FiniteTables == IsFiniteSet(Worker) /\ IsFiniteSet(Redemption)

\* The sums of the invariant, and what they are compared with.
Coming(m) == SumFunction([w \in Worker |-> StillToCome(txn[w], m)])
Spent(m) == SumFunction([x \in Redemption |-> CostOf(redemption[x], m)])
GivenBack(m) == SumFunction([x \in Redemption |-> BackFor(redemption[x], m)])
OffShelf(r) == SumFunction([x \in Redemption |-> UnitsFor(redemption[x], r)])

Gap(m) ==
    balance[m].points + lost[m]
        - (entries[m]["granted"] + entries[m]["withdrawn"]
             + entries[m]["redeemed"] + entries[m]["refunded"])

LEMMA AsSums ==
    /\ EntriesExplainBalance <=>
           \A m \in Member : balance[m].points + lost[m] + Coming(m)
               = entries[m]["granted"] + entries[m]["withdrawn"]
                   + entries[m]["redeemed"] + entries[m]["refunded"]
    /\ RedemptionsExplained <=>
           \A m \in Member : /\ entries[m]["redeemed"] = -Spent(m)
                             /\ entries[m]["refunded"] = GivenBack(m)
    /\ StockAccounted <=>
           \A r \in Reward \ recounted :
               Counts(r) => reward[r].currentStock = supplied[r] - OffShelf(r)
BY DEF EntriesExplainBalance, RedemptionsExplained, StockAccounted, Coming, Spent, GivenBack,
       OffShelf

\* What a request in flight has read of columns that do not change, and of the stock where
\* no edit has begun or ceased to count it.
Read(w, r) == r \notin recounted => txn[w].counted = Counts(r)

Sound(w) ==
    /\ txn[w].op = "redeemReward" =>
           reward[txn[w].reward].status # "NONE" /\ Read(w, txn[w].reward)
    /\ txn[w].op = "rejectRedemption" =>
           /\ txn[w].member = redemption[txn[w].redemption].member
           /\ txn[w].points = redemption[txn[w].redemption].pointsSpent
           /\ Read(w, redemption[txn[w].redemption].reward)

\* A redemption is of a reward that was created.
Offered ==
    \A x \in Redemption :
        redemption[x].status # "NONE" => reward[redemption[x].reward].status # "NONE"

ReconcileInv == TypeInv /\ (\A w \in Worker : Sound(w)) /\ Offered /\ RewardsReconcile

\* What the rows add is a number.
LEMMA RowsTyped ==
    ASSUME TypeOK
    PROVE  /\ \A w \in Worker : \A m : StillToCome(txn[w], m) \in Int
           /\ \A x \in Redemption : \A m :
                 /\ CostOf(redemption[x], m) \in Int
                 /\ BackFor(redemption[x], m) \in Int
                 /\ UnitsFor(redemption[x], m) \in Int
<1>1. ASSUME NEW w \in Worker, NEW m
      PROVE  StillToCome(txn[w], m) \in Int
  BY TxnFields DEF StillToCome
<1>2. ASSUME NEW x \in Redemption, NEW m
      PROVE  /\ CostOf(redemption[x], m) \in Int
             /\ BackFor(redemption[x], m) \in Int
             /\ UnitsFor(redemption[x], m) \in Int
  <2>1. CASE redemption[x].status = "NONE"
    BY <2>1 DEF CostOf, BackFor, UnitsFor
  <2>2. CASE redemption[x].status # "NONE"
    <3>1. redemption[x].pointsSpent \in Nat /\ redemption[x].refunds \in Nat
      BY <2>2, MadeFields
    <3>2. \A p, n \in Nat : p * n \in Int /\ 1 - n \in Int
      OBVIOUS
    <3>3. QED
      BY <3>1, <3>2 DEF CostOf, BackFor, UnitsFor
  <2>3. QED
    BY <2>1, <2>2
<1>3. QED
  BY <1>1, <1>2

\* What is still to come changes by the request of one worker.
LEMMA ComingStep ==
    ASSUME FiniteTables, TypeOK, TypeOK', NEW w \in Worker,
           \A v \in Worker \ {w} : txn'[v] = txn[v], NEW m
    PROVE  /\ Coming(m)' = Coming(m) - StillToCome(txn[w], m) + StillToCome(txn'[w], m)
           /\ Coming(m) \in Int
<1>. DEFINE g == [v \in Worker |-> StillToCome(txn[v], m)]
            h == [v \in Worker |-> StillToCome(txn'[v], m)]
<1>1. \A v \in Worker : StillToCome(txn'[v], m) \in Int
  <2>1. ASSUME NEW v \in Worker
        PROVE  StillToCome(txn'[v], m) \in Int
    <3>1. txn'[v] \in Txn
      BY DEF TypeOK
    <3>2. txn'[v].op = "adjustPoints" => txn'[v].points \in Int
      BY <3>1 DEF Txn, Idle
    <3>3. QED
      BY <3>2 DEF StillToCome
  <2>2. QED
    BY <2>1
<1>2. g \in [Worker -> Int] /\ h \in [Worker -> Int]
  BY <1>1, RowsTyped
<1>3. \A v \in Worker \ {w} : h[v] = g[v]
  OBVIOUS
<1>4. g[w] = StillToCome(txn[w], m) /\ h[w] = StillToCome(txn'[w], m)
  OBVIOUS
<1>5. Coming(m) = SumFunction(g) /\ Coming(m)' = SumFunction(h)
  BY DEF Coming
<1>. HIDE DEF g, h
<1>6. QED
  BY <1>2, <1>3, <1>4, <1>5, SumTable DEF FiniteTables

\* The sums over the redemptions change by one of them.
LEMMA RedemptionStep ==
    ASSUME FiniteTables, TypeOK, NEW after \in [Redemption -> RedemptionRow],
           redemption' = after, NEW x \in Redemption,
           \A y \in Redemption \ {x} : after[y] = redemption[y], NEW m
    PROVE  /\ Spent(m)' = Spent(m) - CostOf(redemption[x], m) + CostOf(after[x], m)
           /\ GivenBack(m)' = GivenBack(m) - BackFor(redemption[x], m) + BackFor(after[x], m)
           /\ OffShelf(m)' = OffShelf(m) - UnitsFor(redemption[x], m) + UnitsFor(after[x], m)
           /\ Spent(m) \in Int /\ GivenBack(m) \in Int /\ OffShelf(m) \in Int
<1>1. \A y \in Redemption : /\ CostOf(after[y], m) \in Int
                            /\ BackFor(after[y], m) \in Int
                            /\ UnitsFor(after[y], m) \in Int
  <2>1. ASSUME NEW y \in Redemption
        PROVE  /\ CostOf(after[y], m) \in Int
               /\ BackFor(after[y], m) \in Int
               /\ UnitsFor(after[y], m) \in Int
    <3>1. after[y].status # "NONE" => after[y].pointsSpent \in Nat /\ after[y].refunds \in Nat
      BY DEF RedemptionRow, NoRedemption
    <3>2. \A p, n \in Nat : p * n \in Int /\ 1 - n \in Int
      OBVIOUS
    <3>3. QED
      BY <3>1, <3>2 DEF CostOf, BackFor, UnitsFor
  <2>2. QED
    BY <2>1
<1>2. /\ Spent(m)' = Spent(m) - CostOf(redemption[x], m) + CostOf(after[x], m)
      /\ Spent(m) \in Int
  <2>. DEFINE g == [y \in Redemption |-> CostOf(redemption[y], m)]
              h == [y \in Redemption |-> CostOf(after[y], m)]
  <2>1. g \in [Redemption -> Int] /\ h \in [Redemption -> Int]
    BY <1>1, RowsTyped
  <2>2. \A y \in Redemption \ {x} : h[y] = g[y]
    OBVIOUS
  <2>3. g[x] = CostOf(redemption[x], m) /\ h[x] = CostOf(after[x], m)
    OBVIOUS
  <2>4. Spent(m) = SumFunction(g) /\ Spent(m)' = SumFunction(h)
    BY DEF Spent
  <2>. HIDE DEF g, h
  <2>5. QED
    BY <2>1, <2>2, <2>3, <2>4, SumTable DEF FiniteTables
<1>3. /\ GivenBack(m)' = GivenBack(m) - BackFor(redemption[x], m) + BackFor(after[x], m)
      /\ GivenBack(m) \in Int
  <2>. DEFINE g == [y \in Redemption |-> BackFor(redemption[y], m)]
              h == [y \in Redemption |-> BackFor(after[y], m)]
  <2>1. g \in [Redemption -> Int] /\ h \in [Redemption -> Int]
    BY <1>1, RowsTyped
  <2>2. \A y \in Redemption \ {x} : h[y] = g[y]
    OBVIOUS
  <2>3. g[x] = BackFor(redemption[x], m) /\ h[x] = BackFor(after[x], m)
    OBVIOUS
  <2>4. GivenBack(m) = SumFunction(g) /\ GivenBack(m)' = SumFunction(h)
    BY DEF GivenBack
  <2>. HIDE DEF g, h
  <2>5. QED
    BY <2>1, <2>2, <2>3, <2>4, SumTable DEF FiniteTables
<1>4. /\ OffShelf(m)' = OffShelf(m) - UnitsFor(redemption[x], m) + UnitsFor(after[x], m)
      /\ OffShelf(m) \in Int
  <2>. DEFINE g == [y \in Redemption |-> UnitsFor(redemption[y], m)]
              h == [y \in Redemption |-> UnitsFor(after[y], m)]
  <2>1. g \in [Redemption -> Int] /\ h \in [Redemption -> Int]
    BY <1>1, RowsTyped
  <2>2. \A y \in Redemption \ {x} : h[y] = g[y]
    OBVIOUS
  <2>3. g[x] = UnitsFor(redemption[x], m) /\ h[x] = UnitsFor(after[x], m)
    OBVIOUS
  <2>4. OffShelf(m) = SumFunction(g) /\ OffShelf(m)' = SumFunction(h)
    BY DEF OffShelf
  <2>. HIDE DEF g, h
  <2>5. QED
    BY <2>1, <2>2, <2>3, <2>4, SumTable DEF FiniteTables
<1>5. QED
  BY <1>2, <1>3, <1>4


\* A member's points, lost points and entries are numbers.
LEMMA MemberTyped ==
    ASSUME TypeOK, NEW m \in Member
    PROVE  /\ balance[m].points \in Int /\ lost[m] \in Int
           /\ entries[m]["granted"] \in Int /\ entries[m]["withdrawn"] \in Int
           /\ entries[m]["redeemed"] \in Int /\ entries[m]["refunded"] \in Int
BY DEF TypeOK, BalanceRow, EntryKind

\* A step of w explains what it writes by what was still to come.
LEMMA BalanceStep ==
    ASSUME FiniteTables, TypeOK, TypeOK', EntriesExplainBalance, NEW w \in Worker,
           \A v \in Worker \ {w} : txn'[v] = txn[v],
           \A m \in Member : Gap(m)' + StillToCome(txn'[w], m) = Gap(m) + StillToCome(txn[w], m)
    PROVE  EntriesExplainBalance'
<1>1. ASSUME NEW m \in Member
      PROVE  balance'[m].points + lost'[m] + Coming(m)'
                 = entries'[m]["granted"] + entries'[m]["withdrawn"]
                     + entries'[m]["redeemed"] + entries'[m]["refunded"]
  <2>1. PICK b, l, g, d, r, f \in Int :
            /\ b = balance[m].points /\ l = lost[m]
            /\ g = entries[m]["granted"] /\ d = entries[m]["withdrawn"]
            /\ r = entries[m]["redeemed"] /\ f = entries[m]["refunded"]
    BY MemberTyped
  <2>2. /\ balance'[m].points \in Int /\ lost'[m] \in Int
        /\ entries'[m]["granted"] \in Int /\ entries'[m]["withdrawn"] \in Int
        /\ entries'[m]["redeemed"] \in Int /\ entries'[m]["refunded"] \in Int
    BY DEF TypeOK, BalanceRow, EntryKind
  <2>3. PICK b2, l2, g2, d2, r2, f2 \in Int :
            /\ b2 = balance'[m].points /\ l2 = lost'[m]
            /\ g2 = entries'[m]["granted"] /\ d2 = entries'[m]["withdrawn"]
            /\ r2 = entries'[m]["redeemed"] /\ f2 = entries'[m]["refunded"]
    BY <2>2
  <2>4. b + l + Coming(m) = g + d + r + f
    BY <2>1, AsSums
  <2>5. Gap(m) = b + l - (g + d + r + f) /\ Gap(m)' = b2 + l2 - (g2 + d2 + r2 + f2)
    BY <2>1, <2>3 DEF Gap
  <2>6. /\ Coming(m)' = Coming(m) - StillToCome(txn[w], m) + StillToCome(txn'[w], m)
        /\ Coming(m) \in Int
    BY ComingStep
  <2>7. StillToCome(txn[w], m) \in Int /\ StillToCome(txn'[w], m) \in Int
    <3>1. txn'[w] \in Txn
      BY DEF TypeOK
    <3>2. txn'[w].op = "adjustPoints" => txn'[w].points \in Int
      BY <3>1 DEF Txn, Idle
    <3>3. QED
      BY <3>2, RowsTyped DEF StillToCome
  <2>8. Gap(m)' + StillToCome(txn'[w], m) = Gap(m) + StillToCome(txn[w], m)
    OBVIOUS
  <2>9. b2 + l2 + Coming(m)' = g2 + d2 + r2 + f2
    <3>1. \A B, E, B2, E2, C, s, s2 \in Int :
              B + C = E /\ B2 - E2 + s2 = B - E + s => B2 + (C - s + s2) = E2
      OBVIOUS
    <3>2. /\ b + l \in Int /\ g + d + r + f \in Int
          /\ b2 + l2 \in Int /\ g2 + d2 + r2 + f2 \in Int
      OBVIOUS
    <3>3. (b + l) + Coming(m) = g + d + r + f
      BY <2>4
    <3>4. (b2 + l2) - (g2 + d2 + r2 + f2) + StillToCome(txn'[w], m)
              = (b + l) - (g + d + r + f) + StillToCome(txn[w], m)
      BY <2>5, <2>8
    <3>5. (b2 + l2) + (Coming(m) - StillToCome(txn[w], m) + StillToCome(txn'[w], m))
              = g2 + d2 + r2 + f2
      BY <2>6, <2>7, <3>1, <3>2, <3>3, <3>4
    <3>6. QED
      BY <2>6, <3>5
  <2>10. QED
    BY <2>3, <2>9
<1>2. EntriesExplainBalance' <=>
          \A m \in Member : balance'[m].points + lost'[m] + Coming(m)'
              = entries'[m]["granted"] + entries'[m]["withdrawn"]
                  + entries'[m]["redeemed"] + entries'[m]["refunded"]
  BY DEF EntriesExplainBalance, Coming
<1>3. QED
  BY <1>1, <1>2

\* A step that writes redemption x explains its entries and its unit by the row.
LEMMA RowStep ==
    ASSUME FiniteTables, TypeOK, TypeOK', RedemptionsExplained, StockAccounted,
           NEW after \in [Redemption -> RedemptionRow], redemption' = after,
           NEW x \in Redemption, \A y \in Redemption \ {x} : after[y] = redemption[y],
           \A m \in Member :
              /\ entries'[m]["redeemed"] =
                     entries[m]["redeemed"] + CostOf(redemption[x], m) - CostOf(after[x], m)
              /\ entries'[m]["refunded"] =
                     entries[m]["refunded"] - BackFor(redemption[x], m) + BackFor(after[x], m),
           supplied' = supplied, recounted' = recounted, \A r \in Reward : Counts(r)' = Counts(r),
           \A r \in Reward \ recounted : Counts(r) =>
              reward'[r].currentStock =
                  reward[r].currentStock + UnitsFor(redemption[x], r) - UnitsFor(after[x], r)
    PROVE  RedemptionsExplained' /\ StockAccounted'
<1>0. \A m : /\ CostOf(redemption[x], m) \in Int /\ BackFor(redemption[x], m) \in Int
             /\ UnitsFor(redemption[x], m) \in Int
  BY RowsTyped
<1>1. \A m : /\ CostOf(after[x], m) \in Int /\ BackFor(after[x], m) \in Int
             /\ UnitsFor(after[x], m) \in Int
  <2>1. after[x].status # "NONE" => after[x].pointsSpent \in Nat /\ after[x].refunds \in Nat
    BY DEF RedemptionRow, NoRedemption
  <2>2. \A p, n \in Nat : p * n \in Int /\ 1 - n \in Int
    OBVIOUS
  <2>3. QED
    BY <2>1, <2>2 DEF CostOf, BackFor, UnitsFor
<1>2. ASSUME NEW m \in Member
      PROVE  entries'[m]["redeemed"] = -Spent(m)' /\ entries'[m]["refunded"] = GivenBack(m)'
  <2>1. /\ Spent(m)' = Spent(m) - CostOf(redemption[x], m) + CostOf(after[x], m)
        /\ GivenBack(m)' = GivenBack(m) - BackFor(redemption[x], m) + BackFor(after[x], m)
        /\ Spent(m) \in Int /\ GivenBack(m) \in Int
    BY RedemptionStep
  <2>2. entries[m]["redeemed"] = -Spent(m) /\ entries[m]["refunded"] = GivenBack(m)
    BY AsSums
  <2>3. /\ entries'[m]["redeemed"] =
               entries[m]["redeemed"] + CostOf(redemption[x], m) - CostOf(after[x], m)
        /\ entries'[m]["refunded"] =
               entries[m]["refunded"] - BackFor(redemption[x], m) + BackFor(after[x], m)
    OBVIOUS
  <2>4. QED
    BY <1>0, <1>1, <2>1, <2>2, <2>3
<1>3. ASSUME NEW r \in Reward \ recounted, Counts(r)
      PROVE  reward'[r].currentStock = supplied'[r] - OffShelf(r)'
  <2>1. r \in Reward
    OBVIOUS
  <2>2. reward[r].currentStock \in Int /\ supplied[r] \in Int
    BY <2>1, RewardFields DEF TypeOK
  <2>3. /\ OffShelf(r)' = OffShelf(r) - UnitsFor(redemption[x], r) + UnitsFor(after[x], r)
        /\ OffShelf(r) \in Int
    BY RedemptionStep
  <2>4. reward[r].currentStock = supplied[r] - OffShelf(r)
    BY <1>3, AsSums
  <2>5. reward'[r].currentStock =
            reward[r].currentStock + UnitsFor(redemption[x], r) - UnitsFor(after[x], r)
    BY <1>3
  <2>6. supplied'[r] = supplied[r]
    OBVIOUS
  <2>7. QED
    BY <1>0, <1>1, <2>2, <2>3, <2>4, <2>5, <2>6
<1>4. QED
  BY <1>2, <1>3 DEF RedemptionsExplained, StockAccounted, Spent, GivenBack, OffShelf

\* What a step may do to rows that others have read.
RowsStay ==
    /\ \A r \in Reward : reward[r].status # "NONE" =>
          /\ reward'[r].status # "NONE"
          /\ r \notin recounted' => r \notin recounted /\ Counts(r)' = Counts(r)
    /\ \A x \in Redemption :
          redemption[x].status # "NONE" =>
              /\ redemption'[x].member = redemption[x].member
              /\ redemption'[x].reward = redemption[x].reward
              /\ redemption'[x].pointsSpent = redemption[x].pointsSpent

LEMMA ReadStays ==
    ASSUME RowsStay, NEW v \in Worker, txn'[v] = txn[v],
           NEW r \in Reward, reward[r].status # "NONE", Read(v, r)
    PROVE  Read(v, r)'
BY DEF RowsStay, Read

LEMMA SoundStays ==
    ASSUME TypeInv, Offered, \A v \in Worker : Sound(v), RowsStay, NEW w \in Worker,
           \A v \in Worker \ {w} : txn'[v] = txn[v], Sound(w)'
    PROVE  \A v \in Worker : Sound(v)'
<1>1. ASSUME NEW v \in Worker, v # w
      PROVE  Sound(v)'
  <2>1. txn'[v] = txn[v] /\ Sound(v) /\ Refers(v)
    BY <1>1 DEF TypeInv
  <2>2. CASE txn[v].op = "redeemReward"
    <3>1. PICK r \in Reward : r = txn[v].reward
      BY <2>2, TxnFields DEF TypeInv
    <3>2. reward[r].status # "NONE" /\ Read(v, r)
      BY <2>1, <2>2, <3>1 DEF Sound
    <3>3. Read(v, r)' /\ reward'[r].status # "NONE"
      BY <2>1, <3>2, ReadStays DEF RowsStay
    <3>4. txn'[v].reward = r
      BY <2>1, <3>1
    <3>5. QED
      BY <2>1, <2>2, <3>3, <3>4 DEF Sound
  <2>3. CASE txn[v].op = "rejectRedemption"
    <3>1. PICK x \in Redemption : x = txn[v].redemption
      BY <2>3, TxnFields DEF TypeInv
    <3>2. redemption[x].status # "NONE"
      BY <2>1, <2>3, <3>1 DEF Refers
    <3>3. PICK r \in Reward : r = redemption[x].reward
      BY <3>2, MadeFields DEF TypeInv
    <3>4. reward[r].status # "NONE" /\ Read(v, r)
      BY <2>1, <2>3, <3>1, <3>2, <3>3 DEF Sound, Offered
    <3>5. Read(v, r)'
      BY <2>1, <3>4, ReadStays
    <3>6. /\ redemption'[x].member = redemption[x].member /\ redemption'[x].reward = r
          /\ redemption'[x].pointsSpent = redemption[x].pointsSpent
      BY <3>2, <3>3 DEF RowsStay
    <3>7. txn'[v].redemption = x
      BY <2>1, <3>1
    <3>8. QED
      BY <2>1, <2>3, <3>1, <3>5, <3>6, <3>7 DEF Sound
  <2>4. CASE txn[v].op \notin {"redeemReward", "rejectRedemption"}
    BY <2>1, <2>4 DEF Sound
  <2>5. QED
    BY <2>2, <2>3, <2>4
<1>2. QED
  BY <1>1

LEMMA OfferedStays ==
    ASSUME TypeOK, Offered, RowsStay,
           \A x \in Redemption : redemption'[x].status # "NONE" => redemption[x].status # "NONE"
    PROVE  Offered'
<1>1. ASSUME NEW x \in Redemption, redemption'[x].status # "NONE"
      PROVE  reward'[redemption'[x].reward].status # "NONE"
  <2>1. redemption[x].status # "NONE"
    BY <1>1
  <2>2. redemption[x].reward \in Reward
    BY <2>1, MadeFields
  <2>3. QED
    BY <2>1, <2>2 DEF Offered, RowsStay
<1>2. QED
  BY <1>1 DEF Offered


LEMMA NothingToCome ==
    \A t, m : t.op # "adjustPoints" \/ t.step # "entered" => StillToCome(t, m) = 0
BY DEF StillToCome

\* A step that writes no redemption and no stock.
LEMMA PointsStep ==
    ASSUME FiniteTables, ReconcileInv, TypeInv', NEW w \in Worker, Keeps(w),
           UNCHANGED Shop, Sound(w)',
           \A m \in Member :
              /\ entries'[m]["redeemed"] = entries[m]["redeemed"]
              /\ entries'[m]["refunded"] = entries[m]["refunded"]
              /\ Gap(m)' + StillToCome(txn'[w], m) = Gap(m) + StillToCome(txn[w], m)
    PROVE  ReconcileInv'
<1>1. /\ TypeInv /\ TypeOK /\ TypeOK' /\ EntriesExplainBalance /\ RedemptionsExplained
      /\ StockAccounted /\ Offered /\ \A v \in Worker : Sound(v)
  BY DEF ReconcileInv, TypeInv, RewardsReconcile
<1>2. /\ \A v \in Worker \ {w} : txn'[v] = txn[v]
      /\ reward' = reward /\ redemption' = redemption /\ supplied' = supplied
      /\ recounted' = recounted
  BY DEF Keeps, Shop
<1>3. RowsStay
  BY <1>2 DEF RowsStay, Counts
<1>4. (\A v \in Worker : Sound(v)') /\ Offered'
  BY <1>1, <1>2, <1>3, SoundStays, OfferedStays
<1>5. EntriesExplainBalance'
  BY <1>1, <1>2, BalanceStep
<1>6. RedemptionsExplained' /\ StockAccounted'
  BY <1>1, <1>2 DEF RedemptionsExplained, StockAccounted, Counts
<1>7. QED
  BY <1>4, <1>5, <1>6 DEF ReconcileInv, RewardsReconcile

LEMMA QuietStep ==
    ASSUME FiniteTables, ReconcileInv, TypeInv', NEW w \in Worker, Keeps(w),
           UNCHANGED Tables, Sound(w)',
           txn[w].op # "adjustPoints" \/ txn[w].step # "entered",
           txn'[w].op # "adjustPoints" \/ txn'[w].step # "entered"
    PROVE  ReconcileInv'
<1>1. balance' = balance /\ entries' = entries /\ lost' = lost /\ UNCHANGED Shop
  BY DEF Tables
<1>2. ASSUME NEW m \in Member
      PROVE  Gap(m)' + StillToCome(txn'[w], m) = Gap(m) + StillToCome(txn[w], m)
  <2>1. Gap(m)' = Gap(m)
    BY <1>1 DEF Gap
  <2>2. StillToCome(txn'[w], m) = 0 /\ StillToCome(txn[w], m) = 0
    BY NothingToCome
  <2>3. QED
    BY <2>1, <2>2
<1>3. QED
  BY <1>1, <1>2, PointsStep

LEMMA AdjustReconciles ==
    ASSUME FiniteTables, ReconcileInv, TypeInv', NEW w \in Worker, Keeps(w),
           ReadAdjustPoints(w) \/ EnterAdjustPoints(w) \/ UpdateAdjustPoints(w)
    PROVE  ReconcileInv'
<1>0. TypeInv /\ TypeOK
  BY DEF ReconcileInv, TypeInv
<1>1. CASE ReadAdjustPoints(w)
  <2>1. PICK m \in Member, points \in Amount \cup {-n : n \in Amount} :
            /\ Begin(w, [op |-> "adjustPoints", step |-> "checked", member |-> m,
                         points |-> points])
            /\ UNCHANGED Tables
    BY <1>1 DEF ReadAdjustPoints
  <2>. PICK t : t = [op |-> "adjustPoints", step |-> "checked", member |-> m,
                     points |-> points]
    OBVIOUS
  <2>2. t.op = "adjustPoints" /\ t.step = "checked"
    OBVIOUS
  <2>3. txn[w] = Idle /\ txn' = [txn EXCEPT ![w] = t]
    BY <2>1 DEF Begin
  <2>4. txn'[w] = t
    BY <1>0, <2>3 DEF TypeOK
  <2>5. txn[w].op # "adjustPoints"
    BY <2>3 DEF Idle
  <2>6. Sound(w)'
    BY <2>2, <2>4 DEF Sound
  <2>7. QED
    BY <2>1, <2>2, <2>4, <2>5, <2>6, QuietStep
<1>2. CASE EnterAdjustPoints(w)
  <2>. PICK c : c = txn[w]
    OBVIOUS
  <2>. PICK kind : kind = IF c.points > 0 THEN "granted" ELSE "withdrawn"
    OBVIOUS
  <2>1. c.op = "adjustPoints" /\ c.step = "checked"
    BY <1>2 DEF EnterAdjustPoints
  <2>2. c.member \in Member /\ c.points \in Int
    BY <1>0, <2>1, TxnFields
  <2>. PICK t : t = [c EXCEPT !.step = "entered"]
    OBVIOUS
  <2>3. c \in Txn
    BY <1>0 DEF TypeOK
  <2>4. t.op = "adjustPoints" /\ t.step = "entered" /\ t.member = c.member /\ t.points = c.points
    BY <2>1, <2>3 DEF Txn, Idle
  <2>5. txn' = [txn EXCEPT ![w] = t] /\ Enter(c.member, kind, c.points)
        /\ UNCHANGED <<balance, lost, Shop>>
    BY <1>2 DEF EnterAdjustPoints
  <2>6. txn'[w] = t
    BY <1>0, <2>5 DEF TypeOK
  <2>7. Sound(w)'
    BY <2>4, <2>6 DEF Sound
  <2>8. ASSUME NEW m \in Member
        PROVE  /\ entries'[m]["redeemed"] = entries[m]["redeemed"]
               /\ entries'[m]["refunded"] = entries[m]["refunded"]
               /\ Gap(m)' + StillToCome(txn'[w], m) = Gap(m) + StillToCome(txn[w], m)
    <3>1. entries' = [entries EXCEPT ![c.member][kind] = entries[c.member][kind] + c.points]
      BY <2>5 DEF Enter
    <3>2. entries \in [Member -> [EntryKind -> Int]]
      BY <1>0 DEF TypeOK
    <3>3. PICK p \in Int : p = IF m = c.member THEN c.points ELSE 0
      BY <2>2
    <3>4. /\ entries'[m]["redeemed"] = entries[m]["redeemed"]
          /\ entries'[m]["refunded"] = entries[m]["refunded"]
          /\ entries'[m]["granted"] =
                 entries[m]["granted"] + (IF kind = "granted" THEN p ELSE 0)
          /\ entries'[m]["withdrawn"] =
                 entries[m]["withdrawn"] + (IF kind = "withdrawn" THEN p ELSE 0)
      BY <2>2, <3>1, <3>2, <3>3 DEF EntryKind
    <3>5. StillToCome(txn'[w], m) = p /\ StillToCome(txn[w], m) = 0
      BY <2>1, <2>4, <2>6, <3>3 DEF StillToCome
    <3>6. kind \in {"granted", "withdrawn"}
      OBVIOUS
    <3>7. Gap(m)' = Gap(m) - p /\ Gap(m) \in Int
      <4>1. balance' = balance /\ lost' = lost
        BY <2>5
      <4>2. QED
        BY <1>0, <3>4, <3>6, <4>1, MemberTyped DEF Gap
    <3>8. QED
      BY <3>4, <3>5, <3>7
  <2>9. QED
    BY <2>5, <2>7, <2>8, PointsStep
<1>3. CASE UpdateAdjustPoints(w)
  <2>. PICK c : c = txn[w]
    OBVIOUS
  <2>1. c.op = "adjustPoints" /\ c.step = "entered"
    BY <1>3 DEF UpdateAdjustPoints
  <2>2. c.member \in Member /\ c.points \in Int
    BY <1>0, <2>1, TxnFields
  <2>3. Credit(c.member, c.points) /\ Done(w) /\ UNCHANGED <<entries, lost, Shop>>
    BY <1>3 DEF UpdateAdjustPoints
  <2>4. txn'[w].op = "idle"
    BY <1>0, <2>3, DoneEffect DEF Idle
  <2>5. Sound(w)'
    BY <2>4 DEF Sound
  <2>6. ASSUME NEW m \in Member
        PROVE  /\ entries'[m]["redeemed"] = entries[m]["redeemed"]
               /\ entries'[m]["refunded"] = entries[m]["refunded"]
               /\ Gap(m)' + StillToCome(txn'[w], m) = Gap(m) + StillToCome(txn[w], m)
    <3>1. PICK p \in Int : p = IF m = c.member THEN c.points ELSE 0
      BY <2>2
    <3>2. balance'[m].points = balance[m].points + p
      BY <1>0, <2>2, <2>3, <3>1, CreditEffect, MemberTyped
    <3>3. StillToCome(txn'[w], m) = 0 /\ StillToCome(txn[w], m) = p
      BY <2>1, <2>4, <3>1 DEF StillToCome
    <3>4. entries' = entries /\ lost' = lost
      BY <2>3
    <3>5. Gap(m)' = Gap(m) + p /\ Gap(m) \in Int
      BY <1>0, <3>2, <3>4, MemberTyped DEF Gap
    <3>6. QED
      BY <3>3, <3>4, <3>5
  <2>7. QED
    BY <2>3, <2>5, <2>6, PointsStep
<1>4. QED
  BY <1>1, <1>2, <1>3

\* A request that ends without its writes: an entry it has made stays, its points are lost.
LEMMA AbortReconciles ==
    ASSUME FiniteTables, ReconcileInv, TypeInv', NEW w \in Worker, Keeps(w), Abort(w)
    PROVE  ReconcileInv'
<1>0. TypeInv /\ TypeOK
  BY DEF ReconcileInv, TypeInv
<1>. PICK c : c = txn[w]
  OBVIOUS
<1>1. Done(w) /\ UNCHANGED <<balance, entries, Shop>>
  BY DEF Abort
<1>2. txn'[w].op = "idle"
  BY <1>0, <1>1, DoneEffect DEF Idle
<1>3. Sound(w)'
  BY <1>2 DEF Sound
<1>4. CASE c.op = "adjustPoints" /\ c.step = "entered"
  <2>1. c.member \in Member /\ c.points \in Int
    BY <1>0, <1>4, TxnFields
  <2>2. lost' = [lost EXCEPT ![c.member] = lost[c.member] + c.points]
    BY <1>4 DEF Abort
  <2>3. ASSUME NEW m \in Member
        PROVE  Gap(m)' + StillToCome(txn'[w], m) = Gap(m) + StillToCome(txn[w], m)
    <3>1. PICK p \in Int : p = IF m = c.member THEN c.points ELSE 0
      BY <2>1
    <3>2. lost'[m] = lost[m] + p
      BY <1>0, <2>1, <2>2, <3>1 DEF TypeOK
    <3>3. StillToCome(txn'[w], m) = 0 /\ StillToCome(txn[w], m) = p
      BY <1>2, <1>4, <3>1 DEF StillToCome
    <3>4. entries' = entries /\ balance' = balance
      BY <1>1
    <3>5. Gap(m)' = Gap(m) + p /\ Gap(m) \in Int
      BY <1>0, <3>2, <3>4, MemberTyped DEF Gap
    <3>6. QED
      BY <3>3, <3>5
  <2>4. QED
    BY <1>1, <1>3, <2>3, PointsStep
<1>5. CASE ~(c.op = "adjustPoints" /\ c.step = "entered")
  <2>1. UNCHANGED Tables
    BY <1>1, <1>5 DEF Abort, Tables
  <2>2. QED
    BY <1>2, <1>3, <1>5, <2>1, QuietStep
<1>6. QED
  BY <1>4, <1>5


LEMMA ReadReconciles ==
    ASSUME FiniteTables, ReconcileInv, TypeInv', NEW w \in Worker, Keeps(w),
           \/ \E m \in Member, r \in Reward : ReadRedeem(w, m, r)
           \/ \E x \in Redemption : ReadApprove(w, x) \/ ReadDeliver(w, x) \/ ReadReject(w, x)
    PROVE  ReconcileInv'
<1>0. TypeInv /\ TypeOK
  BY DEF ReconcileInv, TypeInv
<1>1. ASSUME NEW t, Begin(w, t), UNCHANGED Tables, t.op # "adjustPoints", Sound(w)'
      PROVE  ReconcileInv'
  <2>1. txn'[w] = t /\ txn[w].op # "adjustPoints"
    BY <1>0, <1>1 DEF Begin, Idle, TypeOK
  <2>2. QED
    BY <1>1, <2>1, QuietStep
<1>2. ASSUME NEW t, Begin(w, t)
      PROVE  txn'[w] = t
  BY <1>0, <1>2 DEF Begin, TypeOK
<1>3. ASSUME NEW m \in Member, NEW r \in Reward, ReadRedeem(w, m, r)
      PROVE  ReconcileInv'
  <2>1. PICK t : /\ Begin(w, t) /\ t.op = "redeemReward" /\ t.reward = r
                 /\ t.counted = Counts(r)
    BY <1>3 DEF ReadRedeem
  <2>2. reward' = reward /\ reward[r].status = "ACTIVE" /\ UNCHANGED Tables
    BY <1>3 DEF ReadRedeem, Tables, Shop
  <2>3. Sound(w)'
    BY <1>2, <2>1, <2>2 DEF Sound, Read, Counts
  <2>4. QED
    BY <1>1, <2>1, <2>2, <2>3
<1>4. ASSUME NEW x \in Redemption, ReadApprove(w, x) \/ ReadDeliver(w, x)
      PROVE  ReconcileInv'
  <2>1. PICK t : Begin(w, t) /\ t.op \in {"approveRedemption", "deliverRedemption"}
    BY <1>4 DEF ReadApprove, ReadDeliver
  <2>2. Sound(w)'
    BY <1>2, <2>1 DEF Sound
  <2>3. UNCHANGED Tables
    BY <1>4 DEF ReadApprove, ReadDeliver
  <2>4. QED
    BY <1>1, <2>1, <2>2, <2>3
<1>5. ASSUME NEW x \in Redemption, ReadReject(w, x)
      PROVE  ReconcileInv'
  <2>1. PICK t : /\ Begin(w, t) /\ t.op = "rejectRedemption" /\ t.redemption = x
                 /\ t.member = redemption[x].member /\ t.points = redemption[x].pointsSpent
                 /\ t.counted = Counts(redemption[x].reward)
    BY <1>5 DEF ReadReject
  <2>2. redemption' = redemption /\ reward' = reward /\ UNCHANGED Tables
    BY <1>5 DEF ReadReject, Tables, Shop
  <2>3. Sound(w)'
    BY <1>2, <2>1, <2>2 DEF Sound, Read, Counts
  <2>4. QED
    BY <1>1, <2>1, <2>2, <2>3
<1>6. QED
  BY <1>3, <1>4, <1>5

LEMMA CheckReconciles ==
    ASSUME FiniteTables, ReconcileInv, TypeInv', NEW w \in Worker, Keeps(w), CheckBalance(w)
    PROVE  ReconcileInv'
<1>0. TypeInv /\ TypeOK /\ Sound(w)
  BY DEF ReconcileInv, TypeInv
<1>. PICK c : c = txn[w]
  OBVIOUS
<1>. PICK t : t = [c EXCEPT !.step = "checked"]
  OBVIOUS
<1>1. c \in Txn /\ c.op \in {"redeemReward", "rejectRedemption"}
  BY <1>0 DEF CheckBalance, TypeOK
<1>2. /\ t.op = c.op /\ t.member = c.member /\ t.points = c.points
      /\ t.counted = c.counted
      /\ c.op = "redeemReward" => t.reward = c.reward
      /\ c.op = "rejectRedemption" => t.redemption = c.redemption
  BY <1>1 DEF Txn, Idle
<1>3. txn' = [txn EXCEPT ![w] = t] /\ UNCHANGED Tables
  BY DEF CheckBalance
<1>4. /\ txn'[w] = t /\ reward' = reward /\ redemption' = redemption
      /\ recounted' = recounted
  BY <1>0, <1>3 DEF TypeOK, Tables, Shop
<1>5. Sound(w)'
  BY <1>0, <1>1, <1>2, <1>4 DEF Sound, Read, Counts
<1>6. QED
  BY <1>1, <1>2, <1>3, <1>4, <1>5, QuietStep

\* A reward is created with what is put on the shelf, and none was redeemed before.
LEMMA RewardReconciles ==
    ASSUME FiniteTables, ReconcileInv, TypeInv', NEW w \in Worker, Keeps(w), NEW r \in Reward,
           CreateReward(w, r) \/ UpdateReward(w, r)
    PROVE  ReconcileInv'
<1>0. /\ TypeInv /\ TypeOK /\ EntriesExplainBalance /\ RedemptionsExplained
      /\ StockAccounted /\ Offered /\ \A v \in Worker : Sound(v)
  BY DEF ReconcileInv, TypeInv, RewardsReconcile
<1>1. /\ balance' = balance /\ entries' = entries /\ redemption' = redemption /\ txn' = txn
      /\ lost' = lost
  BY DEF CreateReward, UpdateReward
<1>2. PICK row \in NewRows \cup Edited(r) : reward' = [reward EXCEPT ![r] = row]
  BY DEF CreateReward, UpdateReward
<1>3. /\ row.status # "NONE" /\ row.currentStock \in Int
      /\ reward'[r] = row /\ Counts(r)' = (row.stockLimit /\ row.stocked)
      /\ \A q \in Reward \ {r} : reward'[q] = reward[q]
  BY <1>0, <1>2, RowWritten
<1>4. /\ \A q \in Reward \ {r} : supplied'[q] = supplied[q] /\ Counts(q)' = Counts(q)
      /\ recounted \subseteq recounted' /\ recounted' \subseteq recounted \cup {r}
  <2>1. \A q \in Reward \ {r} : Counts(q)' = Counts(q)
    BY <1>3 DEF Counts
  <2>2. supplied \in [Reward -> Int]
    BY <1>0 DEF TypeOK
  <2>3. QED
    BY <2>1, <2>2 DEF CreateReward, UpdateReward
<1>5. ASSUME r \notin recounted', Counts(r)'
      PROVE  reward'[r].currentStock = supplied'[r] - OffShelf(r)
  <2>1. OffShelf(r) \in Int
    <3>. DEFINE g == [x \in Redemption |-> UnitsFor(redemption[x], r)]
    <3>1. \A x \in Redemption : g[x] \in Int
      BY <1>0, RowsTyped
    <3>2. OffShelf(r) = SumFunctionOnSet(g, Redemption)
      BY DEF OffShelf, SumFunction
    <3>. HIDE DEF g
    <3>3. QED
      BY <3>1, <3>2, SumType DEF FiniteTables
  <2>2. /\ supplied \in [Reward -> Int] /\ supplied[r] \in Int
        /\ reward[r].currentStock \in Int
    BY <1>0, RewardFields DEF TypeOK
  <2>3. CASE CreateReward(w, r)
    <3>1. OffShelf(r) = 0
      <4>1. reward[r].status = "NONE"
        BY <2>3 DEF CreateReward
      <4>. DEFINE g == [x \in Redemption |-> UnitsFor(redemption[x], r)]
      <4>2. \A x \in Redemption : g[x] = 0
        BY <1>0, <4>1 DEF Offered, UnitsFor
      <4>3. OffShelf(r) = SumFunctionOnSet(g, Redemption)
        BY DEF OffShelf, SumFunction
      <4>. HIDE DEF g
      <4>4. QED
        BY <4>2, <4>3, SumZero DEF FiniteTables
    <3>2. PICK new \in NewRows : /\ reward' = [reward EXCEPT ![r] = new]
                                 /\ supplied' = [supplied EXCEPT ![r] = new.currentStock]
      BY <2>3 DEF CreateReward
    <3>3. supplied'[r] = row.currentStock
      <4>1. reward \in [Reward -> RewardRow]
        BY <1>0 DEF TypeOK
      <4>2. new = row
        BY <1>3, <3>2, <4>1
      <4>3. QED
        BY <2>2, <3>2, <4>2
    <3>4. QED
      BY <1>3, <3>1, <3>3
  <2>4. CASE UpdateReward(w, r)
    <3>1. PICK new \in Edited(r) :
              /\ reward' = [reward EXCEPT ![r] = new]
              /\ recounted' = IF (new.stockLimit /\ new.stocked) = Counts(r)
                              THEN recounted ELSE recounted \cup {r}
              /\ supplied' = [supplied EXCEPT ![r] =
                     IF r \in recounted' THEN 0
                     ELSE supplied[r] + new.currentStock - reward[r].currentStock]
      BY <2>4 DEF UpdateReward
    <3>2. new = row
      <4>1. reward \in [Reward -> RewardRow]
        BY <1>0 DEF TypeOK
      <4>2. QED
        BY <1>3, <3>1, <4>1
    <3>3. supplied'[r] = supplied[r] + row.currentStock - reward[r].currentStock
      BY <1>5, <2>2, <3>1, <3>2
    <3>4. r \notin recounted /\ Counts(r)
      BY <1>3, <1>5, <3>1, <3>2 DEF Counts
    <3>5. reward[r].currentStock = supplied[r] - OffShelf(r)
      BY <1>0, <3>4, AsSums
    <3>6. QED
      BY <1>3, <2>1, <2>2, <3>3, <3>5
  <2>5. QED
    BY <2>3, <2>4
<1>6. RowsStay
  <2>1. ASSUME reward[r].status # "NONE", r \notin recounted'
        PROVE  r \notin recounted /\ Counts(r)' = Counts(r)
    <3>1. UpdateReward(w, r)
      BY <2>1 DEF CreateReward
    <3>2. PICK new \in Edited(r) :
              /\ reward' = [reward EXCEPT ![r] = new]
              /\ recounted' = IF (new.stockLimit /\ new.stocked) = Counts(r)
                              THEN recounted ELSE recounted \cup {r}
      BY <3>1 DEF UpdateReward
    <3>3. new = row
      <4>1. reward \in [Reward -> RewardRow]
        BY <1>0 DEF TypeOK
      <4>2. QED
        BY <1>3, <3>2, <4>1
    <3>4. QED
      BY <1>3, <2>1, <3>2, <3>3
  <2>2. QED
    BY <1>1, <1>3, <1>4, <2>1 DEF RowsStay
<1>7. Sound(w)'
  <2>1. txn[w] = Idle
    BY DEF CreateReward, UpdateReward
  <2>2. QED
    BY <1>1, <2>1 DEF Sound, Idle
<1>8. (\A v \in Worker : Sound(v)') /\ Offered'
  BY <1>0, <1>1, <1>6, <1>7, SoundStays, OfferedStays
<1>9. EntriesExplainBalance' /\ RedemptionsExplained'
  BY <1>0, <1>1 DEF EntriesExplainBalance, RedemptionsExplained
<1>10. StockAccounted'
  <2>1. ASSUME NEW q \in Reward \ recounted', Counts(q)'
        PROVE  reward'[q].currentStock = supplied'[q] - OffShelf(q)
    <3>1. CASE q = r
      BY <1>5, <2>1, <3>1
    <3>2. CASE q # r
      <4>1. q \notin recounted /\ Counts(q)
        BY <1>4, <2>1, <3>2
      <4>2. reward[q].currentStock = supplied[q] - OffShelf(q)
        BY <1>0, <4>1, AsSums
      <4>3. QED
        BY <1>3, <1>4, <3>2, <4>2
    <3>3. QED
      BY <3>1, <3>2
  <2>2. QED
    BY <1>1, <2>1 DEF StockAccounted, OffShelf
<1>11. QED
  BY <1>8, <1>9, <1>10 DEF ReconcileInv, RewardsReconcile


\* A unit more on the shelf of r, or one less.
LEMMA UnitStep ==
    ASSUME TypeOK, NEW r \in Reward, NEW n \in Int, NEW counted \in BOOLEAN,
           r \notin recounted => counted = Counts(r),
           reward' = [reward EXCEPT ![r].currentStock = Stocked(r, n, counted)]
    PROVE  /\ \A q \in Reward : /\ reward'[q].status = reward[q].status
                                /\ Counts(q)' = Counts(q)
           /\ \A q \in Reward \ recounted : Counts(q) =>
                  reward'[q].currentStock = reward[q].currentStock + (IF q = r THEN n ELSE 0)
<1>1. /\ reward'[r].status = reward[r].status /\ Counts(r)' = Counts(r)
      /\ reward'[r].currentStock = Stocked(r, n, counted)
      /\ \A q \in Reward \ {r} : reward'[q] = reward[q]
  BY StockEffect
<1>2. \A q \in Reward : reward[q].currentStock \in Int
  BY RewardFields
<1>3. \A q \in Reward \ {r} : Counts(q)' = Counts(q)
  BY <1>1 DEF Counts
<1>4. r \notin recounted /\ Counts(r) => reward'[r].currentStock = reward[r].currentStock + n
  BY <1>1 DEF Stocked, Counts
<1>5. QED
  BY <1>1, <1>2, <1>3, <1>4

\* Points entered and added at once leave no gap.
LEMMA EnteredAndAdded ==
    ASSUME TypeOK, NEW c \in Member, NEW kind \in {"redeemed", "refunded"}, NEW n \in Int,
           Enter(c, kind, n), Credit(c, n), lost' = lost
    PROVE  \A m \in Member :
              /\ Gap(m)' = Gap(m)
              /\ entries'[m]["redeemed"] =
                     entries[m]["redeemed"] + (IF m = c /\ kind = "redeemed" THEN n ELSE 0)
              /\ entries'[m]["refunded"] =
                     entries[m]["refunded"] + (IF m = c /\ kind = "refunded" THEN n ELSE 0)
<1>1. ASSUME NEW m \in Member
      PROVE  /\ Gap(m)' = Gap(m)
             /\ entries'[m]["redeemed"] =
                    entries[m]["redeemed"] + (IF m = c /\ kind = "redeemed" THEN n ELSE 0)
             /\ entries'[m]["refunded"] =
                    entries[m]["refunded"] + (IF m = c /\ kind = "refunded" THEN n ELSE 0)
  <2>1. entries' = [entries EXCEPT ![c][kind] = entries[c][kind] + n]
    BY DEF Enter
  <2>2. entries \in [Member -> [EntryKind -> Int]]
    BY DEF TypeOK
  <2>3. PICK p \in Int : p = IF m = c THEN n ELSE 0
    OBVIOUS
  <2>4. /\ entries'[m]["granted"] = entries[m]["granted"]
        /\ entries'[m]["withdrawn"] = entries[m]["withdrawn"]
        /\ entries'[m]["redeemed"] =
               entries[m]["redeemed"] + (IF kind = "redeemed" THEN p ELSE 0)
        /\ entries'[m]["refunded"] =
               entries[m]["refunded"] + (IF kind = "refunded" THEN p ELSE 0)
    BY <2>1, <2>2, <2>3 DEF EntryKind
  <2>5. balance'[m].points = balance[m].points + p
    BY <2>3, CreditEffect, MemberTyped
  <2>6. Gap(m)' = Gap(m)
    BY <2>4, <2>5, MemberTyped DEF Gap
  <2>7. QED
    BY <2>3, <2>4, <2>6
<1>2. QED
  BY <1>1

\* A step of a request on redemptions, which adjusts no points.
LEMMA CommitStep ==
    ASSUME FiniteTables, ReconcileInv, TypeInv', NEW w \in Worker, Keeps(w), Done(w),
           txn[w].op # "adjustPoints", RowsStay, Offered', RedemptionsExplained',
           StockAccounted', \A m \in Member : Gap(m)' = Gap(m)
    PROVE  ReconcileInv'
<1>1. /\ TypeInv /\ TypeOK /\ TypeOK' /\ EntriesExplainBalance /\ Offered
      /\ \A v \in Worker : Sound(v)
  BY DEF ReconcileInv, TypeInv, RewardsReconcile
<1>2. txn'[w].op = "idle" /\ \A v \in Worker \ {w} : txn'[v] = txn[v]
  BY <1>1, DoneEffect DEF Idle
<1>3. Sound(w)'
  BY <1>2 DEF Sound
<1>4. \A v \in Worker : Sound(v)'
  BY <1>1, <1>2, <1>3, SoundStays
<1>5. ASSUME NEW m \in Member
      PROVE  Gap(m)' + StillToCome(txn'[w], m) = Gap(m) + StillToCome(txn[w], m)
  BY <1>2, NothingToCome
<1>6. EntriesExplainBalance'
  BY <1>1, <1>2, <1>5, BalanceStep
<1>7. QED
  BY <1>4, <1>6 DEF ReconcileInv, RewardsReconcile

LEMMA RedeemReconciles ==
    ASSUME FiniteTables, ReconcileInv, TypeInv', NEW w \in Worker, Keeps(w),
           NEW x \in Redemption, CommitRedeem(w, x)
    PROVE  ReconcileInv'
<1>0. /\ TypeInv /\ TypeOK /\ TypeOK' /\ RedemptionsExplained /\ StockAccounted /\ Offered
      /\ Sound(w) /\ Refers(w)
  BY DEF ReconcileInv, TypeInv, RewardsReconcile
<1>. PICK c : c = txn[w]
  OBVIOUS
<1>. PICK row : row = [status |-> "REQUESTED", member |-> c.member, reward |-> c.reward,
                       pointsSpent |-> -c.points, refunds |-> 0]
  OBVIOUS
<1>1. /\ c.op = "redeemReward" /\ c.member \in Member /\ c.reward \in Reward
      /\ c.points \in Int /\ c.points <= 0 /\ c.counted \in BOOLEAN
      /\ c.reward \notin recounted => c.counted = Counts(c.reward)
  BY <1>0, TxnFields DEF CommitRedeem, Refers, Sound, Read
<1>2. /\ redemption[x].status = "NONE" /\ redemption' = [redemption EXCEPT ![x] = row]
      /\ Enter(c.member, "redeemed", c.points) /\ Credit(c.member, c.points)
      /\ reward' = [reward EXCEPT ![c.reward].currentStock = Stocked(c.reward, -1, c.counted)]
      /\ Done(w) /\ lost' = lost /\ supplied' = supplied /\ recounted' = recounted
  BY DEF CommitRedeem
<1>3. /\ row.status = "REQUESTED" /\ row.member = c.member /\ row.reward = c.reward
      /\ row.pointsSpent = -c.points /\ row.refunds = 0
  OBVIOUS
<1>. PICK after : after = redemption'
  OBVIOUS
<1>4. /\ after \in [Redemption -> RedemptionRow] /\ redemption' = after /\ after[x] = row
      /\ \A y \in Redemption \ {x} : after[y] = redemption[y]
  BY <1>0, <1>2 DEF TypeOK
<1>5. -1 \in Int
  OBVIOUS
<1>6. /\ \A q \in Reward : /\ reward'[q].status = reward[q].status
                           /\ Counts(q)' = Counts(q)
      /\ \A q \in Reward \ recounted : Counts(q) =>
             reward'[q].currentStock = reward[q].currentStock + (IF q = c.reward THEN -1 ELSE 0)
  BY <1>0, <1>1, <1>2, <1>5, UnitStep
<1>7. \A m \in Member :
         /\ Gap(m)' = Gap(m)
         /\ entries'[m]["redeemed"] =
                entries[m]["redeemed"] + (IF m = c.member THEN c.points ELSE 0)
         /\ entries'[m]["refunded"] = entries[m]["refunded"] + 0
  <2>1. \A m \in Member :
           /\ Gap(m)' = Gap(m)
           /\ entries'[m]["redeemed"] = entries[m]["redeemed"]
                  + (IF m = c.member /\ "redeemed" = "redeemed" THEN c.points ELSE 0)
           /\ entries'[m]["refunded"] = entries[m]["refunded"]
                  + (IF m = c.member /\ "redeemed" = "refunded" THEN c.points ELSE 0)
    BY <1>0, <1>1, <1>2, EnteredAndAdded
  <2>2. QED
    BY <2>1
<1>8. /\ \A m : /\ CostOf(redemption[x], m) = 0 /\ BackFor(redemption[x], m) = 0
                /\ UnitsFor(redemption[x], m) = 0
      /\ \A m : /\ CostOf(row, m) = IF m = c.member THEN -c.points ELSE 0
                /\ BackFor(row, m) = 0
                /\ UnitsFor(row, m) = IF m = c.reward THEN 1 ELSE 0
  <2>1. \A p \in Int : p * 0 = 0
    OBVIOUS
  <2>2. -c.points \in Int
    BY <1>1
  <2>3. \A m : CostOf(redemption[x], m) = 0 /\ BackFor(redemption[x], m) = 0
               /\ UnitsFor(redemption[x], m) = 0
    BY <1>2 DEF CostOf, BackFor, UnitsFor
  <2>4. \A m : CostOf(row, m) = IF m = c.member THEN -c.points ELSE 0
    BY <1>3 DEF CostOf
  <2>5. \A m : BackFor(row, m) = 0
    BY <1>3, <2>1, <2>2 DEF BackFor
  <2>6. \A m : UnitsFor(row, m) = IF m = c.reward THEN 1 ELSE 0
    BY <1>3 DEF UnitsFor
  <2>7. QED
    BY <2>3, <2>4, <2>5, <2>6
<1>9. \A m \in Member :
         /\ entries'[m]["redeemed"] =
                entries[m]["redeemed"] + CostOf(redemption[x], m) - CostOf(after[x], m)
         /\ entries'[m]["refunded"] =
                entries[m]["refunded"] - BackFor(redemption[x], m) + BackFor(after[x], m)
  BY <1>0, <1>1, <1>4, <1>7, <1>8, MemberTyped
<1>10. \A q \in Reward \ recounted : Counts(q) =>
          reward'[q].currentStock =
              reward[q].currentStock + UnitsFor(redemption[x], q) - UnitsFor(after[x], q)
  <2>1. \A q \in Reward : reward[q].currentStock \in Int
    BY <1>0, RewardFields
  <2>2. QED
    BY <1>4, <1>6, <1>8, <2>1
<1>11. RedemptionsExplained' /\ StockAccounted'
  <2>1. \A q \in Reward : Counts(q)' = Counts(q)
    BY <1>6
  <2>2. supplied' = supplied /\ recounted' = recounted
    BY <1>2
  <2>3. QED
    BY <1>0, <1>1, <1>4, <1>9, <1>10, <2>1, <2>2, RowStep
<1>12. RowsStay
  BY <1>2, <1>4, <1>6 DEF RowsStay, Counts
<1>13. Offered'
  <2>1. ASSUME NEW y \in Redemption, after[y].status # "NONE"
        PROVE  reward'[after[y].reward].status # "NONE"
    <3>1. CASE y = x
      BY <1>0, <1>1, <1>3, <1>4, <1>6, <3>1 DEF Sound
    <3>2. CASE y # x
      BY <1>0, <1>4, <1>6, <2>1, <3>2, MadeFields DEF Offered
    <3>3. QED
      BY <3>1, <3>2
  <2>2. QED
    BY <1>4, <2>1 DEF Offered
<1>14. txn[w].op # "adjustPoints"
  BY <1>1
<1>15. QED
  BY <1>2, <1>7, <1>11, <1>12, <1>13, <1>14, CommitStep

\* A status alone adds nothing.
LEMMA ReviewReconciles ==
    ASSUME FiniteTables, ReconcileInv, TypeInv', NEW w \in Worker, Keeps(w), CommitReview(w)
    PROVE  ReconcileInv'
<1>0. /\ TypeInv /\ TypeOK /\ TypeOK' /\ RedemptionsExplained /\ StockAccounted /\ Offered
      /\ Refers(w)
  BY DEF ReconcileInv, TypeInv, RewardsReconcile
<1>. PICK x : x = txn[w].redemption
  OBVIOUS
<1>1. /\ txn[w].op \in {"approveRedemption", "deliverRedemption"}
      /\ x \in Redemption /\ redemption[x].status # "NONE"
  BY <1>0, TxnFields DEF CommitReview, Refers
<1>2. PICK status \in {"APPROVED", "DELIVERED"} :
          redemption' = [redemption EXCEPT ![x].status = status]
  BY DEF CommitReview
<1>3. /\ Done(w) /\ balance' = balance /\ entries' = entries /\ reward' = reward
      /\ lost' = lost /\ supplied' = supplied /\ recounted' = recounted
  BY DEF CommitReview
<1>4. status \in {"REQUESTED", "APPROVED", "REJECTED", "DELIVERED"} /\ status # "NONE"
  OBVIOUS
<1>. PICK after : after = redemption'
  OBVIOUS
<1>5. /\ after \in [Redemption -> RedemptionRow] /\ redemption' = after
      /\ after[x].status # "NONE" /\ after[x].member = redemption[x].member
      /\ after[x].reward = redemption[x].reward
      /\ after[x].pointsSpent = redemption[x].pointsSpent
      /\ after[x].refunds = redemption[x].refunds
      /\ \A y \in Redemption \ {x} : after[y] = redemption[y]
  BY <1>0, <1>1, <1>2, <1>4, ReviewEffect
<1>6. \A m : /\ CostOf(after[x], m) = CostOf(redemption[x], m)
             /\ BackFor(after[x], m) = BackFor(redemption[x], m)
             /\ UnitsFor(after[x], m) = UnitsFor(redemption[x], m)
  BY <1>1, <1>5 DEF CostOf, BackFor, UnitsFor
<1>7. \A m : /\ CostOf(redemption[x], m) \in Int /\ BackFor(redemption[x], m) \in Int
             /\ UnitsFor(redemption[x], m) \in Int
  BY <1>0, <1>1, RowsTyped
<1>8. \A m \in Member :
         /\ entries'[m]["redeemed"] =
                entries[m]["redeemed"] + CostOf(redemption[x], m) - CostOf(after[x], m)
         /\ entries'[m]["refunded"] =
                entries[m]["refunded"] - BackFor(redemption[x], m) + BackFor(after[x], m)
  BY <1>0, <1>3, <1>6, <1>7, MemberTyped
<1>9. \A q \in Reward \ recounted : Counts(q) =>
         reward'[q].currentStock =
             reward[q].currentStock + UnitsFor(redemption[x], q) - UnitsFor(after[x], q)
  <2>1. \A q \in Reward : reward[q].currentStock \in Int
    BY <1>0, RewardFields
  <2>2. QED
    BY <1>3, <1>6, <1>7, <2>1
<1>10. RedemptionsExplained' /\ StockAccounted'
  <2>1. \A q \in Reward : Counts(q)' = Counts(q)
    BY <1>3 DEF Counts
  <2>2. QED
    BY <1>0, <1>1, <1>3, <1>5, <1>8, <1>9, <2>1, RowStep
<1>11. RowsStay
  BY <1>1, <1>3, <1>5 DEF RowsStay, Counts
<1>12. \A y \in Redemption : redemption'[y].status # "NONE" => redemption[y].status # "NONE"
  BY <1>1, <1>5
<1>13. Offered'
  BY <1>0, <1>11, <1>12, OfferedStays
<1>14. \A m \in Member : Gap(m)' = Gap(m)
  BY <1>3 DEF Gap
<1>15. txn[w].op # "adjustPoints"
  BY <1>1
<1>16. QED
  BY <1>3, <1>10, <1>11, <1>13, <1>14, <1>15, CommitStep

\* A refund more of what the redemption cost, and its unit is back.
LEMMA RejectReconciles ==
    ASSUME FiniteTables, ReconcileInv, TypeInv', NEW w \in Worker, Keeps(w), CommitReject(w)
    PROVE  ReconcileInv'
<1>0. /\ TypeInv /\ TypeOK /\ TypeOK' /\ RedemptionsExplained /\ StockAccounted /\ Offered
      /\ Sound(w) /\ Refers(w)
  BY DEF ReconcileInv, TypeInv, RewardsReconcile
<1>. PICK c : c = txn[w]
  OBVIOUS
<1>. PICK x : x = c.redemption
  OBVIOUS
<1>. PICK r : r = redemption[x].reward
  OBVIOUS
<1>1. /\ c.op = "rejectRedemption" /\ c.member \in Member /\ c.points \in Int
      /\ x \in Redemption /\ redemption[x].status # "NONE"
      /\ c.member = redemption[x].member /\ c.points = redemption[x].pointsSpent
  BY <1>0, TxnFields DEF CommitReject, Refers, Sound, Read
<1>counted. c.counted \in BOOLEAN /\ (r \notin recounted => c.counted = Counts(r))
  BY <1>0, TxnFields DEF CommitReject, Sound, Read
<1>2. r \in Reward /\ redemption[x].pointsSpent \in Nat /\ redemption[x].refunds \in Nat
  BY <1>0, <1>1, MadeFields
<1>3. /\ redemption' = [redemption EXCEPT ![x] =
             [redemption[x] EXCEPT !.status = "REJECTED", !.refunds = redemption[x].refunds + 1]]
      /\ Enter(c.member, "refunded", c.points) /\ Credit(c.member, c.points)
      /\ reward' = [reward EXCEPT ![r].currentStock = Stocked(r, 1, c.counted)]
      /\ Done(w) /\ lost' = lost /\ supplied' = supplied /\ recounted' = recounted
  BY DEF CommitReject
<1>. PICK after : after = redemption'
  OBVIOUS
<1>4. /\ after \in [Redemption -> RedemptionRow] /\ redemption' = after
      /\ after[x].status = "REJECTED" /\ after[x].member = redemption[x].member
      /\ after[x].reward = redemption[x].reward
      /\ after[x].pointsSpent = redemption[x].pointsSpent
      /\ after[x].refunds = redemption[x].refunds + 1
      /\ \A y \in Redemption \ {x} : after[y] = redemption[y]
  BY <1>0, <1>1, <1>3, RejectEffect
<1>5. 1 \in Int
  OBVIOUS
<1>6. /\ \A q \in Reward : /\ reward'[q].status = reward[q].status
                           /\ Counts(q)' = Counts(q)
      /\ \A q \in Reward \ recounted : Counts(q) =>
             reward'[q].currentStock = reward[q].currentStock + (IF q = r THEN 1 ELSE 0)
  BY <1>0, <1>counted, <1>2, <1>3, <1>5, UnitStep
<1>7. \A m \in Member :
         /\ Gap(m)' = Gap(m)
         /\ entries'[m]["redeemed"] = entries[m]["redeemed"] + 0
         /\ entries'[m]["refunded"] =
                entries[m]["refunded"] + (IF m = c.member THEN c.points ELSE 0)
  <2>1. \A m \in Member :
           /\ Gap(m)' = Gap(m)
           /\ entries'[m]["redeemed"] = entries[m]["redeemed"]
                  + (IF m = c.member /\ "refunded" = "redeemed" THEN c.points ELSE 0)
           /\ entries'[m]["refunded"] = entries[m]["refunded"]
                  + (IF m = c.member /\ "refunded" = "refunded" THEN c.points ELSE 0)
    BY <1>0, <1>1, <1>3, EnteredAndAdded
  <2>2. QED
    BY <2>1
<1>8. /\ \A m : CostOf(after[x], m) = CostOf(redemption[x], m)
      /\ \A m : BackFor(after[x], m) =
                    BackFor(redemption[x], m) + (IF m = c.member THEN c.points ELSE 0)
      /\ \A m : UnitsFor(after[x], m) = UnitsFor(redemption[x], m) - (IF m = r THEN 1 ELSE 0)
  <2>1. \A p, n \in Nat : p * (n + 1) = p * n + p /\ p * n \in Int
    OBVIOUS
  <2>2. \A n \in Nat : 1 - (n + 1) = (1 - n) - 1 /\ 1 - n \in Int
    OBVIOUS
  <2>3. \A m : CostOf(after[x], m) = CostOf(redemption[x], m)
    BY <1>1, <1>4 DEF CostOf
  <2>4. \A m : BackFor(after[x], m) =
                   BackFor(redemption[x], m) + (IF m = c.member THEN c.points ELSE 0)
    BY <1>1, <1>2, <1>4, <2>1 DEF BackFor
  <2>5. \A m : UnitsFor(after[x], m) = UnitsFor(redemption[x], m) - (IF m = r THEN 1 ELSE 0)
    BY <1>1, <1>2, <1>4, <2>2 DEF UnitsFor
  <2>6. QED
    BY <2>3, <2>4, <2>5
<1>9. \A m : /\ CostOf(redemption[x], m) \in Int /\ BackFor(redemption[x], m) \in Int
             /\ UnitsFor(redemption[x], m) \in Int
  BY <1>0, <1>1, RowsTyped
<1>10. \A m \in Member :
          /\ entries'[m]["redeemed"] =
                 entries[m]["redeemed"] + CostOf(redemption[x], m) - CostOf(after[x], m)
          /\ entries'[m]["refunded"] =
                 entries[m]["refunded"] - BackFor(redemption[x], m) + BackFor(after[x], m)
  BY <1>0, <1>1, <1>7, <1>8, <1>9, MemberTyped
<1>11. \A q \in Reward \ recounted : Counts(q) =>
          reward'[q].currentStock =
              reward[q].currentStock + UnitsFor(redemption[x], q) - UnitsFor(after[x], q)
  <2>1. \A q \in Reward : reward[q].currentStock \in Int
    BY <1>0, RewardFields
  <2>2. QED
    BY <1>6, <1>8, <1>9, <2>1
<1>12. RedemptionsExplained' /\ StockAccounted'
  <2>1. supplied' = supplied /\ recounted' = recounted
    BY <1>3
  <2>2. QED
    BY <1>0, <1>1, <1>4, <1>6, <1>10, <1>11, <2>1, RowStep
<1>13. RowsStay
  BY <1>1, <1>3, <1>4, <1>6 DEF RowsStay
<1>14. \A y \in Redemption : redemption'[y].status # "NONE" => redemption[y].status # "NONE"
  BY <1>1, <1>4
<1>15. Offered'
  BY <1>0, <1>13, <1>14, OfferedStays
<1>16. txn[w].op # "adjustPoints"
  BY <1>1
<1>17. QED
  BY <1>3, <1>7, <1>12, <1>13, <1>15, <1>16, CommitStep

LEMMA InitReconciles ==
    ASSUME FiniteTables, Init
    PROVE  ReconcileInv
<1>1. TypeInv
  BY TypeInit
<1>2. (\A w \in Worker : Sound(w)) /\ Offered
  BY DEF Init, Sound, Offered, Idle, NoRedemption
<1>3. ASSUME NEW m
      PROVE  Coming(m) = 0
  <2>. DEFINE g == [w \in Worker |-> StillToCome(txn[w], m)]
  <2>1. \A w \in Worker : g[w] = 0
    BY NothingToCome DEF Init, Idle
  <2>2. Coming(m) = SumFunctionOnSet(g, Worker)
    BY DEF Coming, SumFunction
  <2>. HIDE DEF g
  <2>3. QED
    BY <2>1, <2>2, SumZero DEF FiniteTables
<1>4. ASSUME NEW m
      PROVE  Spent(m) = 0
  <2>. DEFINE g == [x \in Redemption |-> CostOf(redemption[x], m)]
  <2>1. \A x \in Redemption : g[x] = 0
    BY DEF Init, NoRedemption, CostOf
  <2>2. Spent(m) = SumFunctionOnSet(g, Redemption)
    BY DEF Spent, SumFunction
  <2>. HIDE DEF g
  <2>3. QED
    BY <2>1, <2>2, SumZero DEF FiniteTables
<1>5. ASSUME NEW m
      PROVE  GivenBack(m) = 0
  <2>. DEFINE g == [x \in Redemption |-> BackFor(redemption[x], m)]
  <2>1. \A x \in Redemption : g[x] = 0
    BY DEF Init, NoRedemption, BackFor
  <2>2. GivenBack(m) = SumFunctionOnSet(g, Redemption)
    BY DEF GivenBack, SumFunction
  <2>. HIDE DEF g
  <2>3. QED
    BY <2>1, <2>2, SumZero DEF FiniteTables
<1>6. ASSUME NEW r
      PROVE  OffShelf(r) = 0
  <2>. DEFINE g == [x \in Redemption |-> UnitsFor(redemption[x], r)]
  <2>1. \A x \in Redemption : g[x] = 0
    BY DEF Init, NoRedemption, UnitsFor
  <2>2. OffShelf(r) = SumFunctionOnSet(g, Redemption)
    BY DEF OffShelf, SumFunction
  <2>. HIDE DEF g
  <2>3. QED
    BY <2>1, <2>2, SumZero DEF FiniteTables
<1>7. EntriesExplainBalance /\ RedemptionsExplained
  BY <1>3, <1>4, <1>5, AsSums DEF Init, EntryKind
<1>8. StockAccounted
  BY <1>6, AsSums DEF Init, Counts
<1>9. QED
  BY <1>1, <1>2, <1>7, <1>8 DEF ReconcileInv, RewardsReconcile

LEMMA NextReconciles == FiniteTables /\ ReconcileInv /\ [Next]_vars => ReconcileInv'
<1>1. ASSUME FiniteTables, ReconcileInv, NEW w \in Worker, Step(w)
      PROVE  ReconcileInv'
  <2>1. TypeInv /\ Keeps(w)
    BY <1>1, StepKeeps DEF ReconcileInv
  <2>2. TypeInv'
    BY <2>1, KeepsEnough
  <2>3. QED
    BY <1>1, <2>1, <2>2, AdjustReconciles, RewardReconciles, ReadReconciles, CheckReconciles,
       RedeemReconciles, ReviewReconciles, RejectReconciles, AbortReconciles DEF Step
<1>2. ASSUME ReconcileInv, UNCHANGED vars
      PROVE  ReconcileInv'
  <2>1. /\ balance' = balance /\ entries' = entries /\ reward' = reward
        /\ redemption' = redemption /\ txn' = txn /\ lost' = lost /\ supplied' = supplied
        /\ recounted' = recounted
    BY <1>2 DEF vars
  <2>2. TypeInv'
    BY <1>2, TypeNext DEF ReconcileInv
  <2>3. QED
    BY <1>2, <2>1, <2>2 DEF ReconcileInv, Sound, Read, Counts, Offered, RewardsReconcile,
       EntriesExplainBalance, RedemptionsExplained, StockAccounted
<1>3. QED
  BY <1>1, <1>2 DEF Next

\* However many requests overlap, and wherever the server is lost: the entries explain the
\* points of every member but for what a crash cut off, each redemption has its entries, and
\* each unit off the shelf its redemption, as long as no edit begins or ceases to count the
\* stock (addPoints, redeemReward, rejectRedemption).
THEOREM RewardsAreExplained == ASSUME FiniteTables PROVE Spec => []RewardsReconcile
<1>1. ReconcileInv => RewardsReconcile
  BY DEF ReconcileInv
<1>2. Init => ReconcileInv
  BY InitReconciles
<1>3. ReconcileInv /\ [Next]_vars => ReconcileInv'
  BY NextReconciles
<1>4. QED
  BY <1>1, <1>2, <1>3, PTL DEF Spec
=============================================================================
