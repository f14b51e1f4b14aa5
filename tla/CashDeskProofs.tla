--------------------------- MODULE CashDeskProofs ---------------------------
(***************************************************************************)
(* Theorems about CashDesk, for every value of its constants: any number   *)
(* of overlapping transactions, cashiers, sales, receivables and payments. *)
(***************************************************************************)
EXTENDS CashDesk, Sums, FiniteSetTheorems, TLAPS

(* The steps of a worker, by kind, so that the case analysis over Next is  *)
(* done once.                                                              *)
ReadStep(w) ==
    \/ ReadOpenSession(w) \/ ReadCloseSession(w) \/ ReadSale(w)
    \/ (\E i \in Sale : ReadCancelSale(w, i))
    \/ ReadPay(w) \/ ReadCancelAccount(w) \/ ReadApprove(w)
    \/ ReadCreatePayment(w) \/ ReadCancelPayment(w) \/ ReadCreateMovement(w)

CommitStep(w) ==
    \/ CommitOpenSession(w) \/ CommitCloseSession(w)
    \/ (\E i \in Sale : CommitSale(w, i)) \/ CommitCancelSale(w)
    \/ CommitPay(w) \/ CommitCancelAccount(w) \/ CommitApprove(w)
    \/ CommitCreatePayment(w) \/ CommitCancelPayment(w) \/ CommitCreateMovement(w)

\* Every step creates a receivable by hand or is a step of a worker.
LEMMA NextSteps ==
    ASSUME Next
    PROVE  CreateManualAccount \/ \E w \in Worker : ReadStep(w) \/ CommitStep(w) \/ Abort(w)
BY DEF Next, ReadStep, CommitStep

\* The empty tables are typed.
LEMMA InitTypeOK == Init => TypeOK
BY ConstantsOK DEF Init, TypeOK, Txn, Idle, SessionRow, SaleRow, AccountRow, PaymentRow, Account,
   CashType, PositiveTypes, NegativeTypes

\* What the movements of a session add up to is an integer.
LEMMA NetType ==
    ASSUME NEW l \in [CashType -> Nat]
    PROVE  Net(l) \in Int
BY DEF Net, CashType, PositiveTypes, NegativeTypes

\* Posting a movement keeps the ledger a table of totals.
LEMMA PostType ==
    ASSUME ledger \in [Session -> [CashType -> Nat]],
           NEW s \in Session, NEW type \in CashType, NEW amount \in Nat,
           Post(s, type, amount)
    PROVE  ledger' \in [Session -> [CashType -> Nat]]
<1>1. ledger[s] \in [CashType -> Nat]
  OBVIOUS
<1>2. [ledger[s] EXCEPT ![type] = @ + amount] \in [CashType -> Nat]
  BY <1>1
<1>3. QED
  BY <1>2 DEF Post

\* A read step keeps a transaction of the right shape and changes no table.
LEMMA ReadTypeOK ==
    ASSUME TypeOK, NEW w \in Worker, ReadStep(w)
    PROVE  TypeOK'
<1>1. ASSUME NEW t \in Txn, Begin(w, t), UNCHANGED Tables
      PROVE  TypeOK'
  BY <1>1 DEF TypeOK, Begin, Tables
<1>2. CASE ReadOpenSession(w)
  <2>1. PICK u \in User, opening \in Opening :
            /\ Begin(w, [op |-> "openSession", user |-> u, opening |-> opening])
            /\ UNCHANGED Tables
    BY <1>2 DEF ReadOpenSession
  <2>2. [op |-> "openSession", user |-> u, opening |-> opening] \in Txn
    BY ConstantsOK DEF Txn
  <2>3. QED
    BY <2>1, <2>2, <1>1
<1>3. CASE ReadCloseSession(w)
  <2>1. PICK s \in Session :
            \E closing \in {c \in Counted \cup {session[s].opening + Net(ledger[s])} : c >= 0} :
                /\ Begin(w, [op |-> "closeSession", session |-> s,
                             expected |-> session[s].opening + Net(ledger[s]),
                             closing |-> closing])
                /\ UNCHANGED Tables
    BY <1>3 DEF ReadCloseSession
  <2>. PICK closing \in {c \in Counted \cup {session[s].opening + Net(ledger[s])} : c >= 0} :
            /\ Begin(w, [op |-> "closeSession", session |-> s,
                         expected |-> session[s].opening + Net(ledger[s]),
                         closing |-> closing])
            /\ UNCHANGED Tables
    BY <2>1
  <2>2. session[s].opening + Net(ledger[s]) \in Int
    BY NetType DEF TypeOK, SessionRow
  <2>3. closing \in Nat
    BY <2>2, ConstantsOK
  <2>4. [op |-> "closeSession", session |-> s,
         expected |-> session[s].opening + Net(ledger[s]), closing |-> closing] \in Txn
    BY <2>2, <2>3 DEF Txn
  <2>5. QED
    BY <2>1, <2>4, <1>1
<1>4. CASE ReadSale(w)
  <2>1. PICK u \in User, total \in Amount, cash \in Amount \cup {0}, s \in Session :
            /\ s \in OpenSessions(u)
            /\ Begin(w, [op |-> "createSale", session |-> s,
                         paid |-> AmountPaid(cash, total),
                         pending |-> AmountPending(cash, total)])
            /\ UNCHANGED Tables
    BY <1>4 DEF ReadSale, OpenSessions
  <2>2. AmountPaid(cash, total) \in Nat /\ AmountPending(cash, total) \in Nat
    BY ConstantsOK DEF AmountPaid, AmountPending
  <2>3. [op |-> "createSale", session |-> s, paid |-> AmountPaid(cash, total),
         pending |-> AmountPending(cash, total)] \in Txn
    BY <2>2 DEF Txn
  <2>4. QED
    BY <2>1, <2>3, <1>1
<1>5. CASE \E i \in Sale : ReadCancelSale(w, i)
  <2>1. PICK i \in Sale :
            /\ Begin(w, [op |-> "cancelSale", sale |-> i,
                         voidsAccount |-> account[i].status \notin {"NONE", "CANCELLED"}])
            /\ UNCHANGED Tables
    BY <1>5 DEF ReadCancelSale
  <2>2. [op |-> "cancelSale", sale |-> i,
         voidsAccount |-> account[i].status \notin {"NONE", "CANCELLED"}] \in Txn
    BY DEF Txn
  <2>3. QED
    BY <2>1, <2>2, <1>1
<1>6. CASE ReadPay(w)
  <2>1. PICK u \in User, a \in Account, amount \in Amount \ {0}, s \in Session :
            /\ s \in LatestOpen(u)
            /\ amount <= account[a].outstanding
            /\ Begin(w, [op |-> "pay", account |-> a, session |-> s, amount |-> amount,
                         paid |-> account[a].paid + amount,
                         outstanding |-> account[a].outstanding - amount])
            /\ UNCHANGED Tables
    BY <1>6 DEF ReadPay, LatestOpen, OpenSessions
  <2>2. s \in Session /\ amount \in Nat
    BY ConstantsOK
  <2>3. account[a].paid + amount \in Nat /\ account[a].outstanding - amount \in Nat
    BY <2>1, <2>2 DEF TypeOK, AccountRow
  <2>4. [op |-> "pay", account |-> a, session |-> s, amount |-> amount,
         paid |-> account[a].paid + amount,
         outstanding |-> account[a].outstanding - amount] \in Txn
    BY <2>2, <2>3 DEF Txn
  <2>5. QED
    BY <2>1, <2>4, <1>1
<1>7. CASE ReadCancelAccount(w)
  <2>1. PICK a \in Account :
            /\ Begin(w, [op |-> "cancelAccount", account |-> a])
            /\ UNCHANGED Tables
    BY <1>7 DEF ReadCancelAccount
  <2>2. [op |-> "cancelAccount", account |-> a] \in Txn
    BY DEF Txn
  <2>3. QED
    BY <2>1, <2>2, <1>1
<1>8. CASE ReadApprove(w)
  <2>1. PICK u \in Approver, a \in Account :
            /\ Begin(w, [op |-> "approve", account |-> a, user |-> u])
            /\ UNCHANGED Tables
    BY <1>8 DEF ReadApprove
  <2>2. [op |-> "approve", account |-> a, user |-> u] \in Txn
    BY ConstantsOK DEF Txn
  <2>3. QED
    BY <2>1, <2>2, <1>1
<1>9. CASE ReadCreatePayment(w)
  <2>1. PICK u \in User, amount \in Amount \ {0}, s \in Session :
            /\ s \in LatestOpen(u)
            /\ Begin(w, [op |-> "createPayment", session |-> s, amount |-> amount])
            /\ UNCHANGED Tables
    BY <1>9 DEF ReadCreatePayment, LatestOpen, OpenSessions
  <2>2. [op |-> "createPayment", session |-> s, amount |-> amount] \in Txn
    BY ConstantsOK DEF Txn
  <2>3. QED
    BY <2>1, <2>2, <1>1
<1>10. CASE ReadCancelPayment(w)
  <2>1. PICK p \in Payment :
            /\ Begin(w, [op |-> "cancelPayment", payment |-> p])
            /\ UNCHANGED Tables
    BY <1>10 DEF ReadCancelPayment
  <2>2. [op |-> "cancelPayment", payment |-> p] \in Txn
    BY DEF Txn
  <2>3. QED
    BY <2>1, <2>2, <1>1
<1>11. CASE ReadCreateMovement(w)
  <2>1. PICK u \in User, type \in EntryType, amount \in Amount \ {0}, s \in Session :
            /\ s \in LatestOpen(u)
            /\ Begin(w, [op |-> "createMovement", session |-> s, type |-> type,
                         amount |-> amount])
            /\ UNCHANGED Tables
    BY <1>11 DEF ReadCreateMovement, LatestOpen, OpenSessions
  <2>2. [op |-> "createMovement", session |-> s, type |-> type, amount |-> amount] \in Txn
    BY ConstantsOK DEF Txn
  <2>3. QED
    BY <2>1, <2>2, <1>1
<1>12. QED
  BY <1>2, <1>3, <1>4, <1>5, <1>6, <1>7, <1>8, <1>9, <1>10, <1>11 DEF ReadStep

(* Writing typed values into the columns of a row leaves a typed row.      *)
LEMMA SessionOpened ==
    ASSUME NEW r \in SessionRow, NEW u \in User, NEW o \in Nat
    PROVE  [r EXCEPT !.status = "OPEN", !.owner = u, !.opening = o] \in SessionRow
BY DEF SessionRow

LEMMA SessionClosed ==
    ASSUME NEW r \in SessionRow, NEW e \in Int, NEW c \in Nat
    PROVE  [r EXCEPT !.status = "CLOSED", !.expected = e, !.closing = c] \in SessionRow
BY DEF SessionRow

LEMMA SaleCompleted ==
    ASSUME NEW r \in SaleRow, NEW s \in Session, NEW p \in Nat, NEW q \in Nat
    PROVE  [r EXCEPT !.status = "COMPLETED", !.session = s, !.paid = p, !.pending = q]
               \in SaleRow
BY DEF SaleRow

LEMMA AccountOpened ==
    ASSUME NEW r \in AccountRow, NEW o \in Nat
    PROVE  [r EXCEPT !.status = "OPEN", !.original = o, !.outstanding = o] \in AccountRow
BY DEF AccountRow

LEMMA AccountPaid ==
    ASSUME NEW r \in AccountRow, NEW p \in Nat, NEW o \in Nat, NEW c \in Nat
    PROVE  [r EXCEPT !.paid = p, !.outstanding = o,
                     !.status = IF o = 0 THEN "PAID" ELSE "PARTIALLY_PAID",
                     !.collected = c] \in AccountRow
BY DEF AccountRow

LEMMA PaymentCreated ==
    ASSUME NEW r \in PaymentRow, NEW s \in Session, NEW m \in Nat
    PROVE  [r EXCEPT !.status = "PAID", !.session = s, !.amount = m] \in PaymentRow
BY DEF PaymentRow

\* What a transaction has read is typed by its operation.
LEMMA TxnFields ==
    ASSUME TypeOK, NEW w \in Worker
    PROVE  /\ txn[w].op = "openSession" => txn[w].user \in User /\ txn[w].opening \in Nat
           /\ txn[w].op = "closeSession" =>
                /\ txn[w].session \in Session /\ txn[w].expected \in Int
                /\ txn[w].closing \in Nat
           /\ txn[w].op = "createSale" =>
                /\ txn[w].session \in Session /\ txn[w].paid \in Nat
                /\ txn[w].pending \in Nat
           /\ txn[w].op = "cancelSale" =>
                txn[w].sale \in Sale /\ txn[w].voidsAccount \in BOOLEAN
           /\ txn[w].op = "pay" =>
                /\ txn[w].account \in Account /\ txn[w].session \in Session
                /\ txn[w].amount \in Nat /\ txn[w].paid \in Nat
                /\ txn[w].outstanding \in Nat
           /\ txn[w].op = "cancelAccount" => txn[w].account \in Account
           /\ txn[w].op = "approve" => txn[w].account \in Account /\ txn[w].user \in User
           /\ txn[w].op = "createPayment" =>
                txn[w].session \in Session /\ txn[w].amount \in Nat
           /\ txn[w].op = "cancelPayment" => txn[w].payment \in Payment
           /\ txn[w].op = "createMovement" =>
                /\ txn[w].session \in Session /\ txn[w].type \in CashType
                /\ txn[w].amount \in Nat
<1>1. txn[w] \in Txn
  BY DEF TypeOK
<1>2. ManualTypes \subseteq CashType
  BY DEF ManualTypes, CashType, PositiveTypes, NegativeTypes
<1>3. QED
  BY <1>1, <1>2 DEF Txn, Idle

\* A commit step keeps every table typed.
LEMMA CommitTypeOK ==
    ASSUME TypeOK, NEW w \in Worker, CommitStep(w)
    PROVE  TypeOK'
<1>1. ASSUME Done(w)
      PROVE  txn' \in [Worker -> Txn]
  BY <1>1 DEF TypeOK, Done, Txn
<1>2. CASE CommitOpenSession(w)
  <2>1. txn[w].user \in User /\ txn[w].opening \in Nat
    BY <1>2, TxnFields DEF CommitOpenSession
  <2>2. session' \in [Session -> SessionRow]
    <3>1. PICK s \in Session : session' = [session EXCEPT ![s] =
               [@ EXCEPT !.status = "OPEN", !.owner = txn[w].user,
                         !.opening = txn[w].opening]]
      BY <1>2 DEF CommitOpenSession
    <3>2. session[s] \in SessionRow
      BY DEF TypeOK
    <3>3. [session[s] EXCEPT !.status = "OPEN", !.owner = txn[w].user,
                             !.opening = txn[w].opening] \in SessionRow
      BY <2>1, <3>2, SessionOpened
    <3>4. QED
      BY <3>1, <3>3 DEF TypeOK
  <2>3. QED
    BY <1>1, <1>2, <2>2 DEF CommitOpenSession, TypeOK
<1>3. CASE CommitCloseSession(w)
  <2>. DEFINE t == txn[w]
  <2>1. t.session \in Session /\ t.expected \in Int /\ t.closing \in Nat
    BY <1>3, TxnFields DEF CommitCloseSession
  <2>2. session[t.session] \in SessionRow
    BY <2>1 DEF TypeOK
  <2>3. [session[t.session] EXCEPT !.status = "CLOSED", !.expected = t.expected,
                                   !.closing = t.closing] \in SessionRow
    BY <2>1, <2>2, SessionClosed
  <2>4. session' \in [Session -> SessionRow]
    BY <1>3, <2>3 DEF CommitCloseSession, TypeOK
  <2>5. QED
    BY <1>1, <1>3, <2>4 DEF CommitCloseSession, TypeOK
<1>4. ASSUME NEW i \in Sale, CommitSale(w, i)
      PROVE  TypeOK'
  <2>. DEFINE t == txn[w]
  <2>1. t.session \in Session /\ t.paid \in Nat /\ t.pending \in Nat
    BY <1>4, TxnFields DEF CommitSale
  <2>2. sale' \in [Sale -> SaleRow]
    <3>1. sale[i] \in SaleRow
      BY DEF TypeOK
    <3>2. [sale[i] EXCEPT !.status = "COMPLETED", !.session = t.session,
                          !.paid = t.paid, !.pending = t.pending] \in SaleRow
      BY <2>1, <3>1, SaleCompleted
    <3>3. QED
      BY <1>4, <3>2 DEF CommitSale, TypeOK
  <2>3. account' \in [Account -> AccountRow]
    <3>1. i \in Account /\ account[i] \in AccountRow
      BY DEF TypeOK, Account
    <3>2. [account[i] EXCEPT !.status = "OPEN", !.original = t.pending,
                             !.outstanding = t.pending] \in AccountRow
      BY <2>1, <3>1, AccountOpened
    <3>3. QED
      BY <1>4, <3>1, <3>2 DEF CommitSale, NewAccount, TypeOK
  <2>4. ledger' \in [Session -> [CashType -> Nat]]
    BY <1>4, <2>1, PostType DEF CommitSale, TypeOK, CashType, PositiveTypes
  <2>5. QED
    BY <1>1, <1>4, <2>2, <2>3, <2>4 DEF CommitSale, TypeOK
<1>5. CASE CommitCancelSale(w)
  <2>. DEFINE i == txn[w].sale
  <2>1. i \in Sale /\ i \in Account
    BY <1>5, TxnFields DEF CommitCancelSale, Account
  <2>2. sale[i] \in SaleRow /\ sale[i].paid \in Nat /\ sale[i].returned \in Nat
    BY <2>1 DEF TypeOK, SaleRow
  <2>3. sale' \in [Sale -> SaleRow]
    <3>1. [sale[i] EXCEPT !.status = "CANCELLED",
                          !.returned = sale[i].returned + sale[i].paid] \in SaleRow
      <4>1. sale[i].returned + sale[i].paid \in Nat
        BY <2>2
      <4>2. QED
        BY <2>2, <4>1 DEF SaleRow
    <3>2. QED
      BY <1>5, <2>1, <3>1 DEF CommitCancelSale, TypeOK
  <2>4. account' \in [Account -> AccountRow]
    <3>1. [account[i] EXCEPT !.status = "CANCELLED"] \in AccountRow
      BY <2>1 DEF TypeOK, AccountRow
    <3>2. QED
      BY <1>5, <2>1, <3>1 DEF CommitCancelSale, TypeOK
  <2>5. ledger' \in [Session -> [CashType -> Nat]]
    <3>1. CASE sale[i].session \in Session
      BY <1>5, <2>2, <3>1, PostType DEF CommitCancelSale, TypeOK, CashType, NegativeTypes
    <3>2. CASE sale[i].session \notin Session
      BY <1>5, <3>2 DEF CommitCancelSale, TypeOK, Post
    <3>3. QED
      BY <3>1, <3>2
  <2>6. QED
    BY <1>1, <1>5, <2>3, <2>4, <2>5 DEF CommitCancelSale, TypeOK
<1>6. CASE CommitPay(w)
  <2>. DEFINE t == txn[w]
  <2>1. /\ t.account \in Account /\ t.session \in Session
        /\ t.amount \in Nat /\ t.paid \in Nat /\ t.outstanding \in Nat
    BY <1>6, TxnFields DEF CommitPay
  <2>2. account' \in [Account -> AccountRow]
    <3>1. account[t.account] \in AccountRow
      BY <2>1 DEF TypeOK
    <3>2. account[t.account].collected + t.amount \in Nat
      BY <2>1, <3>1 DEF AccountRow
    <3>3. [account[t.account] EXCEPT !.paid = t.paid, !.outstanding = t.outstanding,
               !.status = IF t.outstanding = 0 THEN "PAID" ELSE "PARTIALLY_PAID",
               !.collected = account[t.account].collected + t.amount] \in AccountRow
      BY <2>1, <3>1, <3>2, AccountPaid
    <3>4. QED
      BY <1>6, <2>1, <3>3 DEF CommitPay, TypeOK
  <2>3. ledger' \in [Session -> [CashType -> Nat]]
    BY <1>6, <2>1, PostType DEF CommitPay, TypeOK, CashType, PositiveTypes
  <2>4. QED
    BY <1>1, <1>6, <2>2, <2>3 DEF CommitPay, TypeOK
<1>7. CASE CommitCancelAccount(w)
  <2>. DEFINE a == txn[w].account
  <2>1. a \in Account /\ account[a] \in AccountRow
    BY <1>7, TxnFields DEF CommitCancelAccount, TypeOK
  <2>2. [account[a] EXCEPT !.status = "CANCELLED"] \in AccountRow
    BY <2>1 DEF AccountRow
  <2>3. account' = [account EXCEPT ![a] = [account[a] EXCEPT !.status = "CANCELLED"]]
    BY <1>7 DEF CommitCancelAccount
  <2>4. QED
    BY <1>1, <1>7, <2>2, <2>3 DEF CommitCancelAccount, TypeOK
<1>8. CASE CommitApprove(w)
  <2>. DEFINE a == txn[w].account
  <2>1. a \in Account /\ account[a] \in AccountRow /\ txn[w].user \in User
    BY <1>8, TxnFields DEF CommitApprove, TypeOK
  <2>2. [account[a] EXCEPT !.approvedBy = txn[w].user] \in AccountRow
    BY <2>1 DEF AccountRow
  <2>3. account' = [account EXCEPT ![a] = [account[a] EXCEPT !.approvedBy = txn[w].user]]
    BY <1>8 DEF CommitApprove
  <2>4. QED
    BY <1>1, <1>8, <2>2, <2>3 DEF CommitApprove, TypeOK
<1>9. CASE CommitCreatePayment(w)
  <2>. DEFINE t == txn[w]
  <2>1. t.session \in Session /\ t.amount \in Nat
    BY <1>9, TxnFields DEF CommitCreatePayment
  <2>2. payment' \in [Payment -> PaymentRow]
    <3>1. PICK p \in Payment : payment' = [payment EXCEPT ![p] =
               [@ EXCEPT !.status = "PAID", !.session = t.session, !.amount = t.amount]]
      BY <1>9 DEF CommitCreatePayment
    <3>2. payment[p] \in PaymentRow
      BY DEF TypeOK
    <3>3. [payment[p] EXCEPT !.status = "PAID", !.session = t.session,
                             !.amount = t.amount] \in PaymentRow
      BY <2>1, <3>2, PaymentCreated
    <3>4. QED
      BY <3>1, <3>3 DEF TypeOK
  <2>3. ledger' \in [Session -> [CashType -> Nat]]
    BY <1>9, <2>1, PostType DEF CommitCreatePayment, TypeOK, CashType, NegativeTypes
  <2>4. QED
    BY <1>1, <1>9, <2>2, <2>3 DEF CommitCreatePayment, TypeOK
<1>10. CASE CommitCancelPayment(w)
  <2>. DEFINE p == txn[w].payment
  <2>1. p \in Payment
    BY <1>10, TxnFields DEF CommitCancelPayment
  <2>2. /\ payment[p] \in PaymentRow
        /\ payment[p].amount \in Nat /\ payment[p].corrected \in Nat
    BY <2>1 DEF TypeOK, PaymentRow
  <2>3. payment' \in [Payment -> PaymentRow]
    <3>1. payment[p].corrected + payment[p].amount \in Nat
      BY <2>2
    <3>2. [payment[p] EXCEPT !.status = "CANCELLED",
               !.corrected = payment[p].corrected + payment[p].amount] \in PaymentRow
      BY <2>2, <3>1 DEF PaymentRow
    <3>3. QED
      BY <1>10, <2>1, <3>2 DEF CommitCancelPayment, TypeOK
  <2>4. ledger' \in [Session -> [CashType -> Nat]]
    <3>1. CASE payment[p].session \in Session
      BY <1>10, <2>2, <3>1, PostType DEF CommitCancelPayment, TypeOK, CashType, PositiveTypes
    <3>2. CASE payment[p].session \notin Session
      BY <1>10, <3>2 DEF CommitCancelPayment, TypeOK, Post
    <3>3. QED
      BY <3>1, <3>2
  <2>5. QED
    BY <1>1, <1>10, <2>3, <2>4 DEF CommitCancelPayment, TypeOK
<1>11. CASE CommitCreateMovement(w)
  <2>1. /\ txn[w].session \in Session /\ txn[w].amount \in Nat
        /\ txn[w].type \in CashType
    BY <1>11, TxnFields DEF CommitCreateMovement
  <2>2. ledger' \in [Session -> [CashType -> Nat]]
    BY <1>11, <2>1, PostType DEF CommitCreateMovement, TypeOK
  <2>3. QED
    BY <1>1, <1>11, <2>2 DEF CommitCreateMovement, TypeOK
<1>12. QED
  BY <1>2, <1>3, <1>4, <1>5, <1>6, <1>7, <1>8, <1>9, <1>10, <1>11 DEF CommitStep

LEMMA NextTypeOK == TypeOK /\ [Next]_vars => TypeOK'
<1>1. ASSUME TypeOK, CreateManualAccount
      PROVE  TypeOK'
  <2>1. PICK a \in ManualAccount, amount \in Amount :
            NewAccount(a, amount) /\ UNCHANGED <<session, ledger, sale, payment, txn>>
    BY <1>1 DEF CreateManualAccount
  <2>2. a \in Account /\ account[a] \in AccountRow /\ amount \in Nat
    BY <1>1, ConstantsOK DEF TypeOK, Account
  <2>3. [account[a] EXCEPT !.status = "OPEN", !.original = amount,
                           !.outstanding = amount] \in AccountRow
    BY <2>2, AccountOpened
  <2>4. QED
    BY <1>1, <2>1, <2>2, <2>3 DEF TypeOK, NewAccount
<1>2. ASSUME TypeOK, NEW w \in Worker, Abort(w)
      PROVE  TypeOK'
  BY <1>2 DEF TypeOK, Abort, Done, Tables, Txn
<1>3. ASSUME TypeOK, UNCHANGED vars
      PROVE  TypeOK'
  BY <1>3 DEF TypeOK, vars
<1>4. QED
  BY <1>1, <1>2, <1>3, ReadTypeOK, CommitTypeOK, NextSteps

\* Every reachable state is typed: in particular no balance the desk keeps
\* (a ledger total, an outstanding amount) is ever negative.
THEOREM TypeCorrect == Spec => []TypeOK
BY InitTypeOK, NextTypeOK, PTL DEF Spec
-----------------------------------------------------------------------------
(* The books of the receivables balance whatever transactions overlap.     *)

AccountInv == AccountBalanced /\ PaidIsBacked /\ ReadsStand

\* An action that leaves sales and receivables alone, and starts neither a
\* payment nor the cancellation of a receivable, keeps the books.
LEMMA OtherAccountInv ==
    ASSUME TypeOK, AccountInv, NEW w \in Worker, NEW t,
           txn' = [txn EXCEPT ![w] = t], t.op \notin {"pay", "cancelAccount"},
           UNCHANGED <<sale, account>>
    PROVE  AccountInv'
<1>1. AccountBalanced' /\ PaidIsBacked'
  BY DEF AccountInv, AccountBalanced, PaidIsBacked
<1>2. \A v \in Worker : txn'[v] = IF v = w THEN t ELSE txn[v]
  BY DEF TypeOK
<1>3. ReadsStand'
  BY <1>2 DEF AccountInv, ReadsStand
<1>4. QED
  BY <1>1, <1>3 DEF AccountInv

LEMMA ReadAccountInv ==
    ASSUME TypeOK, AccountInv, NEW w \in Worker, ReadStep(w)
    PROVE  AccountInv'
<1>1. CASE ReadPay(w)
  <2>1. PICK u \in User, a \in Account, amount \in Amount \ {0}, s \in Session :
            /\ Payable(a)
            /\ amount <= account[a].outstanding
            /\ Begin(w, [op |-> "pay", account |-> a, session |-> s, amount |-> amount,
                         paid |-> account[a].paid + amount,
                         outstanding |-> account[a].outstanding - amount])
            /\ UNCHANGED Tables
    BY <1>1 DEF ReadPay, LatestOpen, OpenSessions
  <2>2. /\ account[a].paid \in Nat /\ account[a].outstanding \in Nat
        /\ account[a].original \in Nat /\ account[a].collected \in Nat /\ amount \in Nat
    BY ConstantsOK DEF TypeOK, AccountRow
  <2>3. /\ account[a].status # "NONE"
        /\ (account[a].paid + amount) + (account[a].outstanding - amount)
               = account[a].original
        /\ account[a].paid + amount <= account[a].collected + amount
    BY <2>1, <2>2 DEF AccountInv, AccountBalanced, PaidIsBacked, Payable
  <2>4. UNCHANGED <<sale, account>>
    BY <2>1 DEF Tables
  <2>5. AccountBalanced' /\ PaidIsBacked'
    BY <2>4 DEF AccountInv, AccountBalanced, PaidIsBacked
  <2>6. \A v \in Worker \ {w} : txn'[v] = txn[v]
    BY <2>1 DEF Begin, TypeOK
  <2>7. /\ txn'[w].op = "pay" /\ txn'[w].account = a /\ txn'[w].amount = amount
        /\ txn'[w].paid = account[a].paid + amount
        /\ txn'[w].outstanding = account[a].outstanding - amount
    BY <2>1 DEF Begin, TypeOK
  <2>8. ReadsStand'
    BY <2>3, <2>4, <2>6, <2>7 DEF AccountInv, ReadsStand
  <2>9. QED
    BY <2>5, <2>8 DEF AccountInv
<1>2. CASE ReadCancelAccount(w)
  <2>1. PICK a \in Account :
            /\ Payable(a)
            /\ Begin(w, [op |-> "cancelAccount", account |-> a])
            /\ UNCHANGED Tables
    BY <1>2 DEF ReadCancelAccount
  <2>2. UNCHANGED <<sale, account>>
    BY <2>1 DEF Tables
  <2>3. AccountBalanced' /\ PaidIsBacked'
    BY <2>2 DEF AccountInv, AccountBalanced, PaidIsBacked
  <2>4. /\ \A v \in Worker \ {w} : txn'[v] = txn[v]
        /\ txn'[w].op = "cancelAccount" /\ txn'[w].account = a
    BY <2>1 DEF Begin, TypeOK
  <2>5. ReadsStand'
    BY <2>1, <2>2, <2>4 DEF AccountInv, ReadsStand, Payable
  <2>6. QED
    BY <2>3, <2>5 DEF AccountInv
<1>3. CASE \E t : /\ Begin(w, t) /\ UNCHANGED Tables
                  /\ t.op \notin {"pay", "cancelAccount"}
  BY <1>3, OtherAccountInv DEF Begin, Tables
<1>4. CASE ReadOpenSession(w)
  BY <1>3, <1>4 DEF ReadOpenSession
<1>5. CASE ReadCloseSession(w)
  BY <1>3, <1>5 DEF ReadCloseSession
<1>6. CASE ReadSale(w)
  BY <1>3, <1>6 DEF ReadSale
<1>7. CASE \E i \in Sale : ReadCancelSale(w, i)
  BY <1>3, <1>7 DEF ReadCancelSale
<1>8. CASE ReadApprove(w)
  BY <1>3, <1>8 DEF ReadApprove
<1>9. CASE ReadCreatePayment(w)
  BY <1>3, <1>9 DEF ReadCreatePayment
<1>10. CASE ReadCancelPayment(w)
  BY <1>3, <1>10 DEF ReadCancelPayment
<1>11. CASE ReadCreateMovement(w)
  BY <1>3, <1>11 DEF ReadCreateMovement
<1>12. QED
  BY <1>1, <1>2, <1>4, <1>5, <1>6, <1>7, <1>8, <1>9, <1>10, <1>11 DEF ReadStep

\* Opening a receivable that does not exist yet keeps the books.
LEMMA NewAccountInv ==
    ASSUME TypeOK, AccountInv, NEW a \in Account, NEW amount \in Nat,
           account[a].status = "NONE", NewAccount(a, amount)
    PROVE  /\ AccountBalanced' /\ PaidIsBacked'
           /\ \A b \in Account : account'[b].status = "NONE" => account'[b].paid = 0
           /\ \A b \in Account \ {a} : account'[b] = account[b]
           /\ account'[a].status = "OPEN"
           /\ \A w \in Worker : txn[w].op = "pay" => txn[w].account # a
           /\ \A w \in Worker : txn[w].op = "cancelAccount" => txn[w].account # a
<1>1. account[a] \in AccountRow /\ account[a].paid = 0
  BY DEF TypeOK, AccountInv, ReadsStand
<1>2. /\ account'[a].status = "OPEN" /\ account'[a].original = amount
      /\ account'[a].outstanding = amount /\ account'[a].paid = 0
      /\ account'[a].collected = account[a].collected /\ account[a].collected \in Nat
  BY <1>1 DEF NewAccount, TypeOK, AccountRow
<1>3. \A b \in Account \ {a} : account'[b] = account[b]
  BY DEF NewAccount, TypeOK
<1>4. AccountBalanced' /\ PaidIsBacked'
  BY <1>2, <1>3 DEF AccountInv, AccountBalanced, PaidIsBacked
<1>5. QED
  BY <1>2, <1>3, <1>4 DEF AccountInv, ReadsStand

LEMMA CommitAccountInv ==
    ASSUME TypeOK, AccountInv, NEW w \in Worker, CommitStep(w)
    PROVE  AccountInv'
<1>1. ASSUME Done(w)
      PROVE  (\A v \in Worker \ {w} : txn'[v] = txn[v]) /\ txn'[w].op = "idle"
  BY <1>1 DEF Done, TypeOK, Idle
<1>2. ASSUME Done(w), UNCHANGED <<sale, account>>
      PROVE  AccountInv'
  BY <1>2, OtherAccountInv DEF Done, Idle
<1>3. CASE \/ CommitOpenSession(w) \/ CommitCloseSession(w) \/ CommitCreatePayment(w)
           \/ CommitCancelPayment(w) \/ CommitCreateMovement(w)
  BY <1>2, <1>3 DEF CommitOpenSession, CommitCloseSession, CommitCreatePayment,
     CommitCancelPayment, CommitCreateMovement
<1>4. ASSUME NEW i \in Sale, CommitSale(w, i)
      PROVE  AccountInv'
  <2>1. txn[w].pending \in Nat /\ i \in Account
    BY <1>4, TxnFields DEF CommitSale, Account
  <2>2. account[i].status = "NONE"
    BY <1>4 DEF CommitSale, AccountInv, ReadsStand
  <2>3. /\ sale'[i].status = "COMPLETED"
        /\ \A j \in Sale \ {i} : sale'[j] = sale[j]
    BY <1>4 DEF CommitSale, TypeOK, SaleRow
  <2>4. Done(w)
    BY <1>4 DEF CommitSale
  <2>5. CASE txn[w].pending > 0
    <3>1. NewAccount(i, txn[w].pending)
      BY <1>4, <2>5 DEF CommitSale
    <3>2. AccountBalanced' /\ PaidIsBacked'
      BY <2>1, <2>2, <3>1, NewAccountInv
    <3>3. /\ \A b \in Account : account'[b].status = "NONE" => account'[b].paid = 0
          /\ \A b \in Account \ {i} : account'[b] = account[b]
          /\ \A v \in Worker : txn[v].op \in {"pay", "cancelAccount"} => txn[v].account # i
      BY <2>1, <2>2, <3>1, NewAccountInv
    <3>4. ReadsStand'
      <4>1. \A j \in Sale : sale'[j].status = "NONE" => account'[j].status = "NONE"
        BY <2>3, <3>3 DEF AccountInv, ReadsStand, Account
      <4>2. \A v \in Worker :
               txn[v].op \in {"pay", "cancelAccount"} =>
                   account'[txn[v].account] = account[txn[v].account]
        BY <3>3, TxnFields
      <4>3. QED
        BY <1>1, <2>4, <3>3, <4>1, <4>2 DEF AccountInv, ReadsStand
    <3>5. QED
      BY <3>2, <3>4 DEF AccountInv
  <2>6. CASE ~(txn[w].pending > 0)
    <3>1. UNCHANGED account
      BY <1>4, <2>6 DEF CommitSale
    <3>2. AccountBalanced' /\ PaidIsBacked'
      BY <3>1 DEF AccountInv, AccountBalanced, PaidIsBacked
    <3>3. ReadsStand'
      BY <1>1, <2>3, <2>4, <3>1 DEF AccountInv, ReadsStand
    <3>4. QED
      BY <3>2, <3>3 DEF AccountInv
  <2>7. QED
    BY <2>5, <2>6
<1>5. ASSUME NEW a \in Account, account' = [account EXCEPT ![a].status = "CANCELLED"]
      PROVE  /\ AccountBalanced' /\ PaidIsBacked'
             /\ account'[a].status = "CANCELLED"
             /\ \A b \in Account \ {a} : account'[b] = account[b]
             /\ \A b \in Account : /\ account'[b].original = account[b].original
                                   /\ account'[b].collected = account[b].collected
                                   /\ account'[b].paid = account[b].paid
  BY <1>5 DEF TypeOK, AccountRow, AccountInv, AccountBalanced, PaidIsBacked
<1>6. CASE CommitCancelSale(w)
  <2>. DEFINE i == txn[w].sale
  <2>1. i \in Sale /\ i \in Account /\ Done(w)
    BY <1>6, TxnFields DEF CommitCancelSale, Account
  <2>2. /\ sale'[i].status = "CANCELLED"
        /\ \A j \in Sale \ {i} : sale'[j] = sale[j]
    <3>1. sale' = [sale EXCEPT ![i] = [@ EXCEPT !.status = "CANCELLED",
                                  !.returned = sale[i].returned + sale[i].paid]]
      BY <1>6 DEF CommitCancelSale
    <3>2. QED
      BY <2>1, <3>1 DEF TypeOK, SaleRow
  <2>3. CASE txn[w].voidsAccount
    <3>1. account' = [account EXCEPT ![i].status = "CANCELLED"]
      BY <1>6, <2>3 DEF CommitCancelSale
    <3>2. ReadsStand'
      BY <1>1, <1>5, <2>1, <2>2, <3>1 DEF AccountInv, ReadsStand
    <3>3. QED
      BY <1>5, <2>1, <3>1, <3>2 DEF AccountInv
  <2>4. CASE ~txn[w].voidsAccount
    <3>1. UNCHANGED account
      BY <1>6, <2>4 DEF CommitCancelSale
    <3>2. QED
      BY <1>1, <2>1, <2>2, <3>1 DEF AccountInv, AccountBalanced, PaidIsBacked, ReadsStand
  <2>5. QED
    BY <2>3, <2>4
<1>7. CASE CommitPay(w)
  <2>. DEFINE t == txn[w]  a == t.account
  <2>1. /\ a \in Account /\ t.amount \in Nat /\ t.paid \in Nat /\ t.outstanding \in Nat
        /\ Done(w) /\ UNCHANGED sale
    BY <1>7, TxnFields DEF CommitPay
  <2>2. /\ account[a].status # "NONE"
        /\ t.paid + t.outstanding = account[a].original
        /\ t.paid <= account[a].collected + t.amount
    BY <1>7 DEF CommitPay, AccountInv, ReadsStand
  <2>3. /\ \A b \in Account \ {a} : account'[b] = account[b]
        /\ account'[a].paid = t.paid /\ account'[a].outstanding = t.outstanding
        /\ account'[a].status = IF t.outstanding = 0 THEN "PAID" ELSE "PARTIALLY_PAID"
        /\ account'[a].original = account[a].original
        /\ account'[a].collected = account[a].collected + t.amount
        /\ account[a].collected \in Nat
    <3>1. account' = [account EXCEPT ![a] =
             [@ EXCEPT !.paid = t.paid, !.outstanding = t.outstanding,
                       !.status = IF t.outstanding = 0 THEN "PAID" ELSE "PARTIALLY_PAID",
                       !.collected = account[a].collected + t.amount]]
      BY <1>7 DEF CommitPay
    <3>2. account[a] \in AccountRow
      BY <2>1 DEF TypeOK
    <3>3. QED
      BY <2>1, <3>1, <3>2 DEF TypeOK, AccountRow
  <2>4. AccountBalanced' /\ PaidIsBacked'
    BY <2>1, <2>2, <2>3 DEF AccountInv, AccountBalanced, PaidIsBacked
  <2>5. ReadsStand'
    <3>1. \A i \in Sale : sale'[i].status = "NONE" => account'[i].status = "NONE"
      BY <2>1, <2>2, <2>3 DEF AccountInv, ReadsStand, Account
    <3>2. \A b \in Account : account'[b].status = "NONE" => account'[b].paid = 0
      BY <2>1, <2>3 DEF AccountInv, ReadsStand
    <3>3. ASSUME NEW v \in Worker \ {w}
          PROVE  /\ txn'[v].op = "cancelAccount" => account'[txn'[v].account].status # "NONE"
                 /\ txn'[v].op = "pay" =>
                      LET b == txn'[v].account IN
                      /\ account'[b].status # "NONE"
                      /\ txn'[v].paid + txn'[v].outstanding = account'[b].original
                      /\ txn'[v].paid <= account'[b].collected + txn'[v].amount
      <4>1. txn'[v] = txn[v]
        BY <1>1, <2>1
      <4>2. txn[v].op = "cancelAccount" => account'[txn[v].account].status # "NONE"
        BY <2>3, TxnFields DEF AccountInv, ReadsStand
      <4>3. ASSUME txn[v].op = "pay"
            PROVE  /\ account'[txn[v].account].status # "NONE"
                   /\ txn[v].paid + txn[v].outstanding = account'[txn[v].account].original
                   /\ txn[v].paid <= account'[txn[v].account].collected + txn[v].amount
        <5>1. /\ txn[v].account \in Account /\ txn[v].amount \in Nat /\ txn[v].paid \in Nat
          BY <4>3, TxnFields
        <5>2. /\ account[txn[v].account].status # "NONE"
              /\ txn[v].paid + txn[v].outstanding = account[txn[v].account].original
              /\ txn[v].paid <= account[txn[v].account].collected + txn[v].amount
          BY <4>3 DEF AccountInv, ReadsStand
        <5>3. CASE txn[v].account = a
          BY <2>1, <2>3, <5>1, <5>2, <5>3
        <5>4. CASE txn[v].account # a
          BY <2>3, <5>1, <5>2, <5>4
        <5>5. QED
          BY <5>3, <5>4
      <4>4. QED
        BY <4>1, <4>2, <4>3
    <3>4. txn'[w].op = "idle"
      BY <1>1, <2>1
    <3>5. QED
      BY <3>1, <3>2, <3>3, <3>4 DEF ReadsStand
  <2>6. QED
    BY <2>4, <2>5 DEF AccountInv
<1>8. CASE CommitCancelAccount(w)
  <2>. DEFINE a == txn[w].account
  <2>1. /\ a \in Account /\ Done(w) /\ UNCHANGED sale
        /\ account' = [account EXCEPT ![a].status = "CANCELLED"]
    BY <1>8, TxnFields DEF CommitCancelAccount
  <2>2. account[a].status # "NONE"
    BY <1>8 DEF CommitCancelAccount, AccountInv, ReadsStand
  <2>3. ReadsStand'
    BY <1>1, <1>5, <2>1, <2>2 DEF AccountInv, ReadsStand, Account
  <2>4. QED
    BY <1>5, <2>1, <2>3 DEF AccountInv
<1>9. CASE CommitApprove(w)
  <2>. DEFINE a == txn[w].account
  <2>1. /\ Done(w) /\ UNCHANGED sale
        /\ account' = [account EXCEPT ![a].approvedBy = txn[w].user]
    BY <1>9 DEF CommitApprove
  <2>2. \A b \in Account : /\ account'[b].status = account[b].status
                           /\ account'[b].original = account[b].original
                           /\ account'[b].collected = account[b].collected
                           /\ account'[b].paid = account[b].paid
                           /\ account'[b].outstanding = account[b].outstanding
    BY <2>1 DEF TypeOK, AccountRow
  <2>3. AccountBalanced' /\ PaidIsBacked'
    BY <2>2 DEF AccountInv, AccountBalanced, PaidIsBacked
  <2>4. ReadsStand'
    BY <1>1, <2>1, <2>2, TxnFields DEF AccountInv, ReadsStand, Account
  <2>5. QED
    BY <2>3, <2>4 DEF AccountInv
<1>10. QED
  BY <1>3, <1>4, <1>6, <1>7, <1>8, <1>9 DEF CommitStep

LEMMA InitAccountInv == Init => AccountInv
BY DEF Init, AccountInv, AccountBalanced, PaidIsBacked, ReadsStand, Idle, Account

LEMMA NextAccountInv == TypeOK /\ AccountInv /\ [Next]_vars => AccountInv'
<1>1. ASSUME TypeOK, AccountInv, CreateManualAccount
      PROVE  AccountInv'
  <2>1. PICK a \in ManualAccount, amount \in Amount :
            /\ account[a].status = "NONE"
            /\ NewAccount(a, amount) /\ UNCHANGED <<session, ledger, sale, payment, txn>>
    BY <1>1 DEF CreateManualAccount
  <2>2. a \in Account /\ a \notin Sale /\ amount \in Nat
    BY ConstantsOK DEF Account
  <2>3. AccountBalanced' /\ PaidIsBacked'
    BY <1>1, <2>1, <2>2, NewAccountInv
  <2>4. /\ \A b \in Account : account'[b].status = "NONE" => account'[b].paid = 0
        /\ \A b \in Account \ {a} : account'[b] = account[b]
        /\ \A w \in Worker : txn[w].op \in {"pay", "cancelAccount"} => txn[w].account # a
    BY <1>1, <2>1, <2>2, NewAccountInv
  <2>5. ReadsStand'
    <3>1. \A i \in Sale : account'[i] = account[i]
      BY <2>2, <2>4 DEF Account
    <3>2. \A w \in Worker :
             txn[w].op \in {"pay", "cancelAccount"} =>
                 account'[txn[w].account] = account[txn[w].account]
      BY <1>1, <2>4, TxnFields
    <3>3. QED
      BY <1>1, <2>1, <2>4, <3>1, <3>2 DEF AccountInv, ReadsStand
  <2>6. QED
    BY <2>3, <2>5 DEF AccountInv
<1>2. ASSUME TypeOK, AccountInv, NEW w \in Worker, Abort(w)
      PROVE  AccountInv'
  BY <1>2, OtherAccountInv DEF Abort, Done, Idle, Tables
<1>3. ASSUME AccountInv, UNCHANGED vars
      PROVE  AccountInv'
  BY <1>3 DEF AccountInv, AccountBalanced, PaidIsBacked, ReadsStand, vars
<1>4. QED
  BY <1>1, <1>2, <1>3, ReadAccountInv, CommitAccountInv, NextSteps

\* Whatever transactions overlap, the books of every receivable balance:
\* although pay() writes what it computed from an earlier read, paid and
\* outstanding add up to the debt and the status agrees with them.
THEOREM BooksBalance == Spec => []AccountBalanced
<1>1. Spec => [](TypeOK /\ AccountInv)
  BY InitTypeOK, InitAccountInv, NextTypeOK, NextAccountInv, PTL DEF Spec
<1>2. AccountInv => AccountBalanced
  BY DEF AccountInv
<1>3. QED
  BY <1>1, <1>2, PTL

\* Whatever transactions overlap, a receivable never shows more paid than the
\* payments that were received for it.
THEOREM PaidBacked == Spec => []PaidIsBacked
<1>1. Spec => [](TypeOK /\ AccountInv)
  BY InitTypeOK, InitAccountInv, NextTypeOK, NextAccountInv, PTL DEF Spec
<1>2. AccountInv => PaidIsBacked
  BY DEF AccountInv
<1>3. QED
  BY <1>1, <1>2, PTL
-----------------------------------------------------------------------------
(* The money of a cancelled sale.                                          *)

LEMMA CommitReturned ==
    ASSUME TypeOK, CancelledSaleReturned, NEW w \in Worker, CommitStep(w)
    PROVE  CancelledSaleReturned'
<1>1. CASE UNCHANGED sale
  BY <1>1 DEF CancelledSaleReturned
<1>2. ASSUME NEW i \in Sale, CommitSale(w, i)
      PROVE  CancelledSaleReturned'
  <2>1. /\ sale'[i].status = "COMPLETED" /\ sale'[i].returned = sale[i].returned
        /\ sale[i].status = "NONE"
        /\ \A j \in Sale \ {i} : sale'[j] = sale[j]
    BY <1>2 DEF CommitSale, TypeOK, SaleRow
  <2>2. QED
    BY <2>1 DEF CancelledSaleReturned
<1>3. CASE CommitCancelSale(w)
  <2>. DEFINE i == txn[w].sale
  <2>1. i \in Sale /\ sale[i] \in SaleRow
    BY <1>3, TxnFields DEF CommitCancelSale, TypeOK
  <2>2. sale' = [sale EXCEPT ![i] = [@ EXCEPT !.status = "CANCELLED",
                               !.returned = sale[i].returned + sale[i].paid]]
    BY <1>3 DEF CommitCancelSale
  <2>3. /\ sale'[i].status = "CANCELLED" /\ sale'[i].paid = sale[i].paid
        /\ sale'[i].returned = sale[i].returned + sale[i].paid
        /\ \A j \in Sale \ {i} : sale'[j] = sale[j]
    BY <2>1, <2>2 DEF TypeOK, SaleRow
  <2>4. sale[i].returned \in Nat /\ sale[i].paid \in Nat
    BY <2>1 DEF SaleRow
  <2>5. QED
    BY <2>3, <2>4 DEF CancelledSaleReturned
<1>4. QED
  BY <1>1, <1>2, <1>3 DEF CommitStep, CommitOpenSession, CommitCloseSession, CommitPay,
     CommitCancelAccount, CommitApprove, CommitCreatePayment, CommitCancelPayment,
     CommitCreateMovement

\* Whatever transactions overlap, the money of a sale is returned if and only
\* if the sale is cancelled.
THEOREM SaleMoneyReturned == Spec => []CancelledSaleReturned
<1>1. Init => CancelledSaleReturned
  BY DEF Init, CancelledSaleReturned
<1>2. ASSUME TypeOK, CancelledSaleReturned, [Next]_vars
      PROVE  CancelledSaleReturned'
  <2>1. CASE UNCHANGED sale
    BY <1>2, <2>1 DEF CancelledSaleReturned
  <2>2. ASSUME NEW w \in Worker, ReadStep(w)
        PROVE  UNCHANGED sale
    BY <2>2 DEF ReadStep, ReadOpenSession, ReadCloseSession, ReadSale, ReadCancelSale, ReadPay,
       ReadCancelAccount, ReadApprove, ReadCreatePayment, ReadCancelPayment,
       ReadCreateMovement, Tables
  <2>3. CreateManualAccount => UNCHANGED sale
    BY DEF CreateManualAccount
  <2>4. \A w \in Worker : Abort(w) => UNCHANGED sale
    BY DEF Abort, Tables
  <2>5. UNCHANGED vars => UNCHANGED sale
    BY DEF vars
  <2>6. QED
    BY <1>2, <2>1, <2>2, <2>3, <2>4, <2>5, NextSteps, CommitReturned
<1>3. QED
  BY <1>1, <1>2, InitTypeOK, NextTypeOK, PTL DEF Spec
-----------------------------------------------------------------------------
(***************************************************************************)
(* What the guards of the cash desk guarantee when requests do not overlap *)
(* (one transaction at a time): one open drawer per cashier, no receivable *)
(* overpaid, no sale returned twice.  The code does not make requests wait *)
(* for each other, and with two transactions in flight each of these       *)
(* properties fails (run race_overpaid shows it of one): serialising the   *)
(* requests of a tenant would be enough to have them.                      *)
(***************************************************************************)

OneWorker == \A v, w \in Worker : v = w

(* The invariant: the three properties in the form the steps preserve, and *)
(* what the transaction in flight has read is still so.                    *)
OneDrawer ==
    \A s, t \in Session :
        /\ session[s].status = "OPEN" /\ session[t].status = "OPEN"
        /\ session[s].owner = session[t].owner
        => s = t
AllCollected == \A a \in Account : account[a].collected = account[a].paid
ReadsCurrent ==
    \A w \in Worker :
        /\ txn[w].op = "openSession" => OpenSessions(txn[w].user) = {}
        /\ txn[w].op = "cancelSale" => sale[txn[w].sale].status # "CANCELLED"
        /\ txn[w].op = "pay" =>
               txn[w].paid = account[txn[w].account].collected + txn[w].amount
SerialInv ==
    OneDrawer /\ AllCollected /\ CancelledSaleReturned /\ CancelReturnsOnce /\ ReadsCurrent

LEMMA InitSerialInv == Init => SerialInv
<1>1. Init => OneDrawer /\ AllCollected
  BY DEF Init, OneDrawer, AllCollected
<1>2. Init => CancelledSaleReturned /\ CancelReturnsOnce
  BY DEF Init, CancelledSaleReturned, CancelReturnsOnce
<1>3. Init => ReadsCurrent
  BY DEF Init, ReadsCurrent, Idle
<1>4. QED
  BY <1>1, <1>2, <1>3 DEF SerialInv

\* With one worker, a step that leaves sessions, sales and receivables alone
\* keeps the invariant once what it reads into its transaction is so.
LEMMA TxnSerialInv ==
    ASSUME OneWorker, TypeOK, SerialInv, NEW w \in Worker, NEW t,
           txn' = [txn EXCEPT ![w] = t], UNCHANGED <<session, sale, account>>,
           t.op = "openSession" => OpenSessions(t.user) = {},
           t.op = "cancelSale" => sale[t.sale].status # "CANCELLED",
           t.op = "pay" => t.paid = account[t.account].collected + t.amount
    PROVE  SerialInv'
<1>1. OneDrawer' /\ AllCollected'
  BY DEF SerialInv, OneDrawer, AllCollected
<1>2. CancelledSaleReturned' /\ CancelReturnsOnce'
  BY DEF SerialInv, CancelledSaleReturned, CancelReturnsOnce
<1>3. txn'[w] = t /\ \A v \in Worker : v = w
  BY DEF TypeOK, OneWorker
<1>4. \A u : OpenSessions(u)' = OpenSessions(u)
  BY DEF OpenSessions
<1>5. ReadsCurrent'
  BY <1>3, <1>4 DEF ReadsCurrent
<1>6. QED
  BY <1>1, <1>2, <1>5 DEF SerialInv

LEMMA ReadSerialInv ==
    ASSUME OneWorker, TypeOK, SerialInv, NEW w \in Worker, ReadStep(w)
    PROVE  SerialInv'
<1>1. CASE \E t : /\ Begin(w, t) /\ UNCHANGED Tables
                  /\ t.op \notin {"openSession", "cancelSale", "pay"}
  BY <1>1, TxnSerialInv DEF Begin, Tables
<1>2. CASE ReadOpenSession(w)
  <2>1. PICK u \in User, opening \in Opening :
            /\ OpenSessions(u) = {}
            /\ Begin(w, [op |-> "openSession", user |-> u, opening |-> opening])
            /\ UNCHANGED Tables
    BY <1>2 DEF ReadOpenSession
  <2>. DEFINE t == [op |-> "openSession", user |-> u, opening |-> opening]
  <2>2. txn' = [txn EXCEPT ![w] = t] /\ UNCHANGED <<session, sale, account>>
    BY <2>1 DEF Begin, Tables
  <2>3. t.op = "openSession" /\ t.user = u
    OBVIOUS
  <2>. HIDE DEF t
  <2>4. QED
    BY <2>1, <2>2, <2>3, TxnSerialInv
<1>3. CASE \E i \in Sale : ReadCancelSale(w, i)
  <2>1. PICK i \in Sale :
            /\ sale[i].status = "COMPLETED"
            /\ Begin(w, [op |-> "cancelSale", sale |-> i,
                         voidsAccount |-> account[i].status \notin {"NONE", "CANCELLED"}])
            /\ UNCHANGED Tables
    BY <1>3 DEF ReadCancelSale
  <2>. DEFINE t == [op |-> "cancelSale", sale |-> i,
                    voidsAccount |-> account[i].status \notin {"NONE", "CANCELLED"}]
  <2>2. txn' = [txn EXCEPT ![w] = t] /\ UNCHANGED <<session, sale, account>>
    BY <2>1 DEF Begin, Tables
  <2>3. t.op = "cancelSale" /\ t.sale = i
    OBVIOUS
  <2>. HIDE DEF t
  <2>4. QED
    BY <2>1, <2>2, <2>3, TxnSerialInv
<1>4. CASE ReadPay(w)
  <2>1. PICK u \in User, a \in Account, amount \in Amount \ {0}, s \in Session :
            /\ Begin(w, [op |-> "pay", account |-> a, session |-> s, amount |-> amount,
                         paid |-> account[a].paid + amount,
                         outstanding |-> account[a].outstanding - amount])
            /\ UNCHANGED Tables
    BY <1>4 DEF ReadPay, LatestOpen, OpenSessions
  <2>. DEFINE t == [op |-> "pay", account |-> a, session |-> s, amount |-> amount,
                    paid |-> account[a].paid + amount,
                    outstanding |-> account[a].outstanding - amount]
  <2>2. txn' = [txn EXCEPT ![w] = t] /\ UNCHANGED <<session, sale, account>>
    BY <2>1 DEF Begin, Tables
  <2>3. /\ t.op = "pay" /\ t.account = a /\ t.amount = amount
        /\ t.paid = account[a].paid + amount
    OBVIOUS
  <2>4. account[a].paid = account[a].collected
    BY DEF SerialInv, AllCollected
  <2>. HIDE DEF t
  <2>5. QED
    BY <2>2, <2>3, <2>4, TxnSerialInv
<1>5. CASE ReadCloseSession(w)
  BY <1>1, <1>5 DEF ReadCloseSession
<1>6. CASE ReadSale(w)
  BY <1>1, <1>6 DEF ReadSale
<1>7. CASE ReadCancelAccount(w)
  BY <1>1, <1>7 DEF ReadCancelAccount
<1>8. CASE ReadApprove(w)
  BY <1>1, <1>8 DEF ReadApprove
<1>9. CASE ReadCreatePayment(w)
  BY <1>1, <1>9 DEF ReadCreatePayment
<1>10. CASE ReadCancelPayment(w)
  BY <1>1, <1>10 DEF ReadCancelPayment
<1>11. CASE ReadCreateMovement(w)
  BY <1>1, <1>11 DEF ReadCreateMovement
<1>12. QED
  BY <1>2, <1>3, <1>4, <1>5, <1>6, <1>7, <1>8, <1>9, <1>10, <1>11 DEF ReadStep

LEMMA CommitSerialInv ==
    ASSUME OneWorker, TypeOK, SerialInv, NEW w \in Worker, CommitStep(w)
    PROVE  SerialInv'
<1>1. ASSUME Done(w)
      PROVE  ReadsCurrent'
  <2>1. txn'[w].op = "idle" /\ \A v \in Worker : v = w
    BY <1>1 DEF Done, TypeOK, Idle, OneWorker
  <2>2. QED
    BY <2>1 DEF ReadsCurrent
<1>2. ASSUME UNCHANGED session
      PROVE  OneDrawer'
  BY <1>2 DEF SerialInv, OneDrawer
<1>3. ASSUME UNCHANGED account
      PROVE  AllCollected'
  BY <1>3 DEF SerialInv, AllCollected
<1>4. ASSUME UNCHANGED sale
      PROVE  CancelledSaleReturned' /\ CancelReturnsOnce'
  BY <1>4 DEF SerialInv, CancelledSaleReturned, CancelReturnsOnce
<1>5. CASE CommitOpenSession(w)
  <2>1. PICK s \in Session : session' = [session EXCEPT ![s] =
               [@ EXCEPT !.status = "OPEN", !.owner = txn[w].user,
                         !.opening = txn[w].opening]]
    BY <1>5 DEF CommitOpenSession
  <2>2. /\ session'[s].owner = txn[w].user
        /\ \A t \in Session \ {s} : session'[t] = session[t]
    BY <2>1 DEF TypeOK, SessionRow
  <2>3. OpenSessions(txn[w].user) = {}
    BY <1>5 DEF CommitOpenSession, SerialInv, ReadsCurrent
  <2>4. OneDrawer'
    BY <2>2, <2>3 DEF SerialInv, OneDrawer, OpenSessions
  <2>5. QED
    BY <1>1, <1>3, <1>4, <1>5, <2>4 DEF CommitOpenSession, SerialInv
<1>6. CASE CommitCloseSession(w)
  <2>1. txn[w].session \in Session
    BY <1>6, TxnFields DEF CommitCloseSession
  <2>2. session' = [session EXCEPT ![txn[w].session] =
            [@ EXCEPT !.status = "CLOSED", !.expected = txn[w].expected,
                      !.closing = txn[w].closing]]
    BY <1>6 DEF CommitCloseSession
  <2>3. /\ session'[txn[w].session].status = "CLOSED"
        /\ \A t \in Session \ {txn[w].session} : session'[t] = session[t]
    BY <2>1, <2>2 DEF TypeOK, SessionRow
  <2>4. OneDrawer'
    BY <2>3 DEF SerialInv, OneDrawer
  <2>5. QED
    BY <1>1, <1>3, <1>4, <1>6, <2>4 DEF CommitCloseSession, SerialInv
<1>7. ASSUME NEW i \in Sale, CommitSale(w, i)
      PROVE  SerialInv'
  <2>1. txn[w].pending \in Nat /\ txn[w].paid \in Nat /\ i \in Account
    BY <1>7, TxnFields DEF CommitSale, Account
  <2>2. /\ sale'[i].status = "COMPLETED" /\ sale'[i].returned = sale[i].returned
        /\ sale'[i].paid = txn[w].paid
        /\ \A j \in Sale \ {i} : sale'[j] = sale[j]
    BY <1>7 DEF CommitSale, TypeOK, SaleRow
  <2>3. sale[i].returned = 0
    BY <1>7 DEF CommitSale, SerialInv, CancelledSaleReturned
  <2>4. CancelledSaleReturned' /\ CancelReturnsOnce'
    BY <2>1, <2>2, <2>3 DEF SerialInv, CancelledSaleReturned, CancelReturnsOnce
  <2>5. AllCollected'
    <3>1. CASE UNCHANGED account
      BY <1>3, <3>1
    <3>2. CASE NewAccount(i, txn[w].pending)
      <4>1. \A a \in Account : /\ account'[a].collected = account[a].collected
                               /\ account'[a].paid = account[a].paid
        BY <2>1, <3>2 DEF NewAccount, TypeOK, AccountRow
      <4>2. QED
        BY <4>1 DEF SerialInv, AllCollected
    <3>3. QED
      BY <1>7, <3>1, <3>2 DEF CommitSale
  <2>6. QED
    BY <1>1, <1>2, <1>7, <2>4, <2>5 DEF CommitSale, SerialInv
<1>8. CASE CommitCancelSale(w)
  <2>. DEFINE i == txn[w].sale
  <2>1. i \in Sale /\ i \in Account /\ sale[i] \in SaleRow
    BY <1>8, TxnFields DEF CommitCancelSale, Account, TypeOK
  <2>2. sale' = [sale EXCEPT ![i] = [@ EXCEPT !.status = "CANCELLED",
                               !.returned = sale[i].returned + sale[i].paid]]
    BY <1>8 DEF CommitCancelSale
  <2>3. /\ sale'[i].status = "CANCELLED" /\ sale'[i].paid = sale[i].paid
        /\ sale'[i].returned = sale[i].returned + sale[i].paid
        /\ \A j \in Sale \ {i} : sale'[j] = sale[j]
    BY <2>1, <2>2 DEF TypeOK, SaleRow
  <2>4. sale[i].returned = 0 /\ sale[i].paid \in Nat
    BY <1>8, <2>1 DEF CommitCancelSale, SerialInv, ReadsCurrent, CancelledSaleReturned, SaleRow
  <2>5. CancelledSaleReturned' /\ CancelReturnsOnce'
    BY <2>3, <2>4 DEF SerialInv, CancelledSaleReturned, CancelReturnsOnce
  <2>6. \A a \in Account : /\ account'[a].collected = account[a].collected
                           /\ account'[a].paid = account[a].paid
    BY <1>8, <2>1 DEF CommitCancelSale, TypeOK, AccountRow
  <2>7. AllCollected'
    BY <2>6 DEF SerialInv, AllCollected
  <2>8. QED
    BY <1>1, <1>2, <1>8, <2>5, <2>7 DEF CommitCancelSale, SerialInv
<1>9. CASE CommitPay(w)
  <2>. DEFINE t == txn[w]  a == t.account
  <2>1. /\ a \in Account /\ account[a] \in AccountRow
        /\ t.paid = account[a].collected + t.amount
    BY <1>9, TxnFields DEF CommitPay, TypeOK, SerialInv, ReadsCurrent
  <2>2. account' = [account EXCEPT ![a] =
             [@ EXCEPT !.paid = t.paid, !.outstanding = t.outstanding,
                       !.status = IF t.outstanding = 0 THEN "PAID" ELSE "PARTIALLY_PAID",
                       !.collected = account[a].collected + t.amount]]
    BY <1>9 DEF CommitPay
  <2>3. /\ account'[a].paid = t.paid
        /\ account'[a].collected = account[a].collected + t.amount
        /\ \A b \in Account \ {a} : account'[b] = account[b]
    BY <2>1, <2>2 DEF TypeOK, AccountRow
  <2>4. AllCollected'
    BY <2>1, <2>3 DEF SerialInv, AllCollected
  <2>5. QED
    BY <1>1, <1>2, <1>4, <1>9, <2>4 DEF CommitPay, SerialInv
<1>10. CASE CommitCancelAccount(w) \/ CommitApprove(w)
  <2>1. \A a \in Account : /\ account'[a].collected = account[a].collected
                           /\ account'[a].paid = account[a].paid
    BY <1>10 DEF CommitCancelAccount, CommitApprove, TypeOK, AccountRow
  <2>2. AllCollected'
    BY <2>1 DEF SerialInv, AllCollected
  <2>3. QED
    BY <1>1, <1>2, <1>4, <1>10, <2>2 DEF CommitCancelAccount, CommitApprove, SerialInv
<1>11. CASE CommitCreatePayment(w) \/ CommitCancelPayment(w) \/ CommitCreateMovement(w)
  BY <1>1, <1>2, <1>3, <1>4, <1>11 DEF CommitCreatePayment, CommitCancelPayment,
     CommitCreateMovement, SerialInv
<1>12. QED
  BY <1>5, <1>6, <1>7, <1>8, <1>9, <1>10, <1>11 DEF CommitStep

LEMMA NextSerialInv == OneWorker /\ TypeOK /\ SerialInv /\ [Next]_vars => SerialInv'
<1>1. ASSUME OneWorker, TypeOK, SerialInv, CreateManualAccount
      PROVE  SerialInv'
  <2>1. PICK a \in ManualAccount, amount \in Amount :
            NewAccount(a, amount) /\ UNCHANGED <<session, ledger, sale, payment, txn>>
    BY <1>1 DEF CreateManualAccount
  <2>2. \A b \in Account : /\ account'[b].collected = account[b].collected
                           /\ account'[b].paid = account[b].paid
    BY <1>1, <2>1 DEF NewAccount, TypeOK, AccountRow
  <2>3. AllCollected'
    BY <1>1, <2>2 DEF SerialInv, AllCollected
  <2>4. OneDrawer' /\ CancelledSaleReturned' /\ CancelReturnsOnce'
    BY <1>1, <2>1 DEF SerialInv, OneDrawer, CancelledSaleReturned, CancelReturnsOnce
  <2>5. ReadsCurrent'
    <3>1. \A u : OpenSessions(u)' = OpenSessions(u)
      BY <2>1 DEF OpenSessions
    <3>2. \A w \in Worker : txn[w].op = "pay" => txn[w].account \in Account
      BY <1>1, TxnFields
    <3>3. QED
      BY <1>1, <2>1, <2>2, <3>1, <3>2 DEF SerialInv, ReadsCurrent
  <2>6. QED
    BY <2>3, <2>4, <2>5 DEF SerialInv
<1>2. ASSUME OneWorker, TypeOK, SerialInv, NEW w \in Worker, Abort(w)
      PROVE  SerialInv'
  <2>1. txn' = [txn EXCEPT ![w] = Idle] /\ UNCHANGED <<session, sale, account>>
    BY <1>2 DEF Abort, Done, Tables
  <2>2. Idle.op = "idle"
    BY DEF Idle
  <2>3. QED
    BY <1>2, <2>1, <2>2, TxnSerialInv
<1>3. ASSUME SerialInv, UNCHANGED vars
      PROVE  SerialInv'
  <2>1. \A u : OpenSessions(u)' = OpenSessions(u)
    BY <1>3 DEF OpenSessions, vars
  <2>2. QED
    BY <1>3, <2>1 DEF SerialInv, OneDrawer, AllCollected, CancelledSaleReturned,
       CancelReturnsOnce, ReadsCurrent, vars
<1>4. QED
  BY <1>1, <1>2, <1>3, ReadSerialInv, CommitSerialInv, NextSteps

\* A cashier's open drawers are counted by the invariant.
LEMMA OneDrawerCount ==
    ASSUME TypeOK, OneDrawer, NEW u \in User
    PROVE  Cardinality(OpenSessions(u)) <= 1
<1>1. CASE OpenSessions(u) = {}
  BY <1>1, FS_EmptySet
<1>2. CASE OpenSessions(u) # {}
  <2>1. PICK s \in OpenSessions(u) : TRUE
    BY <1>2
  <2>2. OpenSessions(u) = {s}
    BY <2>1 DEF OneDrawer, OpenSessions
  <2>3. Cardinality({s}) = 1
    BY FS_Singleton
  <2>4. QED
    BY <2>2, <2>3
<1>3. QED
  BY <1>1, <1>2

(* What a request in flight has read of drawers and receivables is still   *)
(* so when it commits: the only step another client can take meanwhile is  *)
(* the creation of a receivable by hand.                                   *)
DeskCurrent ==
    \A w \in Worker :
        /\ txn[w].op \in {"closeSession", "createSale", "pay", "createPayment",
                          "createMovement"} =>
               session[txn[w].session].status = "OPEN"
        /\ txn[w].op = "closeSession" =>
               txn[w].expected = session[txn[w].session].opening + Net(ledger[txn[w].session])
        /\ txn[w].op \in {"pay", "cancelAccount"} => Payable(txn[w].account)

DeskInv == TypeOK /\ AccountInv /\ SerialInv /\ DeskCurrent

\* The same of what the only worker writes into its transaction.
LEMMA TxnDeskCurrent ==
    ASSUME OneWorker, TypeOK, NEW w \in Worker, NEW t,
           txn' = [txn EXCEPT ![w] = t], UNCHANGED <<session, ledger, account>>,
           t.op \in {"closeSession", "createSale", "pay", "createPayment",
                     "createMovement"} => session[t.session].status = "OPEN",
           t.op = "closeSession" =>
               t.expected = session[t.session].opening + Net(ledger[t.session]),
           t.op \in {"pay", "cancelAccount"} => Payable(t.account)
    PROVE  DeskCurrent'
<1>1. txn'[w] = t /\ \A v \in Worker : v = w
  BY DEF TypeOK, OneWorker
<1>2. session' = session /\ ledger' = ledger /\ account' = account
  OBVIOUS
<1>3. ASSUME NEW v \in Worker
      PROVE  /\ txn'[v].op \in {"closeSession", "createSale", "pay", "createPayment",
                                "createMovement"} =>
                    session'[txn'[v].session].status = "OPEN"
             /\ txn'[v].op = "closeSession" =>
                    txn'[v].expected =
                        session'[txn'[v].session].opening + Net(ledger'[txn'[v].session])
             /\ txn'[v].op \in {"pay", "cancelAccount"} =>
                    account'[txn'[v].account].status \in {"OPEN", "PARTIALLY_PAID"}
  BY <1>1, <1>2 DEF Payable
<1>4. QED
  BY <1>3 DEF DeskCurrent, Payable, Net

LEMMA ReadDeskCurrent ==
    ASSUME OneWorker, TypeOK, NEW w \in Worker, ReadStep(w)
    PROVE  DeskCurrent'
<1>1. CASE \E t : /\ Begin(w, t) /\ UNCHANGED Tables
                  /\ t.op \in {"openSession", "cancelSale", "approve", "cancelPayment"}
  BY <1>1, TxnDeskCurrent DEF Begin, Tables
<1>2. CASE \E t : /\ Begin(w, t) /\ UNCHANGED Tables
                  /\ t.op \in {"createSale", "createPayment", "createMovement"}
                  /\ session[t.session].status = "OPEN"
  BY <1>2, TxnDeskCurrent DEF Begin, Tables
<1>3. CASE \E t : /\ Begin(w, t) /\ UNCHANGED Tables
                  /\ t.op = "pay" /\ session[t.session].status = "OPEN"
                  /\ Payable(t.account)
  BY <1>3, TxnDeskCurrent DEF Begin, Tables
<1>4. CASE \E t : /\ Begin(w, t) /\ UNCHANGED Tables
                  /\ t.op = "cancelAccount" /\ Payable(t.account)
  BY <1>4, TxnDeskCurrent DEF Begin, Tables
<1>5. CASE \E t : /\ Begin(w, t) /\ UNCHANGED Tables
                  /\ t.op = "closeSession" /\ session[t.session].status = "OPEN"
                  /\ t.expected = session[t.session].opening + Net(ledger[t.session])
  BY <1>5, TxnDeskCurrent DEF Begin, Tables
<1>6. CASE ReadOpenSession(w)
  BY <1>1, <1>6 DEF ReadOpenSession
<1>7. CASE \E i \in Sale : ReadCancelSale(w, i)
  BY <1>1, <1>7 DEF ReadCancelSale
<1>8. CASE ReadApprove(w)
  BY <1>1, <1>8 DEF ReadApprove
<1>9. CASE ReadCancelPayment(w)
  BY <1>1, <1>9 DEF ReadCancelPayment
<1>10. CASE ReadSale(w)
  BY <1>2, <1>10 DEF ReadSale, OpenSessions
<1>11. CASE ReadCreatePayment(w)
  BY <1>2, <1>11 DEF ReadCreatePayment, LatestOpen, OpenSessions
<1>12. CASE ReadCreateMovement(w)
  BY <1>2, <1>12 DEF ReadCreateMovement, LatestOpen, OpenSessions
<1>13. CASE ReadPay(w)
  BY <1>3, <1>13 DEF ReadPay, LatestOpen, OpenSessions
<1>14. CASE ReadCancelAccount(w)
  BY <1>4, <1>14 DEF ReadCancelAccount
<1>15. CASE ReadCloseSession(w)
  <2>1. PICK s \in Session : \E closing :
            /\ session[s].status = "OPEN"
            /\ Begin(w, [op |-> "closeSession", session |-> s,
                         expected |-> session[s].opening + Net(ledger[s]),
                         closing |-> closing])
            /\ UNCHANGED Tables
    BY <1>15 DEF ReadCloseSession
  <2>2. QED
    BY <1>5, <2>1
<1>16. QED
  BY <1>6, <1>7, <1>8, <1>9, <1>10, <1>11, <1>12, <1>13, <1>14, <1>15 DEF ReadStep

\* Every commit leaves its worker idle.
LEMMA CommitDone ==
    ASSUME NEW w \in Worker, CommitStep(w)
    PROVE  Done(w)
BY DEF CommitStep, CommitOpenSession, CommitCloseSession, CommitSale, CommitCancelSale, CommitPay,
   CommitCancelAccount, CommitApprove, CommitCreatePayment, CommitCancelPayment,
   CommitCreateMovement

LEMMA IdleDeskCurrent ==
    ASSUME OneWorker, TypeOK, NEW w \in Worker, Done(w)
    PROVE  DeskCurrent'
<1>1. \A v \in Worker : txn'[v].op = "idle"
  BY DEF Done, TypeOK, Idle, OneWorker
<1>2. QED
  BY <1>1 DEF DeskCurrent

\* A receivable made by hand takes an id that no request in flight has read.
LEMMA ManualDeskCurrent ==
    ASSUME TypeOK, DeskCurrent, CreateManualAccount
    PROVE  DeskCurrent'
<1>1. PICK a \in ManualAccount, amount \in Amount :
          /\ account[a].status = "NONE" /\ NewAccount(a, amount)
          /\ UNCHANGED <<session, ledger, sale, payment, txn>>
  BY DEF CreateManualAccount
<1>2. \A b \in Account : account[b].status # "NONE" => account'[b] = account[b]
  BY <1>1 DEF NewAccount, TypeOK
<1>3. \A v \in Worker : txn[v].op \in {"pay", "cancelAccount"} =>
          txn[v].account \in Account /\ account[txn[v].account].status # "NONE"
  BY TxnFields DEF DeskCurrent, Payable
<1>4. txn' = txn /\ session' = session /\ ledger' = ledger
  BY <1>1
<1>5. \A v \in Worker : txn[v].op \in {"pay", "cancelAccount"} =>
          account'[txn[v].account] = account[txn[v].account]
  BY <1>2, <1>3
<1>6. QED
  BY <1>4, <1>5 DEF DeskCurrent, Payable, Net

LEMMA NextDeskCurrent == OneWorker /\ TypeOK /\ DeskCurrent /\ [Next]_vars => DeskCurrent'
<1>1. ASSUME DeskCurrent, UNCHANGED vars
      PROVE  DeskCurrent'
  BY <1>1 DEF DeskCurrent, Payable, Net, vars
<1>2. \A w \in Worker : Abort(w) => Done(w)
  BY DEF Abort
<1>3. QED
  BY <1>1, <1>2, NextSteps, ReadDeskCurrent, CommitDone, IdleDeskCurrent, ManualDeskCurrent

\* When requests do not overlap, every state of the desk is as the guards of
\* one request left it for the next.
LEMMA DeskInvariant ==
    ASSUME OneWorker
    PROVE  Spec => []DeskInv
<1>1. Init => DeskInv
  BY InitTypeOK, InitAccountInv, InitSerialInv DEF DeskInv, DeskCurrent, Init, Idle
<1>2. DeskInv /\ [Next]_vars => DeskInv'
  BY NextTypeOK, NextAccountInv, NextSerialInv, NextDeskCurrent DEF DeskInv
<1>3. QED
  BY <1>1, <1>2, PTL DEF Spec

\* When requests do not overlap, the payments of a receivable stay within its debt.
THEOREM DebtBounds ==
    ASSUME OneWorker
    PROVE  Spec => []CollectedWithinDebt
<1>1. ASSUME DeskInv
      PROVE  CollectedWithinDebt
  <2>1. \A a \in Account : /\ account[a].paid \in Nat /\ account[a].outstanding \in Nat
                           /\ account[a].original \in Nat
    BY <1>1 DEF DeskInv, TypeOK, AccountRow
  <2>2. QED
    BY <1>1, <2>1 DEF DeskInv, AccountInv, AccountBalanced, SerialInv, AllCollected,
       CollectedWithinDebt
<1>2. QED
  BY <1>1, DeskInvariant, PTL

\* When requests do not overlap, the money of a sale is returned once.
THEOREM ReturnedOnce ==
    ASSUME OneWorker
    PROVE  Spec => []CancelReturnsOnce
<1>1. DeskInv => CancelReturnsOnce
  BY DEF DeskInv, SerialInv
<1>2. QED
  BY <1>1, DeskInvariant, PTL

(* The steps that move a drawer or a receivable keep what is over as it was. *)

LEMMA ClosedStandsStep ==
    ASSUME TypeOK, DeskCurrent, Next
    PROVE  ClosedStands
<1>1. CASE UNCHANGED <<session, ledger>>
  BY <1>1 DEF ClosedStands
<1>2. ASSUME UNCHANGED session, NEW s \in Session, NEW type \in CashType, NEW amount \in Nat,
             Post(s, type, amount),
             session[s].status = "OPEN" \/ type \in {"CORRECTION_IN", "CORRECTION_OUT"}
      PROVE  ClosedStands
  <2>1. \A t \in Session, c \in CashType : t # s \/ c # type => ledger'[t][c] = ledger[t][c]
    BY <1>2 DEF Post, TypeOK
  <2>2. QED
    BY <1>2, <2>1 DEF ClosedStands
<1>3. ASSUME NEW w \in Worker, CommitStep(w)
      PROVE  ClosedStands
  <2>1. CASE CommitOpenSession(w)
    <3>1. PICK s \in Session :
              /\ session[s].status = "NONE" /\ UNCHANGED ledger
              /\ session' = [session EXCEPT ![s] =
                     [@ EXCEPT !.status = "OPEN", !.owner = txn[w].user,
                               !.opening = txn[w].opening]]
      BY <2>1 DEF CommitOpenSession
    <3>2. \A t \in Session \ {s} : session'[t] = session[t]
      BY <3>1 DEF TypeOK
    <3>3. QED
      BY <3>1, <3>2 DEF ClosedStands
  <2>2. CASE CommitCloseSession(w)
    <3>1. session[txn[w].session].status = "OPEN" /\ UNCHANGED ledger
      BY <2>2 DEF CommitCloseSession, DeskCurrent
    <3>2. \A t \in Session \ {txn[w].session} : session'[t] = session[t]
      BY <2>2 DEF CommitCloseSession, TypeOK
    <3>3. QED
      BY <3>1, <3>2 DEF ClosedStands
  <2>3. ASSUME NEW i \in Sale, CommitSale(w, i)
        PROVE  ClosedStands
    <3>1. /\ txn[w].session \in Session /\ txn[w].paid \in Nat
          /\ session[txn[w].session].status = "OPEN"
      BY <2>3, TxnFields DEF CommitSale, DeskCurrent
    <3>2. UNCHANGED session /\ Post(txn[w].session, "SALE_CASH_IN", txn[w].paid)
      BY <2>3 DEF CommitSale
    <3>3. "SALE_CASH_IN" \in CashType
      BY DEF CashType, PositiveTypes
    <3>4. QED
      BY <1>2, <3>1, <3>2, <3>3
  <2>4. CASE CommitCancelSale(w)
    <3>. DEFINE i == txn[w].sale
    <3>1. i \in Sale /\ sale[i] \in SaleRow
      BY <2>4, TxnFields DEF CommitCancelSale, TypeOK
    <3>2. UNCHANGED session /\ Post(sale[i].session, "CORRECTION_OUT", sale[i].paid)
      BY <2>4 DEF CommitCancelSale
    <3>3. sale[i].paid \in Nat /\ "CORRECTION_OUT" \in CashType
      BY <3>1 DEF SaleRow, CashType, NegativeTypes
    <3>4. CASE sale[i].session \in Session
      BY <1>2, <3>2, <3>3, <3>4
    <3>5. CASE sale[i].session \notin Session
      BY <1>1, <3>2, <3>5 DEF Post, TypeOK
    <3>6. QED
      BY <3>4, <3>5
  <2>5. CASE CommitPay(w)
    <3>1. /\ txn[w].session \in Session /\ txn[w].amount \in Nat
          /\ session[txn[w].session].status = "OPEN"
      BY <2>5, TxnFields DEF CommitPay, DeskCurrent
    <3>2. UNCHANGED session /\ Post(txn[w].session, "RECEIVABLE_CASH_IN", txn[w].amount)
      BY <2>5 DEF CommitPay
    <3>3. "RECEIVABLE_CASH_IN" \in CashType
      BY DEF CashType, PositiveTypes
    <3>4. QED
      BY <1>2, <3>1, <3>2, <3>3
  <2>6. CASE CommitCancelAccount(w) \/ CommitApprove(w)
    BY <1>1, <2>6 DEF CommitCancelAccount, CommitApprove
  <2>7. CASE CommitCreatePayment(w)
    <3>1. /\ txn[w].session \in Session /\ txn[w].amount \in Nat
          /\ session[txn[w].session].status = "OPEN"
      BY <2>7, TxnFields DEF CommitCreatePayment, DeskCurrent
    <3>2. UNCHANGED session /\ Post(txn[w].session, "THIRD_PARTY_CASH_OUT", txn[w].amount)
      BY <2>7 DEF CommitCreatePayment
    <3>3. "THIRD_PARTY_CASH_OUT" \in CashType
      BY DEF CashType, NegativeTypes
    <3>4. QED
      BY <1>2, <3>1, <3>2, <3>3
  <2>8. CASE CommitCancelPayment(w)
    <3>. DEFINE p == txn[w].payment
    <3>1. p \in Payment /\ payment[p] \in PaymentRow
      BY <2>8, TxnFields DEF CommitCancelPayment, TypeOK
    <3>2. UNCHANGED session /\ Post(payment[p].session, "CORRECTION_IN", payment[p].amount)
      BY <2>8 DEF CommitCancelPayment
    <3>3. payment[p].amount \in Nat /\ "CORRECTION_IN" \in CashType
      BY <3>1 DEF PaymentRow, CashType, PositiveTypes
    <3>4. CASE payment[p].session \in Session
      BY <1>2, <3>2, <3>3, <3>4
    <3>5. CASE payment[p].session \notin Session
      BY <1>1, <3>2, <3>5 DEF Post, TypeOK
    <3>6. QED
      BY <3>4, <3>5
  <2>9. CASE CommitCreateMovement(w)
    <3>1. /\ txn[w].session \in Session /\ txn[w].amount \in Nat /\ txn[w].type \in CashType
          /\ session[txn[w].session].status = "OPEN"
      BY <2>9, TxnFields DEF CommitCreateMovement, DeskCurrent
    <3>2. UNCHANGED session /\ Post(txn[w].session, txn[w].type, txn[w].amount)
      BY <2>9 DEF CommitCreateMovement
    <3>3. QED
      BY <1>2, <3>1, <3>2
  <2>10. QED
    BY <1>3, <2>1, <2>2, <2>3, <2>4, <2>5, <2>6, <2>7, <2>8, <2>9 DEF CommitStep
<1>4. \A w \in Worker : ReadStep(w) => UNCHANGED <<session, ledger>>
  BY DEF ReadStep, ReadOpenSession, ReadCloseSession, ReadSale, ReadCancelSale, ReadPay,
     ReadCancelAccount, ReadApprove, ReadCreatePayment, ReadCancelPayment,
     ReadCreateMovement, Tables
<1>5. /\ CreateManualAccount => UNCHANGED <<session, ledger>>
      /\ \A w \in Worker : Abort(w) => UNCHANGED <<session, ledger>>
  BY DEF CreateManualAccount, Abort, Tables
<1>6. QED
  BY <1>1, <1>3, <1>4, <1>5, NextSteps

LEMMA ClosingCountsStep ==
    ASSUME TypeOK, DeskCurrent, Next
    PROVE  ClosingCounts
<1>1. CASE UNCHANGED session
  BY <1>1 DEF ClosingCounts
<1>2. ASSUME NEW w \in Worker, CommitOpenSession(w)
      PROVE  ClosingCounts
  <2>1. PICK s \in Session :
            session' = [session EXCEPT ![s] =
                   [@ EXCEPT !.status = "OPEN", !.owner = txn[w].user,
                             !.opening = txn[w].opening]]
    BY <1>2 DEF CommitOpenSession
  <2>2. session'[s].status = "OPEN" /\ \A t \in Session \ {s} : session'[t] = session[t]
    BY <2>1 DEF TypeOK, SessionRow
  <2>3. QED
    BY <2>2 DEF ClosingCounts
<1>3. ASSUME NEW w \in Worker, CommitCloseSession(w)
      PROVE  ClosingCounts
  <2>. DEFINE s == txn[w].session
  <2>1. s \in Session /\ txn[w].expected = session[s].opening + Net(ledger[s])
    BY <1>3, TxnFields DEF CommitCloseSession, DeskCurrent
  <2>2. session' = [session EXCEPT ![s] =
            [@ EXCEPT !.status = "CLOSED", !.expected = txn[w].expected,
                      !.closing = txn[w].closing]]
    BY <1>3 DEF CommitCloseSession
  <2>3. /\ session'[s].expected = txn[w].expected
        /\ \A t \in Session \ {s} : session'[t] = session[t]
    BY <2>1, <2>2 DEF TypeOK, SessionRow
  <2>4. QED
    BY <2>1, <2>3 DEF ClosingCounts
<1>4. \A w \in Worker : ReadStep(w) => UNCHANGED session
  BY DEF ReadStep, ReadOpenSession, ReadCloseSession, ReadSale, ReadCancelSale, ReadPay,
     ReadCancelAccount, ReadApprove, ReadCreatePayment, ReadCancelPayment,
     ReadCreateMovement, Tables
<1>5. ASSUME NEW w \in Worker, CommitStep(w), ~CommitOpenSession(w), ~CommitCloseSession(w)
      PROVE  UNCHANGED session
  BY <1>5 DEF CommitStep, CommitSale, CommitCancelSale, CommitPay, CommitCancelAccount,
     CommitApprove, CommitCreatePayment, CommitCancelPayment, CommitCreateMovement
<1>6. /\ CreateManualAccount => UNCHANGED session
      /\ \A w \in Worker : Abort(w) => UNCHANGED session
  BY DEF CreateManualAccount, Abort, Tables
<1>7. QED
  BY <1>1, <1>2, <1>3, <1>4, <1>5, <1>6, NextSteps

LEMMA EndedStandsStep ==
    ASSUME TypeOK, ReadsStand, DeskCurrent, Next
    PROVE  EndedStands
<1>1. CASE UNCHANGED account
  BY <1>1 DEF EndedStands
<1>2. ASSUME NEW a \in Account, account[a].status \notin {"PAID", "CANCELLED"},
             \A b \in Account \ {a} : account'[b] = account[b]
      PROVE  EndedStands
  BY <1>2 DEF EndedStands
<1>3. CASE CreateManualAccount
  <2>1. PICK a \in ManualAccount, amount \in Amount :
            account[a].status = "NONE" /\ NewAccount(a, amount)
    BY <1>3 DEF CreateManualAccount
  <2>2. a \in Account /\ \A b \in Account \ {a} : account'[b] = account[b]
    BY <2>1 DEF NewAccount, TypeOK, Account
  <2>3. QED
    BY <1>2, <2>1, <2>2
<1>4. ASSUME NEW w \in Worker, CommitStep(w)
      PROVE  EndedStands
  <2>1. ASSUME NEW i \in Sale, CommitSale(w, i)
        PROVE  EndedStands
    <3>1. i \in Account /\ account[i].status = "NONE"
      BY <2>1 DEF CommitSale, ReadsStand, Account
    <3>2. NewAccount(i, txn[w].pending) => \A b \in Account \ {i} : account'[b] = account[b]
      BY DEF NewAccount, TypeOK
    <3>3. QED
      BY <1>1, <1>2, <2>1, <3>1, <3>2 DEF CommitSale
  <2>2. CASE CommitCancelSale(w)
    <3>. DEFINE i == txn[w].sale
    <3>1. i \in Sale /\ i \in Account
      BY <2>2, TxnFields DEF CommitCancelSale, Account
    <3>2. sale'[i].status = "CANCELLED"
      BY <2>2, <3>1 DEF CommitCancelSale, TypeOK, SaleRow
    <3>3. CASE account' = [account EXCEPT ![i].status = "CANCELLED"]
      <4>1. /\ account'[i].status = "CANCELLED"
            /\ account'[i].collected = account[i].collected
            /\ \A b \in Account \ {i} : account'[b] = account[b]
        BY <3>1, <3>3 DEF TypeOK, AccountRow
      <4>2. QED
        BY <3>1, <3>2, <4>1 DEF EndedStands
    <3>4. QED
      BY <1>1, <2>2, <3>3 DEF CommitCancelSale
  <2>3. CASE CommitPay(w)
    <3>1. /\ txn[w].account \in Account
          /\ account[txn[w].account].status \in {"OPEN", "PARTIALLY_PAID"}
      BY <2>3, TxnFields DEF CommitPay, DeskCurrent, Payable
    <3>2. \A b \in Account \ {txn[w].account} : account'[b] = account[b]
      BY <2>3 DEF CommitPay, TypeOK
    <3>3. QED
      BY <1>2, <3>1, <3>2
  <2>4. CASE CommitCancelAccount(w)
    <3>1. /\ txn[w].account \in Account
          /\ account[txn[w].account].status \in {"OPEN", "PARTIALLY_PAID"}
      BY <2>4, TxnFields DEF CommitCancelAccount, DeskCurrent, Payable
    <3>2. \A b \in Account \ {txn[w].account} : account'[b] = account[b]
      BY <2>4 DEF CommitCancelAccount, TypeOK
    <3>3. QED
      BY <1>2, <3>1, <3>2
  <2>5. CASE CommitApprove(w)
    <3>1. \A b \in Account : /\ account'[b].status = account[b].status
                             /\ account'[b].collected = account[b].collected
      BY <2>5 DEF CommitApprove, TypeOK, AccountRow
    <3>2. QED
      BY <3>1 DEF EndedStands
  <2>6. CASE \/ CommitOpenSession(w) \/ CommitCloseSession(w) \/ CommitCreatePayment(w)
             \/ CommitCancelPayment(w) \/ CommitCreateMovement(w)
    BY <1>1, <2>6 DEF CommitOpenSession, CommitCloseSession, CommitCreatePayment,
       CommitCancelPayment, CommitCreateMovement
  <2>7. QED
    BY <1>4, <2>1, <2>2, <2>3, <2>4, <2>5, <2>6 DEF CommitStep
<1>5. \A w \in Worker : ReadStep(w) => UNCHANGED account
  BY DEF ReadStep, ReadOpenSession, ReadCloseSession, ReadSale, ReadCancelSale, ReadPay,
     ReadCancelAccount, ReadApprove, ReadCreatePayment, ReadCancelPayment,
     ReadCreateMovement, Tables
<1>6. \A w \in Worker : Abort(w) => UNCHANGED account
  BY DEF Abort, Tables
<1>7. QED
  BY <1>1, <1>3, <1>4, <1>5, <1>6, NextSteps

\* When requests do not overlap, a cashier has one drawer at a time, and closed drawers
\* and receivables that ended stay as they were.
THEOREM DeskStaysInOrder ==
    ASSUME OneWorker
    PROVE  Spec => DeskInOrder
<1>1. DeskInv => OneOpenSession
  BY OneDrawerCount DEF DeskInv, SerialInv, OneOpenSession
<1>2. ASSUME DeskInv, [Next]_vars
      PROVE  [ClosedStands]_vars /\ [ClosingCounts]_vars /\ [EndedStands]_vars
  BY <1>2, ClosedStandsStep, ClosingCountsStep, EndedStandsStep DEF DeskInv, AccountInv
<1>3. QED
  BY <1>1, <1>2, DeskInvariant, PTL DEF Spec, DeskInOrder, ClosedIsFinal, CloseCountsAll,
     EndedIsFinal
-----------------------------------------------------------------------------
(***************************************************************************)
(* What the tables add up to.  Each commit writes one row of a table and   *)
(* posts one movement; the sums below say what that is worth, and change   *)
(* by as much.                                                             *)
(***************************************************************************)

FiniteTables == IsFiniteSet(Sale) /\ IsFiniteSet(ManualAccount) /\ IsFiniteSet(Payment)

SalesOf(r, s) ==
    SumFunctionOnSet([i \in Sale |-> r[i].paid], {i \in Sale : r[i].session = s})
SalesStanding(r) ==
    SumFunctionOnSet([i \in Sale |-> r[i].paid], {i \in Sale : r[i].status = "COMPLETED"})
PaymentsOf(r, s) ==
    SumFunctionOnSet([p \in Payment |-> r[p].amount], {p \in Payment : r[p].session = s})
PaymentsStanding(r) ==
    SumFunctionOnSet([p \in Payment |-> r[p].amount], {p \in Payment : r[p].status = "PAID"})
Collected(r) == SumFunction([a \in Account |-> r[a].collected])
Received(l) == SumFunction([s \in Session |-> l[s]["RECEIVABLE_CASH_IN"]])
Drawers(l) == SumFunction([s \in Session |-> Net(l[s])])
Manual(r) == r["CASH_IN"] - r["WITHDRAWAL"] - r["EXPENSE"]
ByHand(l) == SumFunction([s \in Session |-> Manual(l[s])])

\* A row of sales that changes.
LEMMA SalesChange ==
    ASSUME IsFiniteSet(Sale), NEW r \in [Sale -> SaleRow], NEW i \in Sale,
           NEW q, q \in [Sale -> SaleRow], \A x \in Sale \ {i} : q[x] = r[x]
    PROVE  /\ \A s : /\ SalesOf(q, s) =
                            SalesOf(r, s) - (IF r[i].session = s THEN r[i].paid ELSE 0)
                            + (IF q[i].session = s THEN q[i].paid ELSE 0)
                     /\ SalesOf(r, s) \in Int
           /\ SalesStanding(q) =
                  SalesStanding(r) - (IF r[i].status = "COMPLETED" THEN r[i].paid ELSE 0)
                  + (IF q[i].status = "COMPLETED" THEN q[i].paid ELSE 0)
           /\ SalesStanding(r) \in Int
<1>. DEFINE g == [x \in Sale |-> r[x].paid]
            h == [x \in Sale |-> q[x].paid]
<1>1. /\ g \in [Sale -> Int] /\ h \in [Sale -> Int]
      /\ \A x \in Sale \ {i} : h[x] = g[x]
      /\ g[i] = r[i].paid /\ h[i] = q[i].paid
  BY DEF SaleRow
<1>2. ASSUME NEW s
      PROVE  /\ SalesOf(q, s) = SalesOf(r, s) - (IF r[i].session = s THEN r[i].paid ELSE 0)
                                + (IF q[i].session = s THEN q[i].paid ELSE 0)
             /\ SalesOf(r, s) \in Int
  <2>. DEFINE T == {x \in Sale : r[x].session = s}
              U == {x \in Sale : q[x].session = s}
  <2>1. /\ T \in SUBSET Sale /\ U \in SUBSET Sale
        /\ \A x \in Sale \ {i} : x \in T <=> x \in U
        /\ (i \in T <=> r[i].session = s) /\ (i \in U <=> q[i].session = s)
    OBVIOUS
  <2>2. SalesOf(q, s) = SumFunctionOnSet(h, U) /\ SalesOf(r, s) = SumFunctionOnSet(g, T)
    BY DEF SalesOf
  <2>. HIDE DEF g, h, T, U
  <2>3. QED
    BY <1>1, <2>1, <2>2, SumRows DEF Share
<1>3. /\ SalesStanding(q) =
             SalesStanding(r) - (IF r[i].status = "COMPLETED" THEN r[i].paid ELSE 0)
             + (IF q[i].status = "COMPLETED" THEN q[i].paid ELSE 0)
      /\ SalesStanding(r) \in Int
  <2>. DEFINE T == {x \in Sale : r[x].status = "COMPLETED"}
              U == {x \in Sale : q[x].status = "COMPLETED"}
  <2>1. /\ T \in SUBSET Sale /\ U \in SUBSET Sale
        /\ \A x \in Sale \ {i} : x \in T <=> x \in U
        /\ (i \in T <=> r[i].status = "COMPLETED") /\ (i \in U <=> q[i].status = "COMPLETED")
    OBVIOUS
  <2>2. SalesStanding(q) = SumFunctionOnSet(h, U) /\ SalesStanding(r) = SumFunctionOnSet(g, T)
    BY DEF SalesStanding
  <2>. HIDE DEF g, h, T, U
  <2>3. QED
    BY <1>1, <2>1, <2>2, SumRows DEF Share
<1>4. QED
  BY <1>2, <1>3

\* A row of third-party payments that changes.
LEMMA PaymentsChange ==
    ASSUME IsFiniteSet(Payment), NEW r \in [Payment -> PaymentRow], NEW p \in Payment,
           NEW q, q \in [Payment -> PaymentRow], \A x \in Payment \ {p} : q[x] = r[x]
    PROVE  /\ \A s : /\ PaymentsOf(q, s) =
                            PaymentsOf(r, s) - (IF r[p].session = s THEN r[p].amount ELSE 0)
                            + (IF q[p].session = s THEN q[p].amount ELSE 0)
                     /\ PaymentsOf(r, s) \in Int
           /\ PaymentsStanding(q) =
                  PaymentsStanding(r) - (IF r[p].status = "PAID" THEN r[p].amount ELSE 0)
                  + (IF q[p].status = "PAID" THEN q[p].amount ELSE 0)
           /\ PaymentsStanding(r) \in Int
<1>. DEFINE g == [x \in Payment |-> r[x].amount]
            h == [x \in Payment |-> q[x].amount]
<1>1. /\ g \in [Payment -> Int] /\ h \in [Payment -> Int]
      /\ \A x \in Payment \ {p} : h[x] = g[x]
      /\ g[p] = r[p].amount /\ h[p] = q[p].amount
  BY DEF PaymentRow
<1>2. ASSUME NEW s
      PROVE  /\ PaymentsOf(q, s) = PaymentsOf(r, s) - (IF r[p].session = s THEN r[p].amount ELSE 0)
                                + (IF q[p].session = s THEN q[p].amount ELSE 0)
             /\ PaymentsOf(r, s) \in Int
  <2>. DEFINE T == {x \in Payment : r[x].session = s}
              U == {x \in Payment : q[x].session = s}
  <2>1. /\ T \in SUBSET Payment /\ U \in SUBSET Payment
        /\ \A x \in Payment \ {p} : x \in T <=> x \in U
        /\ (p \in T <=> r[p].session = s) /\ (p \in U <=> q[p].session = s)
    OBVIOUS
  <2>2. PaymentsOf(q, s) = SumFunctionOnSet(h, U) /\ PaymentsOf(r, s) = SumFunctionOnSet(g, T)
    BY DEF PaymentsOf
  <2>. HIDE DEF g, h, T, U
  <2>3. QED
    BY <1>1, <2>1, <2>2, SumRows DEF Share
<1>3. /\ PaymentsStanding(q) =
             PaymentsStanding(r) - (IF r[p].status = "PAID" THEN r[p].amount ELSE 0)
             + (IF q[p].status = "PAID" THEN q[p].amount ELSE 0)
      /\ PaymentsStanding(r) \in Int
  <2>. DEFINE T == {x \in Payment : r[x].status = "PAID"}
              U == {x \in Payment : q[x].status = "PAID"}
  <2>1. /\ T \in SUBSET Payment /\ U \in SUBSET Payment
        /\ \A x \in Payment \ {p} : x \in T <=> x \in U
        /\ (p \in T <=> r[p].status = "PAID") /\ (p \in U <=> q[p].status = "PAID")
    OBVIOUS
  <2>2. PaymentsStanding(q) = SumFunctionOnSet(h, U) /\ PaymentsStanding(r) = SumFunctionOnSet(g, T)
    BY DEF PaymentsStanding
  <2>. HIDE DEF g, h, T, U
  <2>3. QED
    BY <1>1, <2>1, <2>2, SumRows DEF Share
<1>4. QED
  BY <1>2, <1>3


\* A row of receivables that changes.
LEMMA CollectedChanges ==
    ASSUME FiniteTables, NEW r \in [Account -> AccountRow], NEW a \in Account,
           NEW q, q \in [Account -> AccountRow], \A x \in Account \ {a} : q[x] = r[x]
    PROVE  /\ Collected(q) = Collected(r) - r[a].collected + q[a].collected
           /\ Collected(r) \in Int
<1>. DEFINE g == [x \in Account |-> r[x].collected]
            h == [x \in Account |-> q[x].collected]
<1>1. /\ g \in [Account -> Int] /\ h \in [Account -> Int]
      /\ \A x \in Account \ {a} : h[x] = g[x]
      /\ g[a] = r[a].collected /\ h[a] = q[a].collected
  BY DEF AccountRow
<1>2. IsFiniteSet(Account)
  BY FS_Union DEF FiniteTables, Account
<1>3. Collected(r) = SumFunction(g) /\ Collected(q) = SumFunction(h)
  BY DEF Collected
<1>. HIDE DEF g, h
<1>4. QED
  BY <1>1, <1>2, <1>3, SumTable

\* Receivables that have collected as much as before.
LEMMA CollectedSame ==
    ASSUME NEW r, NEW q, \A a \in Account : q[a].collected = r[a].collected
    PROVE  Collected(q) = Collected(r)
BY DEF Collected

\* What a movement adds to the drawers, and to the entries made by hand.
ToDrawers(type, amount) == IF type \in PositiveTypes THEN amount ELSE -amount
ToByHand(type, amount) ==
    IF type = "CASH_IN" THEN amount
    ELSE IF type \in {"WITHDRAWAL", "EXPENSE"} THEN -amount ELSE 0

LEMMA SessionMoves ==
    ASSUME NEW l \in [CashType -> Nat], NEW type \in CashType, NEW amount \in Nat,
           NEW m \in [CashType -> Nat], m[type] = l[type] + amount,
           \A c \in CashType \ {type} : m[c] = l[c]
    PROVE  /\ Net(m) = Net(l) + ToDrawers(type, amount)
           /\ Manual(m) = Manual(l) + ToByHand(type, amount)
           /\ Manual(l) \in Int
<1>1. \A c \in CashType : l[c] \in Nat /\ m[c] \in Nat
  OBVIOUS
<1>2. CashType = {"SALE_CASH_IN", "RECEIVABLE_CASH_IN", "CASH_IN", "CORRECTION_IN",
                  "THIRD_PARTY_CASH_OUT", "WITHDRAWAL", "CASH_OUT", "EXPENSE",
                  "CORRECTION_OUT"}
  BY DEF CashType, PositiveTypes, NegativeTypes
<1>3. QED
  BY <1>1, <1>2 DEF Net, Manual, ToDrawers, ToByHand, PositiveTypes

\* A movement that is posted.
LEMMA PostMoves ==
    ASSUME TypeOK, NEW s \in Session, NEW type \in CashType, NEW amount \in Nat,
           Post(s, type, amount)
    PROVE  /\ \A x \in Session, c \in CashType :
                  ledger'[x][c] = ledger[x][c] + (IF x = s /\ c = type THEN amount ELSE 0)
           /\ Received(ledger') =
                  Received(ledger) + (IF type = "RECEIVABLE_CASH_IN" THEN amount ELSE 0)
           /\ Drawers(ledger') = Drawers(ledger) + ToDrawers(type, amount)
           /\ ByHand(ledger') = ByHand(ledger) + ToByHand(type, amount)
           /\ Received(ledger) \in Int /\ Drawers(ledger) \in Int /\ ByHand(ledger) \in Int
<1>. DEFINE l == ledger[s]
            m == ledger'[s]
<1>1. l \in [CashType -> Nat] /\ m \in [CashType -> Nat]
  BY PostType DEF TypeOK
<1>2. /\ m[type] = l[type] + amount
      /\ \A c \in CashType \ {type} : m[c] = l[c]
      /\ \A x \in Session \ {s} : ledger'[x] = ledger[x]
  BY DEF Post, TypeOK
<1>3. /\ Net(m) = Net(l) + ToDrawers(type, amount) /\ Net(l) \in Int
      /\ Manual(m) = Manual(l) + ToByHand(type, amount) /\ Manual(l) \in Int
  <2>. HIDE DEF l, m
  <2>1. QED
    BY <1>1, <1>2, SessionMoves, NetType
<1>4. \A x \in Session, c \in CashType :
          ledger'[x][c] = ledger[x][c] + (IF x = s /\ c = type THEN amount ELSE 0)
  BY <1>2 DEF TypeOK
<1>5. IsFiniteSet(Session)
  BY ConstantsOK, FS_Interval DEF Session
<1>6. \A x \in Session : ledger[x] \in [CashType -> Nat] /\ ledger'[x] \in [CashType -> Nat]
  BY PostType DEF TypeOK
<1>7. /\ Received(ledger') =
             Received(ledger) + (IF type = "RECEIVABLE_CASH_IN" THEN amount ELSE 0)
      /\ Received(ledger) \in Int
  <2>. DEFINE g == [x \in Session |-> ledger[x]["RECEIVABLE_CASH_IN"]]
              h == [x \in Session |-> ledger'[x]["RECEIVABLE_CASH_IN"]]
  <2>1. "RECEIVABLE_CASH_IN" \in CashType
    BY DEF CashType, PositiveTypes
  <2>2. g \in [Session -> Int] /\ h \in [Session -> Int]
    BY <1>6, <2>1
  <2>3. /\ \A x \in Session \ {s} : h[x] = g[x]
        /\ h[s] = g[s] + (IF type = "RECEIVABLE_CASH_IN" THEN amount ELSE 0)
    BY <1>2, <1>4, <2>1
  <2>4. Received(ledger) = SumFunction(g) /\ Received(ledger') = SumFunction(h)
    BY DEF Received
  <2>. HIDE DEF g, h
  <2>5. SumFunction(h) = SumFunction(g) - g[s] + h[s] /\ SumFunction(g) \in Int
    BY <1>5, <2>2, <2>3, SumTable
  <2>6. g[s] \in Int /\ (IF type = "RECEIVABLE_CASH_IN" THEN amount ELSE 0) \in Int
    BY <2>2
  <2>7. QED
    BY <2>3, <2>4, <2>5, <2>6
<1>8. /\ Drawers(ledger') = Drawers(ledger) + ToDrawers(type, amount)
      /\ Drawers(ledger) \in Int
  <2>. DEFINE g == [x \in Session |-> Net(ledger[x])]
              h == [x \in Session |-> Net(ledger'[x])]
  <2>1. g \in [Session -> Int] /\ h \in [Session -> Int]
    BY <1>6, NetType
  <2>2. /\ \A x \in Session \ {s} : h[x] = g[x]
        /\ h[s] = g[s] + ToDrawers(type, amount)
    BY <1>2, <1>3
  <2>3. Drawers(ledger) = SumFunction(g) /\ Drawers(ledger') = SumFunction(h)
    BY DEF Drawers
  <2>. HIDE DEF g, h
  <2>4. SumFunction(h) = SumFunction(g) - g[s] + h[s] /\ SumFunction(g) \in Int
    BY <1>5, <2>1, <2>2, SumTable
  <2>5. g[s] \in Int /\ ToDrawers(type, amount) \in Int
    BY <2>1 DEF ToDrawers
  <2>6. QED
    BY <2>2, <2>3, <2>4, <2>5
<1>9. /\ ByHand(ledger') = ByHand(ledger) + ToByHand(type, amount)
      /\ ByHand(ledger) \in Int
  <2>. DEFINE g == [x \in Session |-> Manual(ledger[x])]
              h == [x \in Session |-> Manual(ledger'[x])]
  <2>1. g \in [Session -> Int] /\ h \in [Session -> Int]
    BY <1>6 DEF Manual, CashType, PositiveTypes, NegativeTypes
  <2>2. /\ \A x \in Session \ {s} : h[x] = g[x]
        /\ h[s] = g[s] + ToByHand(type, amount)
    BY <1>2, <1>3
  <2>3. ByHand(ledger) = SumFunction(g) /\ ByHand(ledger') = SumFunction(h)
    BY DEF ByHand
  <2>. HIDE DEF g, h
  <2>4. SumFunction(h) = SumFunction(g) - g[s] + h[s] /\ SumFunction(g) \in Int
    BY <1>5, <2>1, <2>2, SumTable
  <2>5. g[s] \in Int /\ ToByHand(type, amount) \in Int
    BY <2>1 DEF ToByHand
  <2>6. QED
    BY <2>2, <2>3, <2>4, <2>5
<1>10. QED
  BY <1>4, <1>7, <1>8, <1>9
-----------------------------------------------------------------------------
(* Every row has its movement, whatever transactions overlap.              *)

LEMMA LedgerIs ==
    /\ LedgerReconciles <=>
          /\ \A s \in Session : /\ ledger[s]["SALE_CASH_IN"] = SalesOf(sale, s)
                                /\ ledger[s]["THIRD_PARTY_CASH_OUT"] = PaymentsOf(payment, s)
          /\ Received(ledger) = Collected(account)
    /\ LedgerReconciles' <=>
          /\ \A s \in Session : /\ ledger'[s]["SALE_CASH_IN"] = SalesOf(sale', s)
                                /\ ledger'[s]["THIRD_PARTY_CASH_OUT"] = PaymentsOf(payment', s)
          /\ Received(ledger') = Collected(account')
BY DEF LedgerReconciles, SalesOf, PaymentsOf, Received, Collected

\* A sale or a payment is in a session once it exists, and only what exists is cancelled.
Booked ==
    /\ \A i \in Sale : sale[i].status = "NONE" <=> sale[i].session = 0
    /\ \A p \in Payment : payment[p].status = "NONE" <=> payment[p].session = 0
CancelsBooked ==
    \A w \in Worker :
        /\ txn[w].op = "cancelSale" => sale[txn[w].sale].status # "NONE"
        /\ txn[w].op = "cancelPayment" => payment[txn[w].payment].status # "NONE"

LedgerInv == LedgerReconciles /\ Booked /\ CancelsBooked

\* A step that books nothing.
Quiet ==
    /\ UNCHANGED <<ledger, sale, payment>>
    /\ \A a \in Account : account'[a].collected = account[a].collected

\* A row of sales that is written, with its movement.
SaleWritten(i, s, type, amount) ==
    /\ i \in Sale /\ s \in Session /\ type \in CashType /\ amount \in Nat
    /\ Post(s, type, amount)
    /\ \A j \in Sale \ {i} : sale'[j] = sale[j]
    /\ UNCHANGED payment
    /\ \A a \in Account : account'[a].collected = account[a].collected

\* A sale that is made.
SaleMade(i, s, amount) ==
    /\ SaleWritten(i, s, "SALE_CASH_IN", amount)
    /\ sale[i].status = "NONE"
    /\ sale'[i].status = "COMPLETED" /\ sale'[i].session = s /\ sale'[i].paid = amount

\* A sale that is cancelled.
SaleUndone(i, s) ==
    /\ SaleWritten(i, s, "CORRECTION_OUT", sale[i].paid)
    /\ sale[i].session = s
    /\ sale'[i].status = "CANCELLED" /\ sale'[i].session = s /\ sale'[i].paid = sale[i].paid

\* A payment of a receivable.
DebtPaid(a, s, amount) ==
    /\ a \in Account /\ s \in Session /\ amount \in Nat
    /\ Post(s, "RECEIVABLE_CASH_IN", amount)
    /\ UNCHANGED <<sale, payment>>
    /\ account'[a].collected = account[a].collected + amount
    /\ \A b \in Account \ {a} : account'[b] = account[b]

PaymentWritten(p, s, type, amount) ==
    /\ p \in Payment /\ s \in Session /\ type \in CashType /\ amount \in Nat
    /\ Post(s, type, amount)
    /\ \A x \in Payment \ {p} : payment'[x] = payment[x]
    /\ UNCHANGED <<sale, account>>

\* A third-party payment that is made, and one that is cancelled.
PaymentMade(p, s, amount) ==
    /\ PaymentWritten(p, s, "THIRD_PARTY_CASH_OUT", amount)
    /\ payment[p].status = "NONE"
    /\ payment'[p].status = "PAID" /\ payment'[p].session = s /\ payment'[p].amount = amount

PaymentUndone(p, s) ==
    /\ PaymentWritten(p, s, "CORRECTION_IN", payment[p].amount)
    /\ payment[p].session = s
    /\ payment'[p].status = "CANCELLED" /\ payment'[p].session = s
    /\ payment'[p].amount = payment[p].amount

\* An entry made by hand.
Entered(s, type, amount) ==
    /\ s \in Session /\ type \in ManualTypes /\ amount \in Nat
    /\ Post(s, type, amount)
    /\ UNCHANGED <<sale, account, payment>>

LEMMA SaleMakes ==
    ASSUME TypeOK, NEW w \in Worker, NEW i \in Sale, CommitSale(w, i)
    PROVE  SaleMade(i, txn[w].session, txn[w].paid)
<1>1. txn[w].session \in Session /\ txn[w].paid \in Nat /\ "SALE_CASH_IN" \in CashType
  BY TxnFields DEF CommitSale, CashType, PositiveTypes
<1>2. /\ sale[i].status = "NONE"
      /\ sale'[i].status = "COMPLETED" /\ sale'[i].session = txn[w].session
      /\ sale'[i].paid = txn[w].paid
      /\ \A j \in Sale \ {i} : sale'[j] = sale[j]
  BY DEF CommitSale, TypeOK, SaleRow
<1>3. \A a \in Account : account'[a].collected = account[a].collected
  <2>1. CASE UNCHANGED account
    BY <2>1
  <2>2. CASE NewAccount(i, txn[w].pending)
    BY <2>2 DEF NewAccount, TypeOK, AccountRow
  <2>3. QED
    BY <2>1, <2>2 DEF CommitSale
<1>4. QED
  BY <1>1, <1>2, <1>3 DEF SaleMade, SaleWritten, CommitSale

LEMMA CancelUndoes ==
    ASSUME TypeOK, NEW w \in Worker, CommitCancelSale(w),
           sale[txn[w].sale].session \in Session
    PROVE  SaleUndone(txn[w].sale, sale[txn[w].sale].session)
<1>. DEFINE i == txn[w].sale
<1>1. i \in Sale /\ sale[i] \in SaleRow /\ "CORRECTION_OUT" \in CashType
  BY TxnFields DEF CommitCancelSale, TypeOK, CashType, NegativeTypes
<1>2. /\ sale'[i].status = "CANCELLED" /\ sale'[i].session = sale[i].session
      /\ sale'[i].paid = sale[i].paid
      /\ \A j \in Sale \ {i} : sale'[j] = sale[j]
  BY <1>1 DEF CommitCancelSale, TypeOK, SaleRow
<1>3. \A a \in Account : account'[a].collected = account[a].collected
  BY DEF CommitCancelSale, TypeOK, AccountRow
<1>4. QED
  BY <1>1, <1>2, <1>3 DEF SaleUndone, SaleWritten, CommitCancelSale, SaleRow

LEMMA PayPays ==
    ASSUME TypeOK, NEW w \in Worker, CommitPay(w)
    PROVE  DebtPaid(txn[w].account, txn[w].session, txn[w].amount)
<1>1. /\ txn[w].account \in Account /\ txn[w].session \in Session
      /\ txn[w].amount \in Nat
  BY TxnFields DEF CommitPay
<1>2. account'[txn[w].account].collected = account[txn[w].account].collected + txn[w].amount
  BY <1>1 DEF CommitPay, TypeOK, AccountRow
<1>3. \A b \in Account \ {txn[w].account} : account'[b] = account[b]
  BY DEF CommitPay, TypeOK
<1>4. QED
  BY <1>1, <1>2, <1>3 DEF DebtPaid, CommitPay

LEMMA PaymentMakes ==
    ASSUME TypeOK, NEW w \in Worker, CommitCreatePayment(w)
    PROVE  \E p \in Payment : PaymentMade(p, txn[w].session, txn[w].amount)
<1>1. /\ txn[w].session \in Session /\ txn[w].amount \in Nat
      /\ "THIRD_PARTY_CASH_OUT" \in CashType
  BY TxnFields DEF CommitCreatePayment, CashType, NegativeTypes
<1>2. PICK p \in Payment :
          /\ payment[p].status = "NONE"
          /\ payment' = [payment EXCEPT ![p] =
                 [@ EXCEPT !.status = "PAID", !.session = txn[w].session,
                           !.amount = txn[w].amount]]
          /\ Post(txn[w].session, "THIRD_PARTY_CASH_OUT", txn[w].amount)
          /\ UNCHANGED <<session, sale, account>>
  BY DEF CommitCreatePayment
<1>3. /\ payment'[p].status = "PAID" /\ payment'[p].session = txn[w].session
      /\ payment'[p].amount = txn[w].amount
      /\ \A x \in Payment \ {p} : payment'[x] = payment[x]
  BY <1>2 DEF TypeOK, PaymentRow
<1>4. QED
  BY <1>1, <1>2, <1>3 DEF PaymentMade, PaymentWritten

LEMMA PaymentUndoes ==
    ASSUME TypeOK, NEW w \in Worker, CommitCancelPayment(w),
           payment[txn[w].payment].session \in Session
    PROVE  PaymentUndone(txn[w].payment, payment[txn[w].payment].session)
<1>. DEFINE p == txn[w].payment
<1>1. p \in Payment /\ payment[p] \in PaymentRow /\ "CORRECTION_IN" \in CashType
  BY TxnFields DEF CommitCancelPayment, TypeOK, CashType, PositiveTypes
<1>2. /\ payment'[p].status = "CANCELLED" /\ payment'[p].session = payment[p].session
      /\ payment'[p].amount = payment[p].amount
      /\ \A x \in Payment \ {p} : payment'[x] = payment[x]
  BY <1>1 DEF CommitCancelPayment, TypeOK, PaymentRow
<1>3. QED
  BY <1>1, <1>2 DEF PaymentUndone, PaymentWritten, CommitCancelPayment, PaymentRow

LEMMA MovementEnters ==
    ASSUME TypeOK, NEW w \in Worker, CommitCreateMovement(w)
    PROVE  Entered(txn[w].session, txn[w].type, txn[w].amount)
<1>1. txn[w].type \in ManualTypes
  BY DEF CommitCreateMovement, TypeOK, Txn, Idle
<1>2. QED
  BY <1>1, TxnFields DEF CommitCreateMovement, Entered

\* Which steps book something.
LEMMA BookSteps ==
    ASSUME TypeOK, [Next]_vars
    PROVE  \/ Quiet
           \/ \E w \in Worker :
                 \/ \E i \in Sale : CommitSale(w, i)
                 \/ CommitCancelSale(w) \/ CommitPay(w) \/ CommitCreatePayment(w)
                 \/ CommitCancelPayment(w) \/ CommitCreateMovement(w)
<1>1. ASSUME NEW w \in Worker, ReadStep(w) \/ Abort(w)
      PROVE  Quiet
  BY <1>1 DEF ReadStep, ReadOpenSession, ReadCloseSession, ReadSale, ReadCancelSale, ReadPay,
     ReadCancelAccount, ReadApprove, ReadCreatePayment, ReadCancelPayment,
     ReadCreateMovement, Abort, Tables, Quiet
<1>2. CASE CreateManualAccount
  BY <1>2 DEF CreateManualAccount, NewAccount, TypeOK, AccountRow, Quiet
<1>3. ASSUME NEW w \in Worker, CommitOpenSession(w) \/ CommitCloseSession(w)
      PROVE  Quiet
  BY <1>3 DEF CommitOpenSession, CommitCloseSession, Quiet
<1>4. ASSUME NEW w \in Worker, CommitCancelAccount(w) \/ CommitApprove(w)
      PROVE  Quiet
  BY <1>4 DEF CommitCancelAccount, CommitApprove, TypeOK, AccountRow, Quiet
<1>5. CASE UNCHANGED vars
  BY <1>5 DEF vars, Quiet
<1>6. QED
  BY <1>1, <1>2, <1>3, <1>4, <1>5, NextSteps DEF CommitStep

LEMMA InitLedger == FiniteTables /\ Init => LedgerInv
<1>. SUFFICES ASSUME FiniteTables, Init PROVE LedgerInv
  OBVIOUS
<1>1. Booked /\ CancelsBooked
  BY DEF Init, Booked, CancelsBooked, Idle
<1>2. ASSUME NEW s \in Session
      PROVE  /\ ledger[s]["SALE_CASH_IN"] = SalesOf(sale, s)
             /\ ledger[s]["THIRD_PARTY_CASH_OUT"] = PaymentsOf(payment, s)
  <2>1. s # 0
    BY ConstantsOK DEF Session
  <2>2. /\ {i \in Sale : sale[i].session = s} = {}
        /\ {p \in Payment : payment[p].session = s} = {}
    BY <2>1 DEF Init
  <2>3. SalesOf(sale, s) = 0 /\ PaymentsOf(payment, s) = 0
    BY <2>2, SumNone DEF SalesOf, PaymentsOf
  <2>4. QED
    BY <2>3 DEF Init, CashType, PositiveTypes, NegativeTypes
<1>3. Received(ledger) = 0
  <2>. DEFINE g == [s \in Session |-> ledger[s]["RECEIVABLE_CASH_IN"]]
  <2>1. IsFiniteSet(Session) /\ \A s \in Session : g[s] = 0
    BY ConstantsOK, FS_Interval DEF Session, Init, CashType, PositiveTypes
  <2>2. Received(ledger) = SumFunctionOnSet(g, Session)
    BY DEF Received, SumFunction
  <2>. HIDE DEF g
  <2>3. QED
    BY <2>1, <2>2, SumZero
<1>4. Collected(account) = 0
  <2>. DEFINE g == [a \in Account |-> account[a].collected]
  <2>1. IsFiniteSet(Account) /\ \A a \in Account : g[a] = 0
    BY FS_Union DEF FiniteTables, Account, Init
  <2>2. Collected(account) = SumFunctionOnSet(g, Account)
    BY DEF Collected, SumFunction
  <2>. HIDE DEF g
  <2>3. QED
    BY <2>1, <2>2, SumZero
<1>5. QED
  BY <1>1, <1>2, <1>3, <1>4, LedgerIs DEF LedgerInv

\* What every booking needs of the tables.
Books ==
    /\ FiniteTables
    /\ sale \in [Sale -> SaleRow] /\ sale' \in [Sale -> SaleRow]
    /\ account \in [Account -> AccountRow] /\ account' \in [Account -> AccountRow]
    /\ payment \in [Payment -> PaymentRow] /\ payment' \in [Payment -> PaymentRow]

LEMMA SaleReconciles ==
    ASSUME TypeOK, Books, LedgerReconciles, Booked, NEW i, NEW s, NEW amount,
           SaleMade(i, s, amount) \/ SaleUndone(i, s)
    PROVE  LedgerReconciles' /\ Booked'
<1>1. PICK type \in {"SALE_CASH_IN", "CORRECTION_OUT"}, m \in Nat :
          /\ SaleWritten(i, s, type, m)
          /\ type = "SALE_CASH_IN" => SaleMade(i, s, m)
          /\ type = "CORRECTION_OUT" => SaleUndone(i, s)
  BY DEF SaleMade, SaleUndone, SaleWritten
<1>2. /\ i \in Sale /\ s \in Session /\ s # 0 /\ m \in Nat /\ type \in CashType
      /\ Post(s, type, m) /\ payment' = payment
      /\ \A j \in Sale \ {i} : sale'[j] = sale[j]
      /\ Collected(account') = Collected(account)
  BY <1>1, CollectedSame, ConstantsOK DEF SaleWritten, Session
<1>3. /\ \A x \in Session, c \in CashType :
             ledger'[x][c] = ledger[x][c] + (IF x = s /\ c = type THEN m ELSE 0)
      /\ Received(ledger') = Received(ledger)
  <2>1. Received(ledger') = Received(ledger) + 0 /\ Received(ledger) \in Int
    BY <1>1, <1>2, PostMoves
  <2>2. QED
    BY <1>2, <2>1, PostMoves
<1>4. ASSUME NEW x \in Session
      PROVE  /\ SalesOf(sale', x) =
                    SalesOf(sale, x) + (IF x = s /\ type = "SALE_CASH_IN" THEN m ELSE 0)
             /\ SalesOf(sale, x) \in Int
  <2>1. /\ SalesOf(sale', x) =
               SalesOf(sale, x) - (IF sale[i].session = x THEN sale[i].paid ELSE 0)
               + (IF sale'[i].session = x THEN sale'[i].paid ELSE 0)
        /\ SalesOf(sale, x) \in Int
    BY <1>2, SalesChange DEF Books, FiniteTables
  <2>2. sale[i].paid \in Int /\ x # 0
    BY <1>2, ConstantsOK DEF Books, SaleRow, Session
  <2>3. CASE type = "SALE_CASH_IN"
    <3>1. /\ sale[i].session = 0 /\ sale'[i].session = s /\ sale'[i].paid = m
      BY <1>1, <1>2, <2>3 DEF SaleMade, Booked
    <3>2. QED
      BY <1>2, <2>1, <2>2, <2>3, <3>1
  <2>4. CASE type = "CORRECTION_OUT"
    <3>1. sale'[i].session = sale[i].session /\ sale'[i].paid = sale[i].paid
      BY <1>1, <2>4 DEF SaleUndone
    <3>2. QED
      BY <2>1, <2>2, <2>4, <3>1
  <2>5. QED
    BY <1>1, <2>3, <2>4
<1>5. ASSUME NEW x \in Session
      PROVE  /\ ledger'[x]["SALE_CASH_IN"] = SalesOf(sale', x)
             /\ ledger'[x]["THIRD_PARTY_CASH_OUT"] = PaymentsOf(payment', x)
  <2>1. /\ ledger[x]["SALE_CASH_IN"] = SalesOf(sale, x)
        /\ ledger[x]["THIRD_PARTY_CASH_OUT"] = PaymentsOf(payment, x)
    BY LedgerIs
  <2>2. "SALE_CASH_IN" \in CashType /\ "THIRD_PARTY_CASH_OUT" \in CashType
    BY DEF CashType, PositiveTypes, NegativeTypes
  <2>3. ledger[x]["THIRD_PARTY_CASH_OUT"] \in Int
    BY <2>2 DEF TypeOK
  <2>4. /\ ledger'[x]["SALE_CASH_IN"] =
               ledger[x]["SALE_CASH_IN"] + (IF x = s /\ type = "SALE_CASH_IN" THEN m ELSE 0)
        /\ ledger'[x]["THIRD_PARTY_CASH_OUT"] = ledger[x]["THIRD_PARTY_CASH_OUT"]
    BY <1>1, <1>3, <2>2, <2>3
  <2>5. QED
    BY <1>2, <1>4, <2>1, <2>4
<1>6. LedgerReconciles'
  BY <1>2, <1>3, <1>5, LedgerIs
<1>7. sale'[i].status # "NONE" /\ sale'[i].session # 0
  <2>1. CASE type = "SALE_CASH_IN"
    BY <1>1, <1>2, <2>1 DEF SaleMade
  <2>2. CASE type = "CORRECTION_OUT"
    BY <1>1, <1>2, <2>2 DEF SaleUndone
  <2>3. QED
    BY <1>1, <2>1, <2>2
<1>8. QED
  BY <1>2, <1>6, <1>7 DEF Booked

LEMMA PaymentReconciles ==
    ASSUME TypeOK, Books, LedgerReconciles, Booked, NEW p, NEW s, NEW amount,
           PaymentMade(p, s, amount) \/ PaymentUndone(p, s)
    PROVE  LedgerReconciles' /\ Booked'
<1>1. PICK type \in {"THIRD_PARTY_CASH_OUT", "CORRECTION_IN"}, m \in Nat :
          /\ PaymentWritten(p, s, type, m)
          /\ type = "THIRD_PARTY_CASH_OUT" => PaymentMade(p, s, m)
          /\ type = "CORRECTION_IN" => PaymentUndone(p, s)
  BY DEF PaymentMade, PaymentUndone, PaymentWritten
<1>2. /\ p \in Payment /\ s \in Session /\ s # 0 /\ m \in Nat /\ type \in CashType
      /\ Post(s, type, m) /\ sale' = sale /\ account' = account
      /\ \A x \in Payment \ {p} : payment'[x] = payment[x]
  BY <1>1, ConstantsOK DEF PaymentWritten, Session
<1>3. /\ \A x \in Session, c \in CashType :
             ledger'[x][c] = ledger[x][c] + (IF x = s /\ c = type THEN m ELSE 0)
      /\ Received(ledger') = Received(ledger)
  <2>1. Received(ledger') = Received(ledger) + 0 /\ Received(ledger) \in Int
    BY <1>1, <1>2, PostMoves
  <2>2. QED
    BY <1>2, <2>1, PostMoves
<1>4. ASSUME NEW x \in Session
      PROVE  /\ PaymentsOf(payment', x) =
                    PaymentsOf(payment, x)
                    + (IF x = s /\ type = "THIRD_PARTY_CASH_OUT" THEN m ELSE 0)
             /\ PaymentsOf(payment, x) \in Int
  <2>1. /\ PaymentsOf(payment', x) =
               PaymentsOf(payment, x) - (IF payment[p].session = x THEN payment[p].amount ELSE 0)
               + (IF payment'[p].session = x THEN payment'[p].amount ELSE 0)
        /\ PaymentsOf(payment, x) \in Int
    BY <1>2, PaymentsChange DEF Books, FiniteTables
  <2>2. payment[p].amount \in Int /\ x # 0
    BY <1>2, ConstantsOK DEF Books, PaymentRow, Session
  <2>3. CASE type = "THIRD_PARTY_CASH_OUT"
    <3>1. /\ payment[p].session = 0 /\ payment'[p].session = s /\ payment'[p].amount = m
      BY <1>1, <1>2, <2>3 DEF PaymentMade, Booked
    <3>2. QED
      BY <1>2, <2>1, <2>2, <2>3, <3>1
  <2>4. CASE type = "CORRECTION_IN"
    <3>1. payment'[p].session = payment[p].session /\ payment'[p].amount = payment[p].amount
      BY <1>1, <2>4 DEF PaymentUndone
    <3>2. QED
      BY <2>1, <2>2, <2>4, <3>1
  <2>5. QED
    BY <1>1, <2>3, <2>4
<1>5. ASSUME NEW x \in Session
      PROVE  /\ ledger'[x]["SALE_CASH_IN"] = SalesOf(sale', x)
             /\ ledger'[x]["THIRD_PARTY_CASH_OUT"] = PaymentsOf(payment', x)
  <2>1. /\ ledger[x]["SALE_CASH_IN"] = SalesOf(sale, x)
        /\ ledger[x]["THIRD_PARTY_CASH_OUT"] = PaymentsOf(payment, x)
    BY LedgerIs
  <2>2. "SALE_CASH_IN" \in CashType /\ "THIRD_PARTY_CASH_OUT" \in CashType
    BY DEF CashType, PositiveTypes, NegativeTypes
  <2>3. ledger[x]["SALE_CASH_IN"] \in Int
    BY <2>2 DEF TypeOK
  <2>4. /\ ledger'[x]["THIRD_PARTY_CASH_OUT"] =
               ledger[x]["THIRD_PARTY_CASH_OUT"]
               + (IF x = s /\ type = "THIRD_PARTY_CASH_OUT" THEN m ELSE 0)
        /\ ledger'[x]["SALE_CASH_IN"] = ledger[x]["SALE_CASH_IN"]
    BY <1>1, <1>3, <2>2, <2>3
  <2>5. QED
    BY <1>2, <1>4, <2>1, <2>4
<1>6. LedgerReconciles'
  BY <1>2, <1>3, <1>5, LedgerIs
<1>7. payment'[p].status # "NONE" /\ payment'[p].session # 0
  <2>1. CASE type = "THIRD_PARTY_CASH_OUT"
    BY <1>1, <1>2, <2>1 DEF PaymentMade
  <2>2. CASE type = "CORRECTION_IN"
    BY <1>1, <1>2, <2>2 DEF PaymentUndone
  <2>3. QED
    BY <1>1, <2>1, <2>2
<1>8. QED
  BY <1>2, <1>6, <1>7 DEF Booked

LEMMA PayReconciles ==
    ASSUME TypeOK, Books, LedgerReconciles, NEW a, NEW s, NEW amount, DebtPaid(a, s, amount)
    PROVE  LedgerReconciles'
<1>1. /\ a \in Account /\ s \in Session /\ amount \in Nat
      /\ "RECEIVABLE_CASH_IN" \in CashType
      /\ Post(s, "RECEIVABLE_CASH_IN", amount) /\ sale' = sale /\ payment' = payment
  BY DEF DebtPaid, CashType, PositiveTypes
<1>2. /\ Collected(account') =
             Collected(account) - account[a].collected + account'[a].collected
      /\ Collected(account) \in Int
      /\ account'[a].collected = account[a].collected + amount
      /\ account[a].collected \in Int
  BY <1>1, CollectedChanges DEF Books, DebtPaid, AccountRow
<1>3. Received(ledger') = Received(ledger) + amount
  BY <1>1, PostMoves
<1>4. ASSUME NEW x \in Session
      PROVE  /\ ledger'[x]["SALE_CASH_IN"] = ledger[x]["SALE_CASH_IN"]
             /\ ledger'[x]["THIRD_PARTY_CASH_OUT"] = ledger[x]["THIRD_PARTY_CASH_OUT"]
  <2>1. "SALE_CASH_IN" \in CashType /\ "THIRD_PARTY_CASH_OUT" \in CashType
    BY DEF CashType, PositiveTypes, NegativeTypes
  <2>2. ledger[x]["SALE_CASH_IN"] \in Int /\ ledger[x]["THIRD_PARTY_CASH_OUT"] \in Int
    BY <2>1 DEF TypeOK
  <2>3. QED
    BY <1>1, <2>1, <2>2, PostMoves
<1>5. QED
  BY <1>1, <1>2, <1>3, <1>4, LedgerIs

LEMMA EntryReconciles ==
    ASSUME TypeOK, LedgerReconciles, NEW s, NEW type, NEW amount, Entered(s, type, amount)
    PROVE  LedgerReconciles'
<1>1. /\ s \in Session /\ type \in CashType /\ amount \in Nat /\ Post(s, type, amount)
      /\ type \notin {"SALE_CASH_IN", "THIRD_PARTY_CASH_OUT", "RECEIVABLE_CASH_IN"}
      /\ sale' = sale /\ payment' = payment /\ account' = account
  BY DEF Entered, ManualTypes, CashType, PositiveTypes, NegativeTypes
<1>2. Received(ledger') = Received(ledger) + 0 /\ Received(ledger) \in Int
  BY <1>1, PostMoves
<1>3. ASSUME NEW x \in Session
      PROVE  /\ ledger'[x]["SALE_CASH_IN"] = ledger[x]["SALE_CASH_IN"]
             /\ ledger'[x]["THIRD_PARTY_CASH_OUT"] = ledger[x]["THIRD_PARTY_CASH_OUT"]
  <2>1. "SALE_CASH_IN" \in CashType /\ "THIRD_PARTY_CASH_OUT" \in CashType
    BY DEF CashType, PositiveTypes, NegativeTypes
  <2>2. ledger[x]["SALE_CASH_IN"] \in Int /\ ledger[x]["THIRD_PARTY_CASH_OUT"] \in Int
    BY <2>1 DEF TypeOK
  <2>3. QED
    BY <1>1, <2>1, <2>2, PostMoves
<1>4. QED
  BY <1>1, <1>2, <1>3, LedgerIs

\* No step undoes a sale or a payment altogether.
BookedStays ==
    /\ \A i \in Sale : sale[i].status # "NONE" => sale'[i].status # "NONE"
    /\ \A p \in Payment : payment[p].status # "NONE" => payment'[p].status # "NONE"

\* What a cancellation in flight has read stays booked.
LEMMA NextCancelsBooked ==
    ASSUME TypeOK, TypeOK', CancelsBooked, [Next]_vars
    PROVE  CancelsBooked'
<1>1. ASSUME NEW w \in Worker, CommitStep(w) \/ Abort(w)
      PROVE  /\ txn'[w] = Idle
             /\ \A v \in Worker \ {w} : txn'[v] = txn[v]
  <2>1. Done(w)
    BY <1>1, CommitDone DEF Abort
  <2>2. QED
    BY <2>1 DEF Done, TypeOK
<1>2. BookedStays
  <2>1. CASE Quiet
    BY <2>1 DEF Quiet, BookedStays
  <2>2. ASSUME NEW w \in Worker, NEW i \in Sale, CommitSale(w, i)
        PROVE  BookedStays
    BY <2>2 DEF CommitSale, TypeOK, SaleRow, BookedStays
  <2>3. ASSUME NEW w \in Worker, CommitCancelSale(w)
        PROVE  BookedStays
    BY <2>3 DEF CommitCancelSale, TypeOK, SaleRow, BookedStays
  <2>4. ASSUME NEW w \in Worker, CommitPay(w) \/ CommitCreateMovement(w)
        PROVE  BookedStays
    BY <2>4 DEF CommitPay, CommitCreateMovement, BookedStays
  <2>5. ASSUME NEW w \in Worker, CommitCreatePayment(w)
        PROVE  BookedStays
    BY <2>5 DEF CommitCreatePayment, TypeOK, PaymentRow, BookedStays
  <2>6. ASSUME NEW w \in Worker, CommitCancelPayment(w)
        PROVE  BookedStays
    BY <2>6 DEF CommitCancelPayment, TypeOK, PaymentRow, BookedStays
  <2>7. QED
    BY <2>1, <2>2, <2>3, <2>4, <2>5, <2>6, BookSteps
<1>3. \A w \in Worker :
          /\ txn[w].op = "cancelSale" =>
                txn[w].sale \in Sale /\ sale'[txn[w].sale].status # "NONE"
          /\ txn[w].op = "cancelPayment" =>
                txn[w].payment \in Payment /\ payment'[txn[w].payment].status # "NONE"
  BY <1>2, TxnFields DEF CancelsBooked, BookedStays
<1>4. ASSUME NEW w \in Worker, CommitStep(w) \/ Abort(w)
      PROVE  CancelsBooked'
  BY <1>1, <1>3, <1>4 DEF CancelsBooked, Idle
<1>5. CASE CreateManualAccount \/ UNCHANGED vars
  BY <1>3, <1>5 DEF CreateManualAccount, vars, CancelsBooked
<1>6. ASSUME NEW w \in Worker, NEW t, Begin(w, t),
             t.op = "cancelSale" => sale'[t.sale].status # "NONE",
             t.op = "cancelPayment" => payment'[t.payment].status # "NONE"
      PROVE  CancelsBooked'
  <2>1. txn'[w] = t /\ \A v \in Worker \ {w} : txn'[v] = txn[v]
    BY <1>6 DEF Begin, TypeOK
  <2>2. QED
    BY <1>3, <1>6, <2>1 DEF CancelsBooked
<1>7. ASSUME NEW w \in Worker, ReadStep(w)
      PROVE  CancelsBooked'
  <2>1. CASE \E t : Begin(w, t) /\ t.op \notin {"cancelSale", "cancelPayment"}
    BY <1>6, <2>1
  <2>2. CASE \E i \in Sale : ReadCancelSale(w, i)
    BY <1>2, <1>6, <2>2 DEF ReadCancelSale, BookedStays
  <2>3. CASE ReadCancelPayment(w)
    BY <1>2, <1>6, <2>3 DEF ReadCancelPayment, BookedStays
  <2>4. CASE ReadOpenSession(w)
    BY <2>1, <2>4 DEF ReadOpenSession
  <2>5. CASE ReadCloseSession(w)
    BY <2>1, <2>5 DEF ReadCloseSession
  <2>6. CASE ReadSale(w)
    BY <2>1, <2>6 DEF ReadSale
  <2>7. CASE ReadPay(w)
    BY <2>1, <2>7 DEF ReadPay
  <2>8. CASE ReadCancelAccount(w)
    BY <2>1, <2>8 DEF ReadCancelAccount
  <2>9. CASE ReadApprove(w)
    BY <2>1, <2>9 DEF ReadApprove
  <2>10. CASE ReadCreatePayment(w)
    BY <2>1, <2>10 DEF ReadCreatePayment
  <2>11. CASE ReadCreateMovement(w)
    BY <2>1, <2>11 DEF ReadCreateMovement
  <2>12. QED
    BY <1>7, <2>2, <2>3, <2>4, <2>5, <2>6, <2>7, <2>8, <2>9, <2>10, <2>11 DEF ReadStep
<1>8. QED
  BY <1>4, <1>5, <1>7, NextSteps

LEMMA NextLedger ==
    ASSUME FiniteTables, TypeOK, TypeOK', LedgerInv, [Next]_vars
    PROVE  LedgerInv'
<1>1. Books /\ LedgerReconciles /\ Booked /\ CancelsBooked
  BY DEF Books, TypeOK, LedgerInv
<1>2. CancelsBooked'
  BY <1>1, NextCancelsBooked
<1>3. CASE Quiet
  <2>1. Collected(account') = Collected(account)
    BY <1>3, CollectedSame DEF Quiet
  <2>2. ledger' = ledger /\ sale' = sale /\ payment' = payment
    BY <1>3 DEF Quiet
  <2>3. QED
    BY <1>1, <1>2, <2>1, <2>2, LedgerIs DEF LedgerInv, Booked
<1>4. ASSUME NEW w \in Worker, NEW i \in Sale, CommitSale(w, i)
      PROVE  LedgerInv'
  BY <1>1, <1>2, <1>4, SaleMakes, SaleReconciles DEF LedgerInv
<1>5. ASSUME NEW w \in Worker, CommitCancelSale(w)
      PROVE  LedgerInv'
  <2>1. txn[w].op = "cancelSale"
    BY <1>5 DEF CommitCancelSale
  <2>2. txn[w].sale \in Sale
    BY <2>1, TxnFields
  <2>3. sale[txn[w].sale].session \in Session \cup {0}
    BY <1>1, <2>2 DEF Books, SaleRow
  <2>4. sale[txn[w].sale].status # "NONE"
    BY <1>1, <2>1 DEF CancelsBooked
  <2>5. sale[txn[w].sale].session \in Session
    BY <1>1, <2>2, <2>3, <2>4 DEF Booked
  <2>6. QED
    BY <1>1, <1>2, <1>5, <2>2, <2>5, CancelUndoes, SaleReconciles DEF LedgerInv
<1>6. ASSUME NEW w \in Worker, CommitPay(w)
      PROVE  LedgerInv'
  <2>1. DebtPaid(txn[w].account, txn[w].session, txn[w].amount)
    BY <1>6, PayPays
  <2>2. QED
    BY <1>1, <1>2, <2>1, PayReconciles DEF LedgerInv, Booked, DebtPaid
<1>7. ASSUME NEW w \in Worker, CommitCreatePayment(w)
      PROVE  LedgerInv'
  BY <1>1, <1>2, <1>7, PaymentMakes, PaymentReconciles DEF LedgerInv
<1>8. ASSUME NEW w \in Worker, CommitCancelPayment(w)
      PROVE  LedgerInv'
  <2>1. txn[w].op = "cancelPayment"
    BY <1>8 DEF CommitCancelPayment
  <2>2. txn[w].payment \in Payment
    BY <2>1, TxnFields
  <2>3. payment[txn[w].payment].session \in Session \cup {0}
    BY <1>1, <2>2 DEF Books, PaymentRow
  <2>4. payment[txn[w].payment].status # "NONE"
    BY <1>1, <2>1 DEF CancelsBooked
  <2>5. payment[txn[w].payment].session \in Session
    BY <1>1, <2>2, <2>3, <2>4 DEF Booked
  <2>6. QED
    BY <1>1, <1>2, <1>8, <2>2, <2>5, PaymentUndoes, PaymentReconciles DEF LedgerInv
<1>9. ASSUME NEW w \in Worker, CommitCreateMovement(w)
      PROVE  LedgerInv'
  <2>1. Entered(txn[w].session, txn[w].type, txn[w].amount)
    BY <1>9, MovementEnters
  <2>2. QED
    BY <1>1, <1>2, <2>1, EntryReconciles DEF LedgerInv, Booked, Entered
<1>10. QED
  BY <1>3, <1>4, <1>5, <1>6, <1>7, <1>8, <1>9, BookSteps

\* Whatever transactions overlap or are rolled back, every sale and every
\* third-party payment has its cash movement in its session, and the receivables
\* have collected what the drawers received for them.
THEOREM TablesReconcile ==
    ASSUME FiniteTables
    PROVE  Spec => []LedgerReconciles
<1>1. Init => TypeOK /\ LedgerInv
  BY InitTypeOK, InitLedger
<1>2. TypeOK /\ LedgerInv /\ [Next]_vars => (TypeOK /\ LedgerInv)'
  BY NextTypeOK, NextLedger
<1>3. LedgerInv => LedgerReconciles
  BY DEF LedgerInv
<1>4. QED
  BY <1>1, <1>2, <1>3, PTL DEF Spec
-----------------------------------------------------------------------------
(* The cash in the drawers, when requests do not overlap.                  *)

NoCorrections == EntryType \cap {"CORRECTION_IN", "CORRECTION_OUT"} = {}

\* What stands explains the drawers: the sum of CashExplained, by name.
Explained(l, sa, ac, pa) ==
    Drawers(l) = SalesStanding(sa) + Collected(ac) - PaymentsStanding(pa) + ByHand(l)

LEMMA CashIs ==
    /\ CashExplained <=> Explained(ledger, sale, account, payment)
    /\ CashExplained' <=> Explained(ledger', sale', account', payment')
BY DEF CashExplained, Explained, Drawers, SalesStanding, Collected, PaymentsStanding, ByHand,
   Manual

\* What the request in flight has read still stands.
CancelsStanding ==
    \A w \in Worker :
        /\ txn[w].op = "cancelSale" => sale[txn[w].sale].status = "COMPLETED"
        /\ txn[w].op = "cancelPayment" => payment[txn[w].payment].status = "PAID"
        /\ txn[w].op = "createMovement" => txn[w].type \in EntryType

CashInv == LedgerInv /\ CashExplained /\ CancelsStanding

LEMMA FiniteDesk ==
    ASSUME FiniteTables
    PROVE  IsFiniteSet(Session) /\ IsFiniteSet(Account)
<1>1. IsFiniteSet(Session)
  BY ConstantsOK, FS_Interval DEF Session
<1>2. IsFiniteSet(Account)
  BY FS_Union DEF FiniteTables, Account
<1>3. QED
  BY <1>1, <1>2

LEMMA InitCash == FiniteTables /\ Init => CashInv
<1>. SUFFICES ASSUME FiniteTables, Init PROVE CashInv
  OBVIOUS
<1>1. LedgerInv /\ CancelsStanding
  BY InitLedger DEF Init, CancelsStanding, Idle
<1>2. IsFiniteSet(Session) /\ IsFiniteSet(Account)
  BY FiniteDesk
<1>3. Drawers(ledger) = 0
  <2>. DEFINE g == [s \in Session |-> Net(ledger[s])]
  <2>1. \A s \in Session : g[s] = 0
    BY DEF Init, Net, CashType, PositiveTypes, NegativeTypes
  <2>2. Drawers(ledger) = SumFunctionOnSet(g, Session)
    BY DEF Drawers, SumFunction
  <2>. HIDE DEF g
  <2>3. QED
    BY <1>2, <2>1, <2>2, SumZero
<1>4. ByHand(ledger) = 0
  <2>. DEFINE g == [s \in Session |-> Manual(ledger[s])]
  <2>1. \A s \in Session : g[s] = 0
    BY DEF Init, Manual, CashType, PositiveTypes, NegativeTypes
  <2>2. ByHand(ledger) = SumFunctionOnSet(g, Session)
    BY DEF ByHand, SumFunction
  <2>. HIDE DEF g
  <2>3. QED
    BY <1>2, <2>1, <2>2, SumZero
<1>5. Collected(account) = 0
  <2>. DEFINE g == [a \in Account |-> account[a].collected]
  <2>1. \A a \in Account : g[a] = 0
    BY DEF Init
  <2>2. Collected(account) = SumFunctionOnSet(g, Account)
    BY DEF Collected, SumFunction
  <2>. HIDE DEF g
  <2>3. QED
    BY <1>2, <2>1, <2>2, SumZero
<1>6. SalesStanding(sale) = 0 /\ PaymentsStanding(payment) = 0
  <2>1. /\ {i \in Sale : sale[i].status = "COMPLETED"} = {}
        /\ {p \in Payment : payment[p].status = "PAID"} = {}
    BY DEF Init
  <2>2. QED
    BY <2>1, SumNone DEF SalesStanding, PaymentsStanding
<1>7. Explained(ledger, sale, account, payment)
  BY <1>3, <1>4, <1>5, <1>6 DEF Explained
<1>8. QED
  BY <1>1, <1>7, CashIs DEF CashInv

\* All these sums are integers.
LEMMA SumsTyped ==
    ASSUME TypeOK, FiniteTables
    PROVE  /\ SalesStanding(sale) \in Int /\ PaymentsStanding(payment) \in Int
           /\ Collected(account) \in Int /\ ByHand(ledger) \in Int
<1>1. SalesStanding(sale) \in Int
  <2>. DEFINE g == [i \in Sale |-> sale[i].paid]
              T == {i \in Sale : sale[i].status = "COMPLETED"}
  <2>1. IsFiniteSet(T) /\ \A i \in T : g[i] \in Int
    BY FS_Subset DEF FiniteTables, TypeOK, SaleRow
  <2>. HIDE DEF g, T
  <2>2. SumFunctionOnSet(g, T) \in Int
    BY <2>1, SumType
  <2>3. QED
    BY <2>2 DEF SalesStanding, g, T
<1>2. PaymentsStanding(payment) \in Int
  <2>. DEFINE g == [p \in Payment |-> payment[p].amount]
              T == {p \in Payment : payment[p].status = "PAID"}
  <2>1. IsFiniteSet(T) /\ \A p \in T : g[p] \in Int
    BY FS_Subset DEF FiniteTables, TypeOK, PaymentRow
  <2>. HIDE DEF g, T
  <2>2. SumFunctionOnSet(g, T) \in Int
    BY <2>1, SumType
  <2>3. QED
    BY <2>2 DEF PaymentsStanding, g, T
<1>3. Collected(account) \in Int
  <2>. DEFINE g == [a \in Account |-> account[a].collected]
  <2>1. \A a \in Account : g[a] \in Int
    BY DEF TypeOK, AccountRow
  <2>2. Collected(account) = SumFunctionOnSet(g, Account)
    BY DEF Collected, SumFunction
  <2>. HIDE DEF g
  <2>3. QED
    BY <2>1, <2>2, FiniteDesk, SumType
<1>4. ByHand(ledger) \in Int
  <2>. DEFINE g == [s \in Session |-> Manual(ledger[s])]
  <2>1. \A s \in Session : ledger[s] \in [CashType -> Nat]
    BY DEF TypeOK
  <2>2. \A s \in Session : g[s] \in Int
    BY <2>1 DEF Manual, CashType, PositiveTypes, NegativeTypes
  <2>3. ByHand(ledger) = SumFunctionOnSet(g, Session)
    BY DEF ByHand, SumFunction
  <2>. HIDE DEF g
  <2>4. QED
    BY <2>2, <2>3, FiniteDesk, SumType
<1>5. QED
  BY <1>1, <1>2, <1>3, <1>4

LEMMA SaleExplained ==
    ASSUME TypeOK, Books, CashExplained, NEW i, NEW s, NEW amount,
           SaleMade(i, s, amount) \/ (SaleUndone(i, s) /\ sale[i].status = "COMPLETED")
    PROVE  CashExplained'
<1>1. PICK type \in {"SALE_CASH_IN", "CORRECTION_OUT"}, m \in Nat :
          /\ SaleWritten(i, s, type, m)
          /\ type = "SALE_CASH_IN" => SaleMade(i, s, m)
          /\ type = "CORRECTION_OUT" =>
                SaleUndone(i, s) /\ sale[i].status = "COMPLETED" /\ m = sale[i].paid
  BY DEF SaleMade, SaleUndone, SaleWritten
<1>2. /\ i \in Sale /\ s \in Session /\ type \in CashType
      /\ Post(s, type, m) /\ payment' = payment
      /\ \A j \in Sale \ {i} : sale'[j] = sale[j]
      /\ Collected(account') = Collected(account)
  BY <1>1, CollectedSame DEF SaleWritten
<1>. DEFINE net == IF type = "SALE_CASH_IN" THEN m ELSE -m
<1>3. /\ Drawers(ledger') = Drawers(ledger) + net /\ ByHand(ledger') = ByHand(ledger)
  <2>1. ToDrawers(type, m) = net /\ ToByHand(type, m) = 0
    BY <1>1 DEF ToDrawers, ToByHand, PositiveTypes
  <2>2. /\ Drawers(ledger') = Drawers(ledger) + ToDrawers(type, m)
        /\ ByHand(ledger') = ByHand(ledger) + ToByHand(type, m)
        /\ ByHand(ledger) \in Int
    BY <1>2, PostMoves
  <2>3. QED
    BY <2>1, <2>2
<1>4. SalesStanding(sale') = SalesStanding(sale) + net
  <2>1. /\ SalesStanding(sale') =
               SalesStanding(sale) - (IF sale[i].status = "COMPLETED" THEN sale[i].paid ELSE 0)
               + (IF sale'[i].status = "COMPLETED" THEN sale'[i].paid ELSE 0)
        /\ SalesStanding(sale) \in Int
    BY <1>2, SalesChange DEF Books, FiniteTables
  <2>2. CASE type = "SALE_CASH_IN"
    BY <1>1, <2>1, <2>2 DEF SaleMade
  <2>3. CASE type = "CORRECTION_OUT"
    BY <1>1, <2>1, <2>3 DEF SaleUndone
  <2>4. QED
    BY <1>1, <2>2, <2>3
<1>5. net \in Int
  BY <1>1
<1>6. Explained(ledger, sale, account, payment)
  BY CashIs
<1>. HIDE DEF net
<1>7. Explained(ledger', sale', account', payment')
  BY <1>2, <1>3, <1>4, <1>5, <1>6, SumsTyped DEF Explained, Books
<1>8. QED
  BY <1>7, CashIs

LEMMA PaymentExplained ==
    ASSUME TypeOK, Books, CashExplained, NEW p, NEW s, NEW amount,
           PaymentMade(p, s, amount) \/ (PaymentUndone(p, s) /\ payment[p].status = "PAID")
    PROVE  CashExplained'
<1>1. PICK type \in {"THIRD_PARTY_CASH_OUT", "CORRECTION_IN"}, m \in Nat :
          /\ PaymentWritten(p, s, type, m)
          /\ type = "THIRD_PARTY_CASH_OUT" => PaymentMade(p, s, m)
          /\ type = "CORRECTION_IN" =>
                PaymentUndone(p, s) /\ payment[p].status = "PAID" /\ m = payment[p].amount
  BY DEF PaymentMade, PaymentUndone, PaymentWritten
<1>2. /\ p \in Payment /\ s \in Session /\ type \in CashType
      /\ Post(s, type, m) /\ sale' = sale /\ account' = account
      /\ \A x \in Payment \ {p} : payment'[x] = payment[x]
  BY <1>1 DEF PaymentWritten
<1>. DEFINE net == IF type = "THIRD_PARTY_CASH_OUT" THEN m ELSE -m
<1>3. /\ Drawers(ledger') = Drawers(ledger) - net /\ ByHand(ledger') = ByHand(ledger)
  <2>1. ToDrawers(type, m) = -net /\ ToByHand(type, m) = 0
    BY <1>1 DEF ToDrawers, ToByHand, PositiveTypes
  <2>2. /\ Drawers(ledger') = Drawers(ledger) + ToDrawers(type, m)
        /\ ByHand(ledger') = ByHand(ledger) + ToByHand(type, m)
        /\ ByHand(ledger) \in Int /\ Drawers(ledger) \in Int
    BY <1>2, PostMoves
  <2>3. net \in Int
    OBVIOUS
  <2>. HIDE DEF net
  <2>4. QED
    BY <2>1, <2>2, <2>3
<1>4. PaymentsStanding(payment') = PaymentsStanding(payment) + net
  <2>1. /\ PaymentsStanding(payment') =
               PaymentsStanding(payment)
               - (IF payment[p].status = "PAID" THEN payment[p].amount ELSE 0)
               + (IF payment'[p].status = "PAID" THEN payment'[p].amount ELSE 0)
        /\ PaymentsStanding(payment) \in Int
    BY <1>2, PaymentsChange DEF Books, FiniteTables
  <2>2. CASE type = "THIRD_PARTY_CASH_OUT"
    BY <1>1, <2>1, <2>2 DEF PaymentMade
  <2>3. CASE type = "CORRECTION_IN"
    BY <1>1, <2>1, <2>3 DEF PaymentUndone
  <2>4. QED
    BY <1>1, <2>2, <2>3
<1>5. net \in Int
  BY <1>1
<1>6. Explained(ledger, sale, account, payment)
  BY CashIs
<1>. HIDE DEF net
<1>7. Explained(ledger', sale', account', payment')
  BY <1>2, <1>3, <1>4, <1>5, <1>6, SumsTyped DEF Explained, Books
<1>8. QED
  BY <1>7, CashIs

LEMMA PayExplained ==
    ASSUME TypeOK, Books, CashExplained, NEW a, NEW s, NEW amount, DebtPaid(a, s, amount)
    PROVE  CashExplained'
<1>1. /\ a \in Account /\ s \in Session /\ amount \in Nat
      /\ "RECEIVABLE_CASH_IN" \in CashType
      /\ Post(s, "RECEIVABLE_CASH_IN", amount) /\ sale' = sale /\ payment' = payment
  BY DEF DebtPaid, CashType, PositiveTypes
<1>2. /\ Collected(account') =
             Collected(account) - account[a].collected + account'[a].collected
      /\ account'[a].collected = account[a].collected + amount
      /\ account[a].collected \in Int
  BY <1>1, CollectedChanges DEF Books, DebtPaid, AccountRow
<1>3. /\ Drawers(ledger') = Drawers(ledger) + amount /\ ByHand(ledger') = ByHand(ledger) + 0
  BY <1>1, PostMoves DEF ToDrawers, ToByHand, PositiveTypes
<1>4. Explained(ledger, sale, account, payment)
  BY CashIs
<1>5. Explained(ledger', sale', account', payment')
  BY <1>1, <1>2, <1>3, <1>4, SumsTyped DEF Explained, Books
<1>6. QED
  BY <1>5, CashIs

LEMMA EntryExplained ==
    ASSUME NoCorrections, FiniteTables, TypeOK, CashExplained, NEW s, NEW type \in EntryType,
           NEW amount, Entered(s, type, amount)
    PROVE  CashExplained'
<1>1. /\ s \in Session /\ type \in CashType /\ amount \in Nat /\ Post(s, type, amount)
      /\ type \in {"CASH_IN", "WITHDRAWAL", "EXPENSE"}
      /\ sale' = sale /\ payment' = payment /\ account' = account
  BY DEF Entered, NoCorrections, ManualTypes, CashType, PositiveTypes, NegativeTypes
<1>2. ToByHand(type, amount) = ToDrawers(type, amount) /\ ToByHand(type, amount) \in Int
  BY <1>1 DEF ToByHand, ToDrawers, PositiveTypes
<1>3. /\ Drawers(ledger') = Drawers(ledger) + ToDrawers(type, amount)
      /\ ByHand(ledger') = ByHand(ledger) + ToByHand(type, amount)
  BY <1>1, PostMoves
<1>4. Explained(ledger, sale, account, payment)
  BY CashIs
<1>5. Explained(ledger', sale', account', payment')
  BY <1>1, <1>2, <1>3, <1>4, SumsTyped DEF Explained
<1>6. QED
  BY <1>5, CashIs

LEMMA NextCancelsStanding ==
    ASSUME OneWorker, TypeOK, CancelsStanding, [Next]_vars
    PROVE  CancelsStanding'
<1>1. ASSUME NEW w \in Worker, CommitStep(w) \/ Abort(w)
      PROVE  CancelsStanding'
  <2>1. Done(w)
    BY <1>1, CommitDone DEF Abort
  <2>2. \A v \in Worker : txn'[v] = Idle
    BY <2>1 DEF Done, TypeOK, OneWorker
  <2>3. QED
    BY <2>2 DEF CancelsStanding, Idle
<1>2. CASE CreateManualAccount \/ UNCHANGED vars
  BY <1>2 DEF CreateManualAccount, vars, CancelsStanding
<1>3. ASSUME NEW w \in Worker, NEW t, Begin(w, t), UNCHANGED Tables,
             t.op = "cancelSale" => sale[t.sale].status = "COMPLETED",
             t.op = "cancelPayment" => payment[t.payment].status = "PAID",
             t.op = "createMovement" => t.type \in EntryType
      PROVE  CancelsStanding'
  <2>1. \A v \in Worker : txn'[v] = t
    BY <1>3 DEF Begin, TypeOK, OneWorker
  <2>2. QED
    BY <1>3, <2>1 DEF CancelsStanding, Tables
<1>4. ASSUME NEW w \in Worker, ReadStep(w)
      PROVE  CancelsStanding'
  <2>1. CASE \E t : /\ Begin(w, t) /\ UNCHANGED Tables
                    /\ t.op \notin {"cancelSale", "cancelPayment", "createMovement"}
    BY <1>3, <2>1
  <2>2. CASE \E i \in Sale : ReadCancelSale(w, i)
    BY <1>3, <2>2 DEF ReadCancelSale
  <2>3. CASE ReadCancelPayment(w)
    BY <1>3, <2>3 DEF ReadCancelPayment
  <2>4. CASE ReadCreateMovement(w)
    BY <1>3, <2>4 DEF ReadCreateMovement
  <2>5. CASE ReadOpenSession(w)
    BY <2>1, <2>5 DEF ReadOpenSession
  <2>6. CASE ReadCloseSession(w)
    BY <2>1, <2>6 DEF ReadCloseSession
  <2>7. CASE ReadSale(w)
    BY <2>1, <2>7 DEF ReadSale
  <2>8. CASE ReadPay(w)
    BY <2>1, <2>8 DEF ReadPay
  <2>9. CASE ReadCancelAccount(w)
    BY <2>1, <2>9 DEF ReadCancelAccount
  <2>10. CASE ReadApprove(w)
    BY <2>1, <2>10 DEF ReadApprove
  <2>11. CASE ReadCreatePayment(w)
    BY <2>1, <2>11 DEF ReadCreatePayment
  <2>12. QED
    BY <1>4, <2>2, <2>3, <2>4, <2>5, <2>6, <2>7, <2>8, <2>9, <2>10, <2>11 DEF ReadStep
<1>5. QED
  BY <1>1, <1>2, <1>4, NextSteps

LEMMA NextCash ==
    ASSUME NoCorrections, OneWorker, FiniteTables, TypeOK, TypeOK', CashInv, [Next]_vars
    PROVE  CashInv'
<1>1. /\ Books /\ Booked /\ CancelsBooked /\ CashExplained /\ CancelsStanding
      /\ LedgerInv' /\ CancelsStanding'
  BY NextLedger, NextCancelsStanding DEF Books, TypeOK, CashInv, LedgerInv
<1>2. CASE Quiet
  <2>1. Collected(account') = Collected(account)
    BY <1>2, CollectedSame DEF Quiet
  <2>2. ledger' = ledger /\ sale' = sale /\ payment' = payment
    BY <1>2 DEF Quiet
  <2>3. QED
    BY <1>1, <2>1, <2>2, CashIs DEF CashInv, Explained
<1>3. ASSUME NEW w \in Worker, NEW i \in Sale, CommitSale(w, i)
      PROVE  CashInv'
  BY <1>1, <1>3, SaleMakes, SaleExplained DEF CashInv
<1>4. ASSUME NEW w \in Worker, CommitCancelSale(w)
      PROVE  CashInv'
  <2>1. /\ txn[w].sale \in Sale /\ sale[txn[w].sale].session \in Session
        /\ sale[txn[w].sale].status = "COMPLETED"
    BY <1>1, <1>4, TxnFields DEF CommitCancelSale, CancelsStanding, Booked, Books, SaleRow
  <2>2. QED
    BY <1>1, <1>4, <2>1, CancelUndoes, SaleExplained DEF CashInv
<1>5. ASSUME NEW w \in Worker, CommitPay(w)
      PROVE  CashInv'
  BY <1>1, <1>5, PayPays, PayExplained DEF CashInv
<1>6. ASSUME NEW w \in Worker, CommitCreatePayment(w)
      PROVE  CashInv'
  BY <1>1, <1>6, PaymentMakes, PaymentExplained DEF CashInv
<1>7. ASSUME NEW w \in Worker, CommitCancelPayment(w)
      PROVE  CashInv'
  <2>1. /\ txn[w].payment \in Payment /\ payment[txn[w].payment].session \in Session
        /\ payment[txn[w].payment].status = "PAID"
    BY <1>1, <1>7, TxnFields DEF CommitCancelPayment, CancelsStanding, Booked, Books,
       PaymentRow
  <2>2. QED
    BY <1>1, <1>7, <2>1, PaymentUndoes, PaymentExplained DEF CashInv
<1>8. ASSUME NEW w \in Worker, CommitCreateMovement(w)
      PROVE  CashInv'
  <2>1. /\ Entered(txn[w].session, txn[w].type, txn[w].amount)
        /\ txn[w].type \in EntryType
    BY <1>1, <1>8, MovementEnters DEF CommitCreateMovement, CancelsStanding
  <2>2. QED
    BY <1>1, <2>1, EntryExplained DEF CashInv
<1>9. QED
  BY <1>2, <1>3, <1>4, <1>5, <1>6, <1>7, <1>8, BookSteps

\* When requests do not overlap, what stands explains all the cash in the drawers:
\* sales, receivables collected, third-party payments and entries made by hand.
THEOREM CashIsExplained ==
    ASSUME NoCorrections, OneWorker, FiniteTables
    PROVE  Spec => []CashExplained
<1>1. Init => TypeOK /\ CashInv
  BY InitTypeOK, InitCash
<1>2. TypeOK /\ CashInv /\ [Next]_vars => (TypeOK /\ CashInv)'
  BY NextTypeOK, NextCash
<1>3. CashInv => CashExplained
  BY DEF CashInv
<1>4. QED
  BY <1>1, <1>2, <1>3, PTL DEF Spec
=============================================================================
