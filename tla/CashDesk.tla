------------------------------ MODULE CashDesk ------------------------------
(***************************************************************************)
(* The cash side of the point of sale: drawer sessions, the cash movements *)
(* posted to them, sales (their money), receivables and third-party        *)
(* payments, with every handler of pos.service.ts, cash.service.ts,        *)
(* receivables.service.ts and third-party-payments.service.ts that writes  *)
(* one of these tables.                                                    *)
(*                                                                         *)
(* A handler runs in one database transaction at the default isolation     *)
(* level (READ COMMITTED) and performs its reads before its first write.   *)
(* It is two actions here: Read... takes the reads, evaluates the guards   *)
(* and keeps what was read in txn[w]; Commit... makes all its writes       *)
(* visible at once.  Between the two any other worker may commit.  A       *)
(* request a guard refuses changes nothing, so it is not a step.           *)
(*                                                                         *)
(* Amounts are whole cents.  The rows of cash_movements are kept as their  *)
(* total per session and type, the rows of receivable_payments as their    *)
(* total per account, and the correction rows of a sale or of a payment as *)
(* their total, which is all that any handler reads of them.               *)
(***************************************************************************)
EXTENDS Integers, FiniteSetsExt, InFlight

CONSTANTS
    User, NoUser,    \* cashiers; the null of a nullable user column
    Sale,            \* ids of sales
    ManualAccount,   \* ids of receivables created by hand
    Payment,         \* ids of third-party payments
    MaxSession,      \* bound: number of drawer sessions
    Amount,          \* amounts of the sales, payments and entries requested
    Opening,         \* amounts a drawer may be opened with
    Counted,         \* wrong counts a drawer may be closed with
    Approver,        \* users who approve receivables
    EntryType,       \* types of manual movement the requests use
    LedgerCap,       \* bound: total of one type of manual entry per session
    AllowCashDiscrepancyClose, RequireCashDiscrepancyReason  \* tenant settings

Session == 1..MaxSession          \* numbered by openedAt
Account == Sale \cup ManualAccount  \* the receivable of a sale has its id

PositiveTypes == {"SALE_CASH_IN", "RECEIVABLE_CASH_IN", "CASH_IN", "CORRECTION_IN"}
NegativeTypes ==
    {"THIRD_PARTY_CASH_OUT", "WITHDRAWAL", "CASH_OUT", "EXPENSE", "CORRECTION_OUT"}
CashType == PositiveTypes \cup NegativeTypes
ManualTypes == {"CASH_IN", "WITHDRAWAL", "EXPENSE", "CORRECTION_IN", "CORRECTION_OUT"}

ASSUME ConstantsOK ==
    /\ MaxSession \in Nat
    /\ NoUser \notin User
    /\ Amount \subseteq Nat
    /\ Opening \subseteq Nat
    /\ Counted \subseteq Nat
    /\ Approver \subseteq User
    /\ Sale \cap ManualAccount = {}
    /\ EntryType \subseteq ManualTypes
    /\ LedgerCap \in Nat
    /\ AllowCashDiscrepancyClose \in BOOLEAN
    /\ RequireCashDiscrepancyReason \in BOOLEAN

VARIABLES
    session,   \* pos_sessions
    ledger,    \* cash_movements, total per session and type
    sale,      \* sales; returned: the CORRECTION_OUT rows of the sale
    account,   \* receivables; collected: the rows of receivable_payments
    payment    \* third_party_payments; corrected: its CORRECTION_IN rows

vars == <<session, ledger, sale, account, payment, txn>>
-----------------------------------------------------------------------------
SessionRow ==
    [status : {"NONE", "OPEN", "CLOSED"}, owner : User \cup {NoUser},
     opening : Nat, expected : Int, closing : Nat]
SaleRow ==
    [status : {"NONE", "COMPLETED", "CANCELLED"}, session : Session \cup {0},
     paid : Nat, pending : Nat, returned : Nat]
AccountRow ==
    [status : {"NONE", "OPEN", "PARTIALLY_PAID", "PAID", "CANCELLED"},
     original : Nat, paid : Nat, outstanding : Nat, collected : Nat,
     approvedBy : User \cup {NoUser}]
PaymentRow ==
    [status : {"NONE", "PAID", "CANCELLED"}, session : Session \cup {0},
     amount : Nat, corrected : Nat]

Idle == [op |-> "idle"]
Txn ==
    {Idle}
    \cup [op : {"openSession"}, user : User, opening : Nat]
    \cup [op : {"closeSession"}, session : Session, expected : Int, closing : Nat]
    \cup [op : {"createSale"}, session : Session, paid : Nat, pending : Nat]
    \cup [op : {"cancelSale"}, sale : Sale, voidsAccount : BOOLEAN]
    \cup [op : {"pay"}, account : Account, session : Session, amount : Nat,
          paid : Nat, outstanding : Nat]
    \cup [op : {"cancelAccount"}, account : Account]
    \cup [op : {"approve"}, account : Account, user : User]
    \cup [op : {"createPayment"}, session : Session, amount : Nat]
    \cup [op : {"cancelPayment"}, payment : Payment]
    \cup [op : {"createMovement"}, session : Session, type : ManualTypes, amount : Nat]

TypeOK ==
    /\ session \in [Session -> SessionRow]
    /\ ledger \in [Session -> [CashType -> Nat]]
    /\ sale \in [Sale -> SaleRow]
    /\ account \in [Account -> AccountRow]
    /\ payment \in [Payment -> PaymentRow]
    /\ txn \in [Worker -> Txn]

Init ==
    /\ session = [s \in Session |->
           [status |-> "NONE", owner |-> NoUser, opening |-> 0, expected |-> 0, closing |-> 0]]
    /\ ledger = [s \in Session |-> [c \in CashType |-> 0]]
    /\ sale = [i \in Sale |->
           [status |-> "NONE", session |-> 0, paid |-> 0, pending |-> 0, returned |-> 0]]
    /\ account = [a \in Account |->
           [status |-> "NONE", original |-> 0, paid |-> 0, outstanding |-> 0,
            collected |-> 0, approvedBy |-> NoUser]]
    /\ payment = [p \in Payment |->
           [status |-> "NONE", session |-> 0, amount |-> 0, corrected |-> 0]]
    /\ txn = [w \in Worker |-> Idle]
-----------------------------------------------------------------------------
OpenSessions(u) == {s \in Session : session[s].status = "OPEN" /\ session[s].owner = u}

\* (mutant) the status filter forgotten.
LatestOfUser(u) ==
    {s \in Session : /\ session[s].owner = u
                     /\ \A t \in Session : session[t].owner = u => t <= s}

\* findFirst with orderBy openedAt desc: the latest open session of the user.
LatestOpen(u) == {s \in OpenSessions(u) : \A t \in OpenSessions(u) : t <= s}

\* sumCashMovements: what the movements of a session add to the drawer.
Net(l) ==
    l["SALE_CASH_IN"] + l["RECEIVABLE_CASH_IN"] + l["CASH_IN"] + l["CORRECTION_IN"]
    - l["THIRD_PARTY_CASH_OUT"] - l["WITHDRAWAL"] - l["CASH_OUT"] - l["EXPENSE"]
    - l["CORRECTION_OUT"]

\* cashMovement.create
Post(s, type, amount) == ledger' = [ledger EXCEPT ![s][type] = @ + amount]

Begin(w, t) == txn[w] = Idle /\ txn' = [txn EXCEPT ![w] = t]
Done(w) == txn' = [txn EXCEPT ![w] = Idle]
Tables == <<session, ledger, sale, account, payment>>

\* The transaction is rolled back: lost connection, timeout, crash of the server.
Abort(w) == txn[w] # Idle /\ Done(w) /\ UNCHANGED Tables
-----------------------------------------------------------------------------
(* Drawer sessions: PosService.openSession, PosService.closeSession.       *)

\* (mutant) the search for an open session forgotten.
ReadOpenUnchecked(w) ==
    \E u \in User, opening \in Opening :
        /\ Begin(w, [op |-> "openSession", user |-> u, opening |-> opening])
        /\ UNCHANGED Tables

ReadOpenSession(w) ==
    \E u \in User, opening \in Opening :
        /\ OpenSessions(u) = {}
        /\ Begin(w, [op |-> "openSession", user |-> u, opening |-> opening])
        /\ UNCHANGED Tables

CommitOpenSession(w) ==
    \E s \in Session :
        /\ txn[w].op = "openSession"
        /\ session[s].status = "NONE"
        /\ \A t \in 1..(s - 1) : session[t].status # "NONE"
        /\ session' = [session EXCEPT ![s] =
               [@ EXCEPT !.status = "OPEN", !.owner = txn[w].user,
                         !.opening = txn[w].opening]]
        /\ Done(w)
        /\ UNCHANGED <<ledger, sale, account, payment>>

\* A count that differs from the expectation is accepted only under the
\* tenant's settings; given: the request states a reason.
MayClose(difference, given) ==
    difference # 0 =>
        /\ AllowCashDiscrepancyClose
        /\ RequireCashDiscrepancyReason => given

\* (mutant) the opening float left out of the expectation.
ReadCloseNoFloat(w) ==
    \E s \in Session :
        /\ session[s].status = "OPEN"
        /\ Net(ledger[s]) >= 0
        /\ Begin(w, [op |-> "closeSession", session |-> s,
                     expected |-> Net(ledger[s]), closing |-> Net(ledger[s])])
        /\ UNCHANGED Tables

ReadCloseSession(w) ==
    \E s \in Session, given \in BOOLEAN :
        LET expected == session[s].opening + Net(ledger[s]) IN
        \E closing \in {c \in Counted \cup {expected} : c >= 0} :
            /\ session[s].status = "OPEN"
            /\ MayClose(closing - expected, given)
            /\ Begin(w, [op |-> "closeSession", session |-> s,
                         expected |-> expected, closing |-> closing])
            /\ UNCHANGED Tables

CommitCloseSession(w) ==
    LET t == txn[w] IN
    /\ t.op = "closeSession"
    /\ session' = [session EXCEPT ![t.session] =
           [@ EXCEPT !.status = "CLOSED", !.expected = t.expected, !.closing = t.closing]]
    /\ Done(w)
    /\ UNCHANGED <<ledger, sale, account, payment>>
-----------------------------------------------------------------------------
(* Sales: PosService.createSale and PosService.cancelSale (their money).   *)

\* Splits a total into what is paid now and what is left pending.
AmountPaid(cash, total) == IF cash < total THEN cash ELSE total
AmountPending(cash, total) == IF cash < total THEN total - cash ELSE 0

ReadSale(w) ==
    \E u \in User, total \in Amount, cash \in Amount \cup {0} :
        \E s \in OpenSessions(u) :
            /\ Begin(w, [op |-> "createSale", session |-> s,
                         paid |-> AmountPaid(cash, total),
                         pending |-> AmountPending(cash, total)])
            /\ UNCHANGED Tables

NewAccount(a, amount) ==
    account' = [account EXCEPT ![a] =
        [@ EXCEPT !.status = "OPEN", !.original = amount, !.outstanding = amount]]

\* (mutant) the cash movement takes the total instead of the amount paid.
CommitSaleTotal(w, i) ==
    LET t == txn[w] IN
    /\ t.op = "createSale"
    /\ sale[i].status = "NONE"
    /\ sale' = [sale EXCEPT ![i] =
           [@ EXCEPT !.status = "COMPLETED", !.session = t.session, !.paid = t.paid,
                     !.pending = t.pending]]
    /\ IF t.pending > 0 THEN NewAccount(i, t.pending) ELSE UNCHANGED account
    /\ Post(t.session, "SALE_CASH_IN", t.paid + t.pending)
    /\ Done(w)
    /\ UNCHANGED <<session, payment>>

CommitSale(w, i) ==
    LET t == txn[w] IN
    /\ t.op = "createSale"
    /\ sale[i].status = "NONE"
    /\ sale' = [sale EXCEPT ![i] =
           [@ EXCEPT !.status = "COMPLETED", !.session = t.session, !.paid = t.paid,
                     !.pending = t.pending]]
    /\ IF t.pending > 0 THEN NewAccount(i, t.pending) ELSE UNCHANGED account
    /\ Post(t.session, "SALE_CASH_IN", t.paid)
    /\ Done(w)
    /\ UNCHANGED <<session, payment>>

\* (mutant) a cancelled sale is not refused.
ReadCancelAgain(w, i) ==
    /\ sale[i].status # "NONE"
    /\ Begin(w, [op |-> "cancelSale", sale |-> i,
                 voidsAccount |-> account[i].status \notin {"NONE", "CANCELLED"}])
    /\ UNCHANGED Tables

ReadCancelSale(w, i) ==
    /\ sale[i].status = "COMPLETED"
    /\ Begin(w, [op |-> "cancelSale", sale |-> i,
                 voidsAccount |-> account[i].status \notin {"NONE", "CANCELLED"}])
    /\ UNCHANGED Tables

\* (mutant) the correction movement is not written.
CommitCancelNoReturn(w) ==
    /\ txn[w].op = "cancelSale"
    /\ sale' = [sale EXCEPT ![txn[w].sale].status = "CANCELLED"]
    /\ account' = IF txn[w].voidsAccount
                  THEN [account EXCEPT ![txn[w].sale].status = "CANCELLED"] ELSE account
    /\ Done(w)
    /\ UNCHANGED <<session, ledger, payment>>

CommitCancelSale(w) ==
    LET t == txn[w] IN
    /\ t.op = "cancelSale"
    /\ sale' = [sale EXCEPT ![t.sale] =
           [@ EXCEPT !.status = "CANCELLED",
                     !.returned = sale[t.sale].returned + sale[t.sale].paid]]
    /\ account' = IF t.voidsAccount
                  THEN [account EXCEPT ![t.sale].status = "CANCELLED"] ELSE account
    /\ Post(sale[t.sale].session, "CORRECTION_OUT", sale[t.sale].paid)
    /\ Done(w)
    /\ UNCHANGED <<session, payment>>
-----------------------------------------------------------------------------
(* Receivables: ReceivablesService.createManual, pay, cancel, approve.     *)

\* One INSERT outside any explicit transaction.
CreateManualAccount ==
    \E a \in ManualAccount, amount \in Amount :
        /\ account[a].status = "NONE"
        /\ NewAccount(a, amount)
        /\ UNCHANGED <<session, ledger, sale, payment, txn>>

\* (mutant) only a paid account refuses payments.
PayableUnlessPaid(a) == account[a].status \notin {"NONE", "PAID"}

Payable(a) == account[a].status \in {"OPEN", "PARTIALLY_PAID"}

\* (mutant) the amount is not compared with what is outstanding.
ReadPayAnyAmount(w) ==
    \E u \in User, a \in Account, amount \in Amount \ {0} :
        \E s \in LatestOpen(u) :
            /\ Payable(a)
            /\ Begin(w, [op |-> "pay", account |-> a, session |-> s, amount |-> amount,
                         paid |-> account[a].paid + amount,
                         outstanding |-> account[a].outstanding - amount])
            /\ UNCHANGED Tables

ReadPay(w) ==
    \E u \in User, a \in Account, amount \in Amount \ {0} :
        \E s \in LatestOpen(u) :
            /\ Payable(a)
            /\ amount <= account[a].outstanding
            /\ Begin(w, [op |-> "pay", account |-> a, session |-> s, amount |-> amount,
                         paid |-> account[a].paid + amount,
                         outstanding |-> account[a].outstanding - amount])
            /\ UNCHANGED Tables

\* (mutant) the row of the payment is not written.
CommitPayNoRow(w) ==
    LET t == txn[w] IN
    /\ t.op = "pay"
    /\ account' = [account EXCEPT ![t.account] =
           [@ EXCEPT !.paid = t.paid, !.outstanding = t.outstanding,
                     !.status = IF t.outstanding = 0 THEN "PAID" ELSE "PARTIALLY_PAID"]]
    /\ Post(t.session, "RECEIVABLE_CASH_IN", t.amount)
    /\ Done(w)
    /\ UNCHANGED <<session, sale, payment>>

\* (mutant) paid is incremented in the database, outstanding still absolute.
CommitPayMixed(w) ==
    LET t == txn[w] IN
    /\ t.op = "pay"
    /\ account' = [account EXCEPT ![t.account] =
           [@ EXCEPT !.paid = account[t.account].paid + t.amount, !.outstanding = t.outstanding,
                     !.status = IF t.outstanding = 0 THEN "PAID" ELSE "PARTIALLY_PAID",
                     !.collected = account[t.account].collected + t.amount]]
    /\ Post(t.session, "RECEIVABLE_CASH_IN", t.amount)
    /\ Done(w)
    /\ UNCHANGED <<session, sale, payment>>

CommitPay(w) ==
    LET t == txn[w] IN
    /\ t.op = "pay"
    /\ account' = [account EXCEPT ![t.account] =
           [@ EXCEPT !.paid = t.paid, !.outstanding = t.outstanding,
                     !.status = IF t.outstanding = 0 THEN "PAID" ELSE "PARTIALLY_PAID",
                     !.collected = account[t.account].collected + t.amount]]
    /\ Post(t.session, "RECEIVABLE_CASH_IN", t.amount)
    /\ Done(w)
    /\ UNCHANGED <<session, sale, payment>>

ReadCancelAccount(w) ==
    \E a \in Account :
        /\ Payable(a)
        /\ Begin(w, [op |-> "cancelAccount", account |-> a])
        /\ UNCHANGED Tables

CommitCancelAccount(w) ==
    /\ txn[w].op = "cancelAccount"
    /\ account' = [account EXCEPT ![txn[w].account].status = "CANCELLED"]
    /\ Done(w)
    /\ UNCHANGED <<session, ledger, sale, payment>>

ReadApprove(w) ==
    \E u \in Approver, a \in Account :
        /\ account[a].status # "NONE"
        /\ account[a].approvedBy = NoUser
        /\ Begin(w, [op |-> "approve", account |-> a, user |-> u])
        /\ UNCHANGED Tables

CommitApprove(w) ==
    /\ txn[w].op = "approve"
    /\ account' = [account EXCEPT ![txn[w].account].approvedBy = txn[w].user]
    /\ Done(w)
    /\ UNCHANGED <<session, ledger, sale, payment>>
-----------------------------------------------------------------------------
(* Third-party payments: ThirdPartyPaymentsService.create, cancel; and     *)
(* manual movements: CashService.createMovement.                           *)

ReadCreatePayment(w) ==
    \E u \in User, amount \in Amount \ {0} :
        \E s \in LatestOpen(u) :
            /\ Begin(w, [op |-> "createPayment", session |-> s, amount |-> amount])
            /\ UNCHANGED Tables

CommitCreatePayment(w) ==
    \E p \in Payment :
        /\ txn[w].op = "createPayment"
        /\ payment[p].status = "NONE"
        /\ payment' = [payment EXCEPT ![p] =
               [@ EXCEPT !.status = "PAID", !.session = txn[w].session,
                         !.amount = txn[w].amount]]
        /\ Post(txn[w].session, "THIRD_PARTY_CASH_OUT", txn[w].amount)
        /\ Done(w)
        /\ UNCHANGED <<session, sale, account>>

\* (mutant) a cancelled payment is not refused.
ReadCancelPaymentAgain(w) ==
    \E p \in Payment :
        /\ payment[p].status # "NONE"
        /\ Begin(w, [op |-> "cancelPayment", payment |-> p])
        /\ UNCHANGED Tables

ReadCancelPayment(w) ==
    \E p \in Payment :
        /\ payment[p].status = "PAID"
        /\ Begin(w, [op |-> "cancelPayment", payment |-> p])
        /\ UNCHANGED Tables

CommitCancelPayment(w) ==
    LET p == txn[w].payment IN
    /\ txn[w].op = "cancelPayment"
    /\ payment' = [payment EXCEPT ![p] =
           [@ EXCEPT !.status = "CANCELLED",
                     !.corrected = payment[p].corrected + payment[p].amount]]
    /\ Post(payment[p].session, "CORRECTION_IN", payment[p].amount)
    /\ Done(w)
    /\ UNCHANGED <<session, sale, account>>

ReadCreateMovement(w) ==
    \E u \in User, type \in EntryType, amount \in Amount \ {0} :
        \E s \in LatestOpen(u) :
            /\ Begin(w, [op |-> "createMovement", session |-> s, type |-> type,
                         amount |-> amount])
            /\ UNCHANGED Tables

CommitCreateMovement(w) ==
    LET t == txn[w] IN
    /\ t.op = "createMovement"
    /\ ledger[t.session][t.type] + t.amount <= LedgerCap   \* bound
    /\ Post(t.session, t.type, t.amount)
    /\ Done(w)
    /\ UNCHANGED <<session, sale, account, payment>>
-----------------------------------------------------------------------------
Next ==
    \/ CreateManualAccount
    \/ \E w \in Worker :
        \/ ReadOpenSession(w)    \/ CommitOpenSession(w)
        \/ ReadCloseSession(w)   \/ CommitCloseSession(w)
        \/ ReadSale(w)           \/ \E i \in Sale : CommitSale(w, i)
        \/ CommitCancelSale(w)   \/ \E i \in Sale : ReadCancelSale(w, i)
        \/ ReadPay(w)            \/ CommitPay(w)
        \/ ReadCancelAccount(w)  \/ CommitCancelAccount(w)
        \/ ReadApprove(w)        \/ CommitApprove(w)
        \/ ReadCreatePayment(w)  \/ CommitCreatePayment(w)
        \/ ReadCancelPayment(w)  \/ CommitCancelPayment(w)
        \/ ReadCreateMovement(w) \/ CommitCreateMovement(w)
        \/ Abort(w)

Spec == Init /\ [][Next]_vars
-----------------------------------------------------------------------------
(* Properties that hold whatever the interleaving of the transactions.     *)

\* The books of a receivable balance: paid and outstanding always add up to
\* the original debt, nothing is left of a PAID one and something is left of
\* a PARTIALLY_PAID one, although pay() writes absolute amounts it computed
\* from an earlier read (receivables.service.ts:302-335).
AccountBalanced ==
    \A a \in Account :
        /\ account[a].paid + account[a].outstanding = account[a].original
        /\ account[a].status = "PAID" => account[a].outstanding = 0
        /\ account[a].status = "PARTIALLY_PAID" => account[a].outstanding > 0
        /\ account[a].status = "OPEN" => account[a].paid = 0

\* A receivable never shows more paid than the payments received for it: the
\* member is never credited with money that is not in a drawer.
PaidIsBacked == \A a \in Account : account[a].paid <= account[a].collected

\* What a payment or a cancellation in flight has read of its receivable still
\* holds when it commits, as far as the books need it: the debt is the one it
\* split, and other payments have only added to what was collected; a sale that
\* does not exist has no receivable (receivables.service.ts:247-335).
ReadsStand ==
    /\ \A i \in Sale : sale[i].status = "NONE" => account[i].status = "NONE"
    /\ \A a \in Account : account[a].status = "NONE" => account[a].paid = 0
    /\ \A w \in Worker :
        /\ txn[w].op = "cancelAccount" => account[txn[w].account].status # "NONE"
        /\ txn[w].op = "pay" =>
            LET a == txn[w].account IN
            /\ account[a].status # "NONE"
            /\ txn[w].paid + txn[w].outstanding = account[a].original
            /\ txn[w].paid <= account[a].collected + txn[w].amount

\* The money of a sale leaves the drawer exactly when the sale is cancelled:
\* no correction without a cancellation, and no cancellation without one.
CancelledSaleReturned ==
    \A i \in Sale :
        /\ sale[i].status = "CANCELLED" => sale[i].returned >= sale[i].paid
        /\ sale[i].status # "CANCELLED" => sale[i].returned = 0

\* Every sale and payment row of a session has its cash movement in that
\* session, and every receivable payment has one in some session: the tables
\* written by one handler never disagree, whichever transactions roll back.
LedgerReconciles ==
    /\ \A s \in Session :
        /\ ledger[s]["SALE_CASH_IN"] =
             SumFunctionOnSet([i \in Sale |-> sale[i].paid],
                              {i \in Sale : sale[i].session = s})
        /\ ledger[s]["THIRD_PARTY_CASH_OUT"] =
             SumFunctionOnSet([p \in Payment |-> payment[p].amount],
                              {p \in Payment : payment[p].session = s})
    /\ SumFunction([s \in Session |-> ledger[s]["RECEIVABLE_CASH_IN"]]) =
         SumFunction([a \in Account |-> account[a].collected])
-----------------------------------------------------------------------------
(* Properties that hold when requests do not overlap (one worker).         *)

\* A cashier never has two drawers open (pos.service.ts:54-64).
OneOpenSession == \A u \in User : Cardinality(OpenSessions(u)) <= 1

\* The payments received for a receivable never exceed the debt, and its paid
\* amount is exactly what was received (receivables.service.ts:279-304).
CollectedWithinDebt ==
    \A a \in Account :
        /\ account[a].collected <= account[a].original
        /\ account[a].collected = account[a].paid

\* A cancellation returns the money of its sale once (pos.service.ts:933-994).
CancelReturnsOnce == \A i \in Sale : sale[i].returned <= sale[i].paid

\* All the cash posted to the drawers is explained by live rows: completed
\* sales, payments received, third-party payments that stand, and manual
\* entries (stated for runs whose manual entries are not corrections).
CashExplained ==
    SumFunction([s \in Session |-> Net(ledger[s])]) =
        SumFunctionOnSet([i \in Sale |-> sale[i].paid],
                         {i \in Sale : sale[i].status = "COMPLETED"})
        + SumFunction([a \in Account |-> account[a].collected])
        - SumFunctionOnSet([p \in Payment |-> payment[p].amount],
                           {p \in Payment : payment[p].status = "PAID"})
        + SumFunction([s \in Session |-> ledger[s]["CASH_IN"] - ledger[s]["WITHDRAWAL"]
                                             - ledger[s]["EXPENSE"]])

\* A closed drawer is final: its figures never change again, it is not
\* reopened, and only corrections (of a cancelled sale or payment) are still
\* posted to it (pos.service.ts:157-164, 980-994).
ClosedStands ==
    \A s \in Session : session[s].status = "CLOSED" =>
        /\ session'[s] = session[s]
        /\ \A c \in CashType \ {"CORRECTION_IN", "CORRECTION_OUT"} :
              ledger'[s][c] = ledger[s][c]

ClosedIsFinal == [][ClosedStands]_vars

\* The expectation written at closing counts every movement the drawer holds
\* at that moment (pos.service.ts:170-184).
ClosingCounts ==
    \A s \in Session :
        session[s].status = "OPEN" /\ session'[s].status = "CLOSED" =>
            session'[s].expected = session[s].opening + Net(ledger[s])

CloseCountsAll == [][ClosingCounts]_vars

\* A receivable that has ended stays so: one that was cancelled takes no payment
\* and is never revived, and one that was paid in full is only voided by the
\* cancellation of its sale (receivables.service.ts:269-274, 444-451,
\* pos.service.ts:973-978).
EndedStands ==
    \A a \in Account :
        /\ account[a].status = "CANCELLED" =>
              /\ account'[a].status = "CANCELLED"
              /\ account'[a].collected = account[a].collected
        /\ account[a].status = "PAID" /\ account'[a].status # "PAID" =>
              a \in Sale /\ sale'[a].status = "CANCELLED"

EndedIsFinal == [][EndedStands]_vars

\* A cashier has one drawer at a time, and what is over stays as it was: closed drawers
\* with the figures they were counted by, debts that were paid or cancelled
\* (pos.service.ts:54-64, 157-184; receivables.service.ts:269-274).
DeskInOrder == []OneOpenSession /\ ClosedIsFinal /\ CloseCountsAll /\ EndedIsFinal
=============================================================================
