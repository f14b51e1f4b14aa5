------------------------------- MODULE Billing -------------------------------
(***************************************************************************)
(* What the platform's administrators do with the clubs that rent it       *)
(* (platform.service.ts): tenants, their subscriptions, invoices and       *)
(* payments, the invoices of the month, and the suspension of those that   *)
(* do not pay, which runs unawaited behind every call of getSummary.       *)
(*                                                                         *)
(* Neither the monthly invoices nor the suspensions are a transaction:     *)
(* they work through what they read at their start, one row at a time, and *)
(* a crash leaves the rest undone.  The number of an invoice is computed   *)
(* from what is already there, on another connection; the database only    *)
(* knows that numbers are unique.  Numbers made by hand (INV-2026-00001)   *)
(* and by the monthly run (INV-00001) are never the same text.  The second *)
(* kind has no value here: a number that collides ends the run, which any  *)
(* step of it may be the last of.                                          *)
(*                                                                         *)
(* The model stays within one month, the one that is billed.  The notices  *)
(* of the sync are rows that nothing here reads, and so are the modules    *)
(* that assignTenantPlan copies from the plan after its transaction.       *)
(* Every tenant has a subscription: it is created and deleted with it.     *)
(***************************************************************************)
EXTENDS Integers, FiniteSets, Requests

CONSTANTS
    Tenant,
    Invoice,      \* bound: invoices ever created
    HandStatus,   \* what suspendTenant, reactivateTenant and archiveTenant set
    AskedStatus,  \* values of dto.status for a subscription
    EditedStatus  \* values of dto.status for an invoice

ASSUME ConstantsOK ==
    /\ IsFiniteSet(Invoice)
    /\ HandStatus \subseteq {"SUSPENDED", "ACTIVE", "ARCHIVED"}
    /\ AskedStatus \subseteq {"TRIAL", "ACTIVE", "SUSPENDED", "CANCELLED", "PAST_DUE"}
    /\ EditedStatus \subseteq {"DRAFT", "ISSUED", "PAID", "VOID"}

VARIABLES
    tenant,       \* tenants: their status
    subscription, \* tenant_subscriptions: status, and whether the plan has a price
    invoice,      \* platform_invoices
    byHand,       \* history: tenants whose status was last written on its own
    purged        \* history: invoices were deleted with their tenant

vars == <<tenant, subscription, invoice, byHand, purged, txn, overlapped>>
-----------------------------------------------------------------------------
TenantStatus == {"NONE", "ACTIVE", "SUSPENDED", "DISABLED", "ARCHIVED", "DELETED"}
SubscriptionStatus == {"TRIAL", "ACTIVE", "SUSPENDED", "CANCELLED", "PAST_DUE"}
SubscriptionRow == [status : SubscriptionStatus, paid : BOOLEAN]
NoInvoice == [status |-> "NONE"]
InvoiceRow ==
    [status : {"NONE", "DELETED"}]
    \cup [status : {"DRAFT", "ISSUED", "PAID", "VOID"}, tenant : Tenant, voided : BOOLEAN,
          number : Nat,       \* 0: by the monthly run
          late : BOOLEAN]     \* 60 days past dueAt

Rows == {i \in Invoice : invoice[i].status \notin {"NONE", "DELETED"}}
Exists(t) == tenant[t] \notin {"NONE", "DELETED"}

Txn ==
    {Idle}
    \cup [op : {"deleteTenant"}, tenant : Tenant]
    \cup [op : {"updateSubscription"}, tenant : Tenant, status : SubscriptionStatus]
    \cup [op : {"assignPlan"}, tenant : Tenant, status : SubscriptionStatus, paid : BOOLEAN]
    \cup [op : {"createInvoice"}, step : {"read", "counted"}, tenant : Tenant, number : Nat]
    \cup [op : {"renewSubscription"}, step : {"read", "counted"}, tenant : Tenant,
          number : Nat, markAsPaid : BOOLEAN, activates : BOOLEAN]
    \cup [op : {"createPayment"}, tenant : Tenant, paid : SUBSET Invoice,
          reactivate : BOOLEAN]
    \cup [op : {"generate"}, step : {"subscriptions", "next"}, todo : SUBSET Tenant]
    \cup [op : {"sync"}, step : {"next", "active"}, todo : SUBSET (Invoice \X Tenant),
          tenant : SUBSET Tenant]

\* Beyond the types, an invoice belongs to a tenant that exists.
TypeOK ==
    /\ tenant \in [Tenant -> TenantStatus]
    /\ subscription \in [Tenant -> SubscriptionRow]
    /\ invoice \in [Invoice -> InvoiceRow]
    /\ byHand \subseteq Tenant
    /\ purged \in BOOLEAN
    /\ overlapped \in BOOLEAN
    /\ txn \in [Worker -> Txn]
    /\ \A i \in Rows : Exists(invoice[i].tenant)

Init ==
    /\ tenant = [t \in Tenant |-> "NONE"]
    /\ subscription = [t \in Tenant |-> [status |-> "TRIAL", paid |-> FALSE]]
    /\ invoice = [i \in Invoice |-> NoInvoice]
    /\ byHand = {}
    /\ purged = FALSE
    /\ NoRequests
-----------------------------------------------------------------------------
Clubs == <<tenant, subscription, byHand>>
Tables == <<Clubs, invoice, purged>>

\* The row is new, its tenant exists and its number is not taken.
CreateRow(t, number, status) ==
    /\ Exists(t)
    /\ \A i \in Rows : number # 0 => invoice[i].number # number
    /\ \E i \in Invoice :
          /\ invoice[i] = NoInvoice
          /\ invoice' = [invoice EXCEPT ![i] =
                 [status |-> status, tenant |-> t, number |-> number, voided |-> FALSE,
                  late |-> FALSE]]

\* Refused (the tenant is gone, the number is taken) or lost: what was
\* committed before stays.
Abort(w) ==
    /\ txn[w] # Idle
    /\ Done(w)
    /\ UNCHANGED Tables
-----------------------------------------------------------------------------
(* Tenants                                                                 *)

\* createTenant has no plan, convertLeadToTenant the plan of the lead.
CreateTenant(w, t) ==
    /\ AtOnce(w)
    /\ tenant[t] = "NONE"
    /\ tenant' = [tenant EXCEPT ![t] = "ACTIVE"]
    /\ \E paid \in BOOLEAN :
          subscription' = [subscription EXCEPT ![t] = [status |-> "TRIAL", paid |-> paid]]
    /\ UNCHANGED <<invoice, byHand, purged>>

\* suspendTenant, reactivateTenant, archiveTenant: the subscription is not asked.
SetTenantStatus(w, t) ==
    /\ AtOnce(w)
    /\ Exists(t)
    /\ \E status \in HandStatus :
          tenant' = [tenant EXCEPT ![t] = status]
    /\ byHand' = byHand \cup {t}
    /\ UNCHANGED <<subscription, invoice, purged>>

ReadDeleteTenant(w, t) ==
    /\ Exists(t)
    /\ tenant[t] # "ACTIVE"
    /\ Begin(w, [op |-> "deleteTenant", tenant |-> t])
    /\ UNCHANGED Tables

CommitDeleteTenant(w) ==
    LET t == txn[w].tenant
        mine == {i \in Rows : invoice[i].tenant = t} IN
    /\ txn[w].op = "deleteTenant"
    /\ Exists(t)
    /\ tenant' = [tenant EXCEPT ![t] = "DELETED"]
    /\ invoice' = [i \in Invoice |->
           IF i \in mine THEN [status |-> "DELETED"] ELSE invoice[i]]
    /\ purged' = (purged \/ mine # {})
    /\ Done(w)
    /\ UNCHANGED <<subscription, byHand>>
-----------------------------------------------------------------------------
(* Subscriptions: each transaction writes the tenant with its subscription. *)

TenantStatusFor(status) ==
    CASE status = "SUSPENDED" -> "SUSPENDED"
      [] status = "CANCELLED" -> "DISABLED"
      [] OTHER -> "ACTIVE"

Subscribe(t, row) ==
    /\ subscription' = [subscription EXCEPT ![t] = row]
    /\ tenant' = [tenant EXCEPT ![t] = TenantStatusFor(row.status)]
    /\ byHand' = byHand \ {t}

\* A dto without a status writes back the one that was read.
ReadUpdateSubscription(w, t) ==
    /\ Exists(t)
    /\ \E status \in AskedStatus \cup {subscription[t].status} :
          Begin(w, [op |-> "updateSubscription", tenant |-> t, status |-> status])
    /\ UNCHANGED Tables

CommitUpdateSubscription(w) ==
    LET t == txn[w].tenant IN
    /\ txn[w].op = "updateSubscription"
    /\ Exists(t)
    /\ Subscribe(t, [subscription[t] EXCEPT !.status = txn[w].status])
    /\ Done(w)
    /\ UNCHANGED <<invoice, purged>>

ReadAssignPlan(w, t) ==
    /\ Exists(t)
    /\ \E paid \in BOOLEAN :
          Begin(w, [op |-> "assignPlan", tenant |-> t, paid |-> paid,
                    status |-> IF subscription[t].status = "TRIAL" THEN "TRIAL" ELSE "ACTIVE"])
    /\ UNCHANGED Tables

CommitAssignPlan(w) ==
    LET t == txn[w].tenant IN
    /\ txn[w].op = "assignPlan"
    /\ Exists(t)
    /\ Subscribe(t, [status |-> txn[w].status, paid |-> txn[w].paid])
    /\ Done(w)
    /\ UNCHANGED <<invoice, purged>>
-----------------------------------------------------------------------------
(* Invoices and payments of one tenant                                     *)

\* (mutant) void invoices are not counted.
NextInvoiceNumberLive == Cardinality({i \in Rows : invoice[i].status # "VOID"}) + 1

NextInvoiceNumber == Cardinality(Rows) + 1

ReadCreateInvoice(w, t) ==
    /\ Exists(t)
    /\ Begin(w, [op |-> "createInvoice", step |-> "read", tenant |-> t, number |-> 0])
    /\ UNCHANGED Tables

\* activates: shouldActivateSubscription, on what the subscription was.
ReadRenew(w, t) ==
    /\ Exists(t)
    /\ \E markAsPaid \in BOOLEAN :
          Begin(w, [op |-> "renewSubscription", step |-> "read", tenant |-> t,
                    number |-> 0, markAsPaid |-> markAsPaid,
                    activates |-> markAsPaid \/ subscription[t].status = "ACTIVE"])
    /\ UNCHANGED Tables

\* The count runs on a connection of its own.
CountInvoices(w) ==
    LET t == txn[w] IN
    /\ t.op \in {"createInvoice", "renewSubscription"} /\ t.step = "read"
    /\ Continue(w, [t EXCEPT !.step = "counted", !.number = NextInvoiceNumber])
    /\ UNCHANGED Tables

CommitCreateInvoice(w) ==
    LET t == txn[w] IN
    /\ t.op = "createInvoice" /\ t.step = "counted"
    /\ CreateRow(t.tenant, t.number, "ISSUED")
    /\ Done(w)
    /\ UNCHANGED <<Clubs, purged>>

CommitRenew(w) ==
    LET t == txn[w] IN
    /\ t.op = "renewSubscription" /\ t.step = "counted"
    /\ CreateRow(t.tenant, t.number, IF t.markAsPaid THEN "PAID" ELSE "ISSUED")
    /\ IF t.activates
       THEN Subscribe(t.tenant, [subscription[t.tenant] EXCEPT !.status = "ACTIVE"])
       ELSE UNCHANGED Clubs
    /\ Done(w)
    /\ UNCHANGED purged

\* Any status may follow any other, and dueAt may be moved.  voidedAt is set
\* and never cleared.
UpdateInvoice(w, i) ==
    /\ AtOnce(w)
    /\ i \in Rows
    /\ \/ \E status \in EditedStatus :
             invoice' = [invoice EXCEPT ![i] = [invoice[i] EXCEPT
                 !.status = status, !.voided = @ \/ status = "VOID"]]
       \/ invoice' = [invoice EXCEPT ![i] = [invoice[i] EXCEPT !.late = ~@]]
    /\ UNCHANGED <<Clubs, purged>>

\* Sixty days pass beyond dueAt.
FallLate(i) ==
    /\ i \in Rows
    /\ ~invoice[i].late
    /\ invoice' = [invoice EXCEPT ![i] = [invoice[i] EXCEPT !.late = TRUE]]
    /\ UNCHANGED <<Clubs, purged, txn, overlapped>>

\* An invoice of this tenant is named and becomes PAID, whatever it was and
\* whatever the amount; or none is.
ReadCreatePayment(w, t) ==
    /\ Exists(t)
    /\ \E paid \in {{}} \cup {{i} : i \in Rows}, reactivate \in BOOLEAN :
          /\ \A i \in paid : invoice[i].tenant = t
          /\ Begin(w, [op |-> "createPayment", tenant |-> t, paid |-> paid,
                       reactivate |-> reactivate])
    /\ UNCHANGED Tables

CommitCreatePayment(w) ==
    LET t == txn[w] IN
    /\ t.op = "createPayment"
    /\ Exists(t.tenant)
    /\ invoice' = [i \in Invoice |->
           IF i \in t.paid THEN [invoice[i] EXCEPT !.status = "PAID"] ELSE invoice[i]]
    /\ IF t.reactivate
       THEN Subscribe(t.tenant, [subscription[t.tenant] EXCEPT !.status = "ACTIVE"])
       ELSE UNCHANGED Clubs
    /\ Done(w)
    /\ UNCHANGED purged
-----------------------------------------------------------------------------
(* The invoices of the month: who is to pay is read first, who has been    *)
(* invoiced next, and then the rows are created one by one.                *)

ReadSubscriptions(w) ==
    /\ Begin(w, [op |-> "generate", step |-> "subscriptions",
                 todo |-> {t \in Tenant : /\ tenant[t] = "ACTIVE"
                                          /\ subscription[t].status = "ACTIVE"
                                          /\ subscription[t].paid}])
    /\ UNCHANGED Tables

\* (mutant) only the invoices that were not paid yet count.
InvoicedUnpaid == {invoice[i].tenant : i \in {j \in Rows : invoice[j].status = "ISSUED"}}

\* Invoices made by hand count as well.
Invoiced == {invoice[i].tenant : i \in {j \in Rows : invoice[j].status # "VOID"}}

ReadInvoiced(w) ==
    LET t == txn[w] IN
    /\ t.op = "generate" /\ t.step = "subscriptions"
    /\ Continue(w, [t EXCEPT !.step = "next", !.todo = @ \ Invoiced])
    /\ UNCHANGED Tables

CreateMonthlyInvoice(w) ==
    LET t == txn[w] IN
    /\ t.op = "generate" /\ t.step = "next"
    /\ \E club \in t.todo :
          /\ CreateRow(club, 0, "ISSUED")
          /\ Continue(w, [t EXCEPT !.todo = @ \ {club}])
    /\ UNCHANGED <<Clubs, purged>>

EndGenerate(w) ==
    /\ txn[w].op = "generate" /\ txn[w].step = "next" /\ txn[w].todo = {}
    /\ Done(w)
    /\ UNCHANGED Tables
-----------------------------------------------------------------------------
(* The suspensions of syncTenantPlatformNotifications: the invoices that   *)
(* are late are read at the start, each tenant just before it is written.  *)

\* (mutant) whatever is late, paid or not.
LateInvoices == {i \in Rows : invoice[i].late}

UnpaidInvoices == {i \in Rows : invoice[i].status = "ISSUED" /\ invoice[i].late}

ReadUnpaid(w) ==
    /\ Begin(w, [op |-> "sync", step |-> "next", tenant |-> {},
                 todo |-> {<<i, invoice[i].tenant>> : i \in UnpaidInvoices}])
    /\ UNCHANGED Tables

ReadDebtor(w) ==
    LET t == txn[w] IN
    /\ t.op = "sync" /\ t.step = "next"
    /\ \E due \in t.todo :
          Continue(w, [t EXCEPT
              !.todo = @ \ {due},
              !.step = IF tenant[due[2]] = "ACTIVE" THEN "active" ELSE "next",
              !.tenant = IF tenant[due[2]] = "ACTIVE" THEN {due[2]} ELSE {}])
    /\ UNCHANGED Tables

SuspendDebtor(w) ==
    LET t == txn[w] IN
    /\ t.op = "sync" /\ t.step = "active"
    /\ \E club \in t.tenant :
          /\ Exists(club)
          /\ tenant' = [tenant EXCEPT ![club] = "SUSPENDED"]
          /\ byHand' = byHand \cup {club}
    /\ Continue(w, [t EXCEPT !.step = "next", !.tenant = {}])
    /\ UNCHANGED <<subscription, invoice, purged>>

EndSync(w) ==
    /\ txn[w].op = "sync" /\ txn[w].step = "next" /\ txn[w].todo = {}
    /\ Done(w)
    /\ UNCHANGED Tables
-----------------------------------------------------------------------------
Next ==
    \/ \E w \in Worker :
          \/ Abort(w)
          \/ \E t \in Tenant :
                \/ CreateTenant(w, t)
                \/ SetTenantStatus(w, t)
                \/ ReadDeleteTenant(w, t)
                \/ ReadUpdateSubscription(w, t)
                \/ ReadAssignPlan(w, t)
                \/ ReadCreateInvoice(w, t)
                \/ ReadRenew(w, t)
                \/ ReadCreatePayment(w, t)
          \/ \E i \in Invoice : UpdateInvoice(w, i)
          \/ CommitDeleteTenant(w)
          \/ CommitUpdateSubscription(w)
          \/ CommitAssignPlan(w)
          \/ CountInvoices(w)
          \/ CommitCreateInvoice(w)
          \/ CommitRenew(w)
          \/ CommitCreatePayment(w)
          \/ ReadSubscriptions(w)
          \/ ReadInvoiced(w)
          \/ CreateMonthlyInvoice(w)
          \/ EndGenerate(w)
          \/ ReadUnpaid(w)
          \/ ReadDebtor(w)
          \/ SuspendDebtor(w)
          \/ EndSync(w)
    \/ \E i \in Invoice : FallLate(i)

Spec == Init /\ [][Next]_vars
-----------------------------------------------------------------------------
(* Whatever the interleaving                                               *)

\* Unless it was last written on its own (suspendTenant, reactivateTenant,
\* archiveTenant, the automatic suspension), the status of a tenant is the one
\* of its subscription: five handlers write both, on reads that may be stale.
StatusFollowsSubscription ==
    \A t \in Tenant \ byHand :
        Exists(t) => tenant[t] = TenantStatusFor(subscription[t].status)

\* As long as no invoices are deleted with their tenant, the next manual number is
\* free: a request may be refused for a number that was just taken, but the
\* next one is not (platform.service.ts:4495-4507, number is unique).
NextNumberFree ==
    ~purged => \A i \in Rows : invoice[i].number # NextInvoiceNumber

-----------------------------------------------------------------------------
(* When requests do not overlap                                            *)

\* A tenant is billed once for the month, although the run may crash half-way
\* and be started again, and invoices are paid, voided and revived in between
\* (platform.service.ts:537-639).
BilledOnce ==
    ~overlapped =>
        \A t \in Tenant :
            Cardinality({i \in Rows :
                /\ invoice[i].tenant = t
                /\ invoice[i].number = 0
                /\ ~invoice[i].voided}) <= 1

\* The sync suspends only tenants that have an unpaid invoice at that moment,
\* although it works from the list it read at its start (platform.service.ts:424-446).
OnlyDebtorsSuspended ==
    [][\A w \in Worker :
          txn[w].op = "sync" /\ tenant' # tenant /\ ~overlapped'
              => \A t \in Tenant :
                    tenant'[t] # tenant[t] =>
                        \E i \in Rows : /\ invoice[i].tenant = t
                                        /\ invoice[i].status = "ISSUED"
                                        /\ invoice[i].late]_vars

\* The status of a tenant is that of its subscription unless an administrator wrote it
\* on its own, and the automatic suspension takes it from debtors only: whatever route
\* led to a status, there is a reason for it on the books (platform.service.ts:372-446).
StatusJustified == []StatusFollowsSubscription /\ OnlyDebtorsSuspended
=============================================================================
