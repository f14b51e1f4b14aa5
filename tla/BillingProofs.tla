---------------------------- MODULE BillingProofs ----------------------------
(***************************************************************************)
(* Theorems of Billing, for any number of requests, tenants and invoices.  *)
(* Whatever requests overlap: type correctness, a tenant's status follows  *)
(* its subscription, the next invoice number is free.  Unless they         *)
(* overlap: a tenant is billed once, and suspended for a debt only.        *)
(*                                                                         *)
(* A step changes the clubs (ClubsStep), the invoices (Edited, Created),   *)
(* or only what a request has read (FreshOK).  The invariant Inv is kept   *)
(* by each of these; which of them an action takes is shown action by      *)
(* action.  The second half adds (RunInv) that, while requests have not    *)
(* overlapped, what the two runs have read still stands.                   *)
(***************************************************************************)
EXTENDS Billing, FiniteSetTheorems, TLAPS

Numbering == {"createInvoice", "renewSubscription"}

\* No manual invoice has a number above the count of the rows, and no request
\* has read one more than the next.
NumberInv ==
    ~purged =>
        /\ \A i \in Rows : invoice[i].number <= Cardinality(Rows)
        /\ \A w \in Worker :
              txn[w].op \in Numbering => txn[w].number <= Cardinality(Rows) + 1

\* The invoice a payment names is there as long as the tenant is.
PaymentInv ==
    \A w \in Worker :
        txn[w].op = "createPayment" =>
            \A i \in txn[w].paid :
                \/ i \in Rows /\ invoice[i].tenant = txn[w].tenant
                \/ tenant[txn[w].tenant] = "DELETED"

Inv == TypeOK /\ StatusFollowsSubscription /\ NumberInv /\ PaymentInv

ClubsStep ==
    /\ tenant' \in [Tenant -> TenantStatus]
    /\ subscription' \in [Tenant -> SubscriptionRow]
    /\ byHand' \subseteq Tenant
    /\ \A t \in Tenant : /\ Exists(t) => Exists(t)'
                         /\ tenant[t] = "DELETED" => tenant'[t] = "DELETED"
    /\ StatusFollowsSubscription'

Edited ==
    /\ invoice' \in [Invoice -> InvoiceRow]
    /\ Rows' = Rows
    /\ \A i \in Rows : /\ invoice'[i].tenant = invoice[i].tenant
                       /\ invoice'[i].number = invoice[i].number
    /\ purged' = purged

Created(t, number) ==
    /\ invoice' \in [Invoice -> InvoiceRow]
    /\ \E i \in Invoice \ Rows :
          /\ Rows' = Rows \cup {i}
          /\ invoice'[i].tenant = t
          /\ invoice'[i].number = number
          /\ \A j \in Rows : invoice'[j] = invoice[j]
    /\ purged' = purged

\* What a request may have read.
FreshOK(t) ==
    /\ t \in Txn
    /\ t.op \in Numbering => t.number <= Cardinality(Rows) + 1
    /\ t.op = "createPayment" =>
          \A i \in t.paid : i \in Rows /\ invoice[i].tenant = t.tenant

Goes(w, t) == txn' = [txn EXCEPT ![w] = t] /\ overlapped' \in BOOLEAN
-----------------------------------------------------------------------------
(* Requests and rows                                                       *)

InvoiceTxn ==
    [op : {"createInvoice"}, step : {"read", "counted"}, tenant : Tenant, number : Nat]
RenewTxn ==
    [op : {"renewSubscription"}, step : {"read", "counted"}, tenant : Tenant,
     number : Nat, markAsPaid : BOOLEAN, activates : BOOLEAN]
GenerateTxn == [op : {"generate"}, step : {"subscriptions", "next"}, todo : SUBSET Tenant]
SyncTxn ==
    [op : {"sync"}, step : {"next", "active"}, todo : SUBSET (Invoice \X Tenant),
     tenant : SUBSET Tenant]

LEMMA TxnFields ==
    ASSUME NEW t \in Txn
    PROVE  /\ t.op \in {"deleteTenant", "updateSubscription", "assignPlan", "createInvoice",
                        "renewSubscription", "createPayment"} => t.tenant \in Tenant
           /\ t.op \in {"updateSubscription", "assignPlan"} => t.status \in SubscriptionStatus
           /\ t.op = "assignPlan" => t.paid \in BOOLEAN
           /\ t.op \in Numbering => t.number \in Nat
           /\ t.op = "createPayment" => t.paid \in SUBSET Invoice
           /\ t.op = "createInvoice" => t \in InvoiceTxn
           /\ t.op = "renewSubscription" => t \in RenewTxn
           /\ t.op = "generate" => t \in GenerateTxn
           /\ t.op = "sync" => t \in SyncTxn
BY DEF Txn, Idle, Numbering, InvoiceTxn, RenewTxn, GenerateTxn, SyncTxn

LEMMA RowFields ==
    ASSUME TypeOK, NEW i \in Rows
    PROVE  /\ i \in Invoice
           /\ invoice[i] \in [status : {"DRAFT", "ISSUED", "PAID", "VOID"}, tenant : Tenant,
                              voided : BOOLEAN, number : Nat, late : BOOLEAN]
           /\ Exists(invoice[i].tenant)
BY DEF TypeOK, Rows, InvoiceRow

LEMMA RowsFinite == IsFiniteSet(Rows) /\ Cardinality(Rows) \in Nat
<1>1. IsFiniteSet(Rows)
  BY ConstantsOK, FS_Subset DEF Rows
<1>. QED  BY <1>1, FS_CardinalityType

LEMMA IdleFresh == FreshOK(Idle)
BY DEF FreshOK, Idle, Txn, Numbering

LEMMA DoneGoes ==
    ASSUME TypeOK, NEW w \in Worker, Done(w)
    PROVE  Goes(w, Idle)
BY DEF Done, Continue, Goes, TypeOK

LEMMA BeginGoes ==
    ASSUME TypeOK, NEW w \in Worker, NEW t, Begin(w, t)
    PROVE  Goes(w, t)
BY DEF Begin, Overlap, Goes, TypeOK

LEMMA ContinueGoes ==
    ASSUME TypeOK, NEW w \in Worker, NEW t, Continue(w, t)
    PROVE  Goes(w, t)
BY DEF Continue, Goes, TypeOK

LEMMA AtOnceGoes ==
    ASSUME TypeOK, NEW w \in Worker, AtOnce(w)
    PROVE  Goes(w, Idle)
<1>1. txn' = [txn EXCEPT ![w] = Idle]
  BY DEF AtOnce, TypeOK
<1>2. overlapped' \in BOOLEAN
  BY DEF AtOnce, Overlap, TypeOK
<1>. QED  BY <1>1, <1>2 DEF Goes
-----------------------------------------------------------------------------
(* What keeps the invariant                                                *)

LEMMA KeptRequests ==
    ASSUME TypeOK, NEW w \in Worker, NEW t, FreshOK(t), Goes(w, t)
    PROVE  /\ txn' \in [Worker -> Txn]
           /\ txn'[w] = t
           /\ \A v \in Worker \ {w} : txn'[v] = txn[v]
BY DEF TypeOK, Goes, FreshOK

LEMMA TypeKept ==
    ASSUME TypeOK, ClubsStep, Edited, txn' \in [Worker -> Txn], overlapped' \in BOOLEAN
    PROVE  TypeOK'
<1>1. ASSUME NEW i \in Rows'  PROVE Exists(invoice[i].tenant)'
  <2>1. i \in Rows /\ invoice'[i].tenant = invoice[i].tenant
    BY <1>1 DEF Edited
  <2>2. invoice[i].tenant \in Tenant /\ Exists(invoice[i].tenant)
    BY <2>1, RowFields
  <2>. QED  BY <2>1, <2>2 DEF ClubsStep, Exists
<1>2. purged' \in BOOLEAN
  BY DEF TypeOK, Edited
<1>3. /\ tenant' \in [Tenant -> TenantStatus]
      /\ subscription' \in [Tenant -> SubscriptionRow]
      /\ byHand' \subseteq Tenant
      /\ invoice' \in [Invoice -> InvoiceRow]
  BY DEF ClubsStep, Edited
<1>. QED  BY <1>1, <1>2, <1>3 DEF TypeOK

LEMMA PaymentKept ==
    ASSUME TypeOK, PaymentInv, ClubsStep,
           \A i \in Rows : i \in Rows' /\ invoice'[i].tenant = invoice[i].tenant,
           NEW v \in Worker, txn'[v] = txn[v] \/ FreshOK(txn'[v]),
           txn'[v].op = "createPayment", NEW i \in txn'[v].paid
    PROVE  (i \in Rows /\ invoice[i].tenant = txn[v].tenant)'
           \/ tenant'[txn'[v].tenant] = "DELETED"
<1>1. CASE FreshOK(txn'[v])
  BY <1>1 DEF FreshOK
<1>2. CASE txn'[v] = txn[v]
  <2>1. txn[v].tenant \in Tenant
    BY <1>2, TxnFields DEF TypeOK
  <2>2. \/ i \in Rows /\ invoice[i].tenant = txn[v].tenant
        \/ tenant[txn[v].tenant] = "DELETED"
    BY <1>2 DEF PaymentInv
  <2>. QED  BY <1>2, <2>1, <2>2 DEF ClubsStep
<1>. QED  BY <1>1, <1>2

\* A step that adds no row, by a request with a fresh read.
LEMMA Kept ==
    ASSUME Inv, ClubsStep, Edited, NEW w \in Worker, NEW t, FreshOK(t), Goes(w, t)
    PROVE  Inv'
<1>1. TypeOK /\ NumberInv /\ PaymentInv
  BY DEF Inv
<1>2. /\ txn' \in [Worker -> Txn] /\ txn'[w] = t
      /\ \A v \in Worker \ {w} : txn'[v] = txn[v]
  BY <1>1, KeptRequests
<1>3. TypeOK'
  BY <1>1, <1>2, TypeKept DEF Goes
<1>4. NumberInv'
  <2>1. Rows' = Rows /\ Cardinality(Rows)' = Cardinality(Rows)
    BY DEF Edited
  <2>2. SUFFICES ASSUME ~purged'
                 PROVE  /\ \A i \in Rows' : invoice'[i].number <= Cardinality(Rows)'
                        /\ \A v \in Worker : txn'[v].op \in Numbering =>
                               txn'[v].number <= Cardinality(Rows)' + 1
    BY DEF NumberInv
  <2>3. ~purged
    BY <2>2 DEF Edited
  <2>4. \A i \in Rows : invoice'[i].number <= Cardinality(Rows)
    BY <1>1, <2>3 DEF NumberInv, Edited
  <2>5. \A v \in Worker : txn'[v].op \in Numbering => txn'[v].number <= Cardinality(Rows) + 1
    BY <1>1, <1>2, <2>3 DEF NumberInv, FreshOK
  <2>. QED  BY <2>1, <2>4, <2>5
<1>5. PaymentInv'
  <2>1. \A i \in Rows : i \in Rows' /\ invoice'[i].tenant = invoice[i].tenant
    BY DEF Edited
  <2>2. \A v \in Worker : txn'[v] = txn[v] \/ FreshOK(txn'[v])
    BY <1>2
  <2>. QED  BY <1>1, <2>1, <2>2, PaymentKept DEF PaymentInv
<1>. QED  BY <1>3, <1>4, <1>5 DEF Inv, ClubsStep

\* A step that adds a row, by a request that ends or has no number to read.
LEMMA Grown ==
    ASSUME Inv, ClubsStep, NEW c \in Tenant, Exists(c)', NEW n \in Nat, Created(c, n),
           ~purged => n <= Cardinality(Rows) + 1,
           NEW w \in Worker, NEW t, FreshOK(t), t.op \notin Numbering, Goes(w, t)
    PROVE  Inv'
<1>1. TypeOK /\ NumberInv /\ PaymentInv
  BY DEF Inv
<1>2. /\ txn' \in [Worker -> Txn] /\ txn'[w] = t
      /\ \A v \in Worker \ {w} : txn'[v] = txn[v]
  BY <1>1, KeptRequests
<1>3. PICK k \in Invoice \ Rows :
          /\ Rows' = Rows \cup {k}
          /\ invoice'[k].tenant = c
          /\ invoice'[k].number = n
          /\ \A j \in Rows : invoice'[j] = invoice[j]
  BY DEF Created
<1>4. Cardinality(Rows)' = Cardinality(Rows) + 1 /\ Cardinality(Rows) \in Nat
  BY <1>3, RowsFinite, FS_AddElement
<1>5. TypeOK'
  <2>1. ASSUME NEW i \in Rows'  PROVE Exists(invoice[i].tenant)'
    <3>1. CASE i = k
      BY <3>1, <1>3 DEF Exists
    <3>2. CASE i # k
      <4>1. i \in Rows /\ invoice'[i] = invoice[i]
        BY <1>3, <2>1, <3>2
      <4>2. invoice[i].tenant \in Tenant /\ Exists(invoice[i].tenant)
        BY <1>1, <4>1, RowFields
      <4>. QED  BY <4>1, <4>2 DEF ClubsStep, Exists
    <3>. QED  BY <3>1, <3>2
  <2>2. purged' \in BOOLEAN /\ invoice' \in [Invoice -> InvoiceRow]
    BY <1>1 DEF TypeOK, Created
  <2>3. /\ tenant' \in [Tenant -> TenantStatus]
        /\ subscription' \in [Tenant -> SubscriptionRow]
        /\ byHand' \subseteq Tenant
    BY DEF ClubsStep
  <2>4. overlapped' \in BOOLEAN
    BY DEF Goes
  <2>. QED  BY <1>2, <2>1, <2>2, <2>3, <2>4 DEF TypeOK
<1>6. NumberInv'
  <2>1. SUFFICES ASSUME ~purged'
                 PROVE  /\ \A i \in Rows' : invoice'[i].number <= Cardinality(Rows)'
                        /\ \A v \in Worker : txn'[v].op \in Numbering =>
                               txn'[v].number <= Cardinality(Rows)' + 1
    BY DEF NumberInv
  <2>2. ~purged
    BY <2>1 DEF Created
  <2>3. ASSUME NEW i \in Rows'  PROVE invoice'[i].number <= Cardinality(Rows)'
    <3>1. CASE i = k
      BY <3>1, <1>3, <1>4, <2>2
    <3>2. CASE i # k
      <4>1. i \in Rows /\ invoice'[i] = invoice[i]
        BY <1>3, <2>3, <3>2
      <4>2. invoice[i].number \in Nat /\ invoice[i].number <= Cardinality(Rows)
        BY <1>1, <2>2, <4>1, RowFields DEF NumberInv
      <4>. QED  BY <1>4, <4>1, <4>2
    <3>. QED  BY <3>1, <3>2
  <2>4. ASSUME NEW v \in Worker, txn'[v].op \in Numbering
        PROVE  txn'[v].number <= Cardinality(Rows)' + 1
    <3>1. txn'[v] = txn[v]
      BY <1>2, <2>4
    <3>2. txn[v].number \in Nat /\ txn[v].number <= Cardinality(Rows) + 1
      BY <1>1, <2>2, <2>4, <3>1, TxnFields DEF NumberInv, TypeOK
    <3>. QED  BY <1>4, <3>1, <3>2
  <2>. QED  BY <2>3, <2>4
<1>7. PaymentInv'
  <2>1. \A i \in Rows : i \in Rows' /\ invoice'[i].tenant = invoice[i].tenant
    BY <1>3
  <2>2. ASSUME NEW v \in Worker, txn'[v].op = "createPayment", NEW i \in txn'[v].paid
        PROVE  (i \in Rows /\ invoice[i].tenant = txn[v].tenant)'
               \/ tenant'[txn'[v].tenant] = "DELETED"
    <3>1. CASE v # w
      <4>1. txn'[v] = txn[v]
        BY <1>2, <3>1
      <4>. QED  BY <1>1, <2>1, <2>2, <4>1, PaymentKept
    <3>2. CASE v = w
      BY <1>2, <2>1, <2>2, <3>2 DEF FreshOK
    <3>. QED  BY <3>1, <3>2
  <2>. QED  BY <2>2 DEF PaymentInv
<1>. QED  BY <1>5, <1>6, <1>7 DEF Inv, ClubsStep
-----------------------------------------------------------------------------
(* The clubs                                                               *)

LEMMA ClubsUnchanged ==
    ASSUME TypeOK, StatusFollowsSubscription, UNCHANGED Clubs
    PROVE  ClubsStep
BY DEF TypeOK, StatusFollowsSubscription, Clubs, ClubsStep, Exists

LEMMA TenantStatuses ==
    ASSUME NEW status \in SubscriptionStatus
    PROVE  TenantStatusFor(status) \in {"SUSPENDED", "DISABLED", "ACTIVE"}
BY DEF TenantStatusFor, SubscriptionStatus

\* Writing tenant and subscription together never revives a tenant.
LEMMA Subscribed ==
    ASSUME TypeOK, StatusFollowsSubscription, NEW t \in Tenant, Exists(t),
           NEW row \in SubscriptionRow, Subscribe(t, row)
    PROVE  ClubsStep
<1>1. row.status \in SubscriptionStatus
  BY DEF SubscriptionRow
<1>2. /\ subscription' = [subscription EXCEPT ![t] = row]
      /\ tenant' = [tenant EXCEPT ![t] = TenantStatusFor(row.status)]
      /\ byHand' = byHand \ {t}
  BY DEF Subscribe
<1>3. TenantStatusFor(row.status) \in TenantStatus \ {"NONE", "DELETED"}
  BY <1>1, TenantStatuses DEF TenantStatus
<1>4. /\ tenant' \in [Tenant -> TenantStatus]
      /\ subscription' \in [Tenant -> SubscriptionRow]
      /\ byHand' \subseteq Tenant
  BY <1>2, <1>3 DEF TypeOK
<1>5. \A c \in Tenant : /\ Exists(c) => Exists(c)'
                        /\ tenant[c] = "DELETED" => tenant'[c] = "DELETED"
  BY <1>2, <1>3 DEF TypeOK, Exists
<1>6. StatusFollowsSubscription'
  <2>1. ASSUME NEW c \in Tenant \ byHand', Exists(c)'
        PROVE  tenant'[c] = TenantStatusFor(subscription'[c].status)
    <3>1. CASE c = t
      BY <1>2, <3>1 DEF TypeOK
    <3>2. CASE c # t
      <4>1. tenant'[c] = tenant[c] /\ subscription'[c] = subscription[c] /\ c \notin byHand
        BY <1>2, <2>1, <3>2 DEF TypeOK
      <4>. QED  BY <2>1, <4>1 DEF StatusFollowsSubscription, Exists
    <3>. QED  BY <3>1, <3>2
  <2>. QED  BY <2>1 DEF StatusFollowsSubscription, TenantStatusFor
<1>. QED  BY <1>4, <1>5, <1>6 DEF ClubsStep

\* A status written on its own.
LEMMA SetByHand ==
    ASSUME TypeOK, StatusFollowsSubscription, NEW t \in Tenant, Exists(t),
           NEW status \in {"SUSPENDED", "ACTIVE", "ARCHIVED"},
           tenant' = [tenant EXCEPT ![t] = status], byHand' = byHand \cup {t},
           subscription' = subscription
    PROVE  ClubsStep
<1>1. status \in TenantStatus \ {"NONE", "DELETED"}
  BY DEF TenantStatus
<1>2. /\ tenant' \in [Tenant -> TenantStatus]
      /\ subscription' \in [Tenant -> SubscriptionRow]
      /\ byHand' \subseteq Tenant
  BY <1>1 DEF TypeOK
<1>3. \A c \in Tenant : /\ Exists(c) => Exists(c)'
                        /\ tenant[c] = "DELETED" => tenant'[c] = "DELETED"
  BY <1>1 DEF TypeOK, Exists
<1>4. StatusFollowsSubscription'
  BY DEF TypeOK, StatusFollowsSubscription, Exists, TenantStatusFor
<1>. QED  BY <1>2, <1>3, <1>4 DEF ClubsStep

LEMMA TenantCreated ==
    ASSUME TypeOK, StatusFollowsSubscription, NEW w \in Worker, NEW t \in Tenant,
           CreateTenant(w, t)
    PROVE  ClubsStep
<1>1. PICK paid \in BOOLEAN :
          subscription' = [subscription EXCEPT ![t] = [status |-> "TRIAL", paid |-> paid]]
  BY DEF CreateTenant
<1>2. tenant[t] = "NONE" /\ tenant' = [tenant EXCEPT ![t] = "ACTIVE"] /\ byHand' = byHand
  BY DEF CreateTenant
<1>3. [status |-> "TRIAL", paid |-> paid] \in SubscriptionRow
  BY DEF SubscriptionRow, SubscriptionStatus
<1>4. /\ tenant' \in [Tenant -> TenantStatus]
      /\ subscription' \in [Tenant -> SubscriptionRow]
      /\ byHand' \subseteq Tenant
  BY <1>1, <1>2, <1>3 DEF TypeOK, TenantStatus
<1>5. \A c \in Tenant : /\ Exists(c) => Exists(c)'
                        /\ tenant[c] = "DELETED" => tenant'[c] = "DELETED"
  BY <1>2 DEF TypeOK, Exists
<1>6. StatusFollowsSubscription'
  <2>1. ASSUME NEW c \in Tenant \ byHand', Exists(c)'
        PROVE  tenant'[c] = TenantStatusFor(subscription'[c].status)
    <3>1. CASE c = t
      <4>1. tenant'[c] = "ACTIVE" /\ subscription'[c].status = "TRIAL"
        BY <1>1, <1>2, <3>1 DEF TypeOK
      <4>. QED  BY <4>1 DEF TenantStatusFor
    <3>2. CASE c # t
      <4>1. tenant'[c] = tenant[c] /\ subscription'[c] = subscription[c] /\ c \notin byHand
        BY <1>1, <1>2, <2>1, <3>2 DEF TypeOK
      <4>. QED  BY <2>1, <4>1 DEF StatusFollowsSubscription, Exists
    <3>. QED  BY <3>1, <3>2
  <2>. QED  BY <2>1 DEF StatusFollowsSubscription, TenantStatusFor
<1>. QED  BY <1>4, <1>5, <1>6 DEF ClubsStep
-----------------------------------------------------------------------------
(* The invoices                                                            *)

LEMMA InvoicesUnchanged ==
    ASSUME TypeOK, UNCHANGED <<invoice, purged>>
    PROVE  Edited
BY DEF TypeOK, Edited, Rows

LEMMA RowCreated ==
    ASSUME TypeOK, NEW t \in Tenant, NEW n \in Nat,
           NEW status \in {"DRAFT", "ISSUED", "PAID", "VOID"}, CreateRow(t, n, status),
           purged' = purged
    PROVE  Created(t, n) /\ Exists(t) /\ \A i \in Rows : n # 0 => invoice[i].number # n
<1>1. PICK i \in Invoice :
          /\ invoice[i] = NoInvoice
          /\ invoice' = [invoice EXCEPT ![i] =
                 [status |-> status, tenant |-> t, number |-> n, voided |-> FALSE,
                  late |-> FALSE]]
  BY DEF CreateRow
<1>. DEFINE row == [status |-> status, tenant |-> t, number |-> n, voided |-> FALSE,
                    late |-> FALSE]
<1>2. row \in InvoiceRow
  BY DEF InvoiceRow
<1>3. invoice' \in [Invoice -> InvoiceRow] /\ invoice'[i] = row
      /\ \A j \in Invoice \ {i} : invoice'[j] = invoice[j]
  BY <1>1, <1>2 DEF TypeOK
<1>4. i \notin Rows
  BY <1>1 DEF Rows, NoInvoice
<1>5. row.status \notin {"NONE", "DELETED"}
  OBVIOUS
<1>6. Rows' = Rows \cup {i}
  BY <1>3, <1>5 DEF Rows
<1>7. \A j \in Rows : invoice'[j] = invoice[j]
  BY <1>3, <1>4 DEF Rows
<1>8. invoice'[i].tenant = t /\ invoice'[i].number = n
  BY <1>3
<1>. QED  BY <1>3, <1>4, <1>6, <1>7, <1>8 DEF Created, CreateRow

\* Rows that stay rows, with their tenant and number.
LEMMA RowsEdited ==
    ASSUME TypeOK, invoice' \in [Invoice -> InvoiceRow], purged' = purged,
           \A i \in Invoice :
              \/ invoice'[i] = invoice[i]
              \/ /\ i \in Rows
                 /\ invoice'[i].status \notin {"NONE", "DELETED"}
                 /\ invoice'[i].tenant = invoice[i].tenant
                 /\ invoice'[i].number = invoice[i].number
    PROVE  Edited
<1>1. Rows' = Rows
  BY DEF Rows
<1>2. \A i \in Rows : /\ invoice'[i].tenant = invoice[i].tenant
                      /\ invoice'[i].number = invoice[i].number
  BY DEF Rows
<1>. QED  BY <1>1, <1>2 DEF Edited

LEMMA StatusEdit ==
    ASSUME TypeOK, NEW i \in Rows, NEW s \in {"DRAFT", "ISSUED", "PAID", "VOID"}
    PROVE  /\ [invoice[i] EXCEPT !.status = s] \in InvoiceRow
           /\ [invoice[i] EXCEPT !.status = s].status \notin {"NONE", "DELETED"}
           /\ [invoice[i] EXCEPT !.status = s].tenant = invoice[i].tenant
           /\ [invoice[i] EXCEPT !.status = s].number = invoice[i].number
<1>. DEFINE Full == [status : {"DRAFT", "ISSUED", "PAID", "VOID"}, tenant : Tenant,
                     voided : BOOLEAN, number : Nat, late : BOOLEAN]
            old == invoice[i]
<1>1. old \in Full
  BY RowFields
<1>2. [old EXCEPT !.status = s] \in Full
  BY <1>1
<1>3. /\ [old EXCEPT !.status = s].tenant = old.tenant
      /\ [old EXCEPT !.status = s].number = old.number
  BY <1>1
<1>. QED  BY <1>2, <1>3 DEF InvoiceRow

LEMMA VoidEdit ==
    ASSUME TypeOK, NEW i \in Rows, NEW s \in {"DRAFT", "ISSUED", "PAID", "VOID"},
           NEW b \in BOOLEAN
    PROVE  /\ [invoice[i] EXCEPT !.status = s, !.voided = b] \in InvoiceRow
           /\ [invoice[i] EXCEPT !.status = s, !.voided = b].status \notin {"NONE", "DELETED"}
           /\ [invoice[i] EXCEPT !.status = s, !.voided = b].tenant = invoice[i].tenant
           /\ [invoice[i] EXCEPT !.status = s, !.voided = b].number = invoice[i].number
<1>. DEFINE Full == [status : {"DRAFT", "ISSUED", "PAID", "VOID"}, tenant : Tenant,
                     voided : BOOLEAN, number : Nat, late : BOOLEAN]
            old == invoice[i]
<1>1. old \in Full
  BY RowFields
<1>2. [old EXCEPT !.status = s, !.voided = b] \in Full
  BY <1>1
<1>3. /\ [old EXCEPT !.status = s, !.voided = b].tenant = old.tenant
      /\ [old EXCEPT !.status = s, !.voided = b].number = old.number
  BY <1>1
<1>. QED  BY <1>2, <1>3 DEF InvoiceRow

LEMMA LateEdit ==
    ASSUME TypeOK, NEW i \in Rows, NEW b \in BOOLEAN
    PROVE  /\ [invoice[i] EXCEPT !.late = b] \in InvoiceRow
           /\ [invoice[i] EXCEPT !.late = b].status \notin {"NONE", "DELETED"}
           /\ [invoice[i] EXCEPT !.late = b].tenant = invoice[i].tenant
           /\ [invoice[i] EXCEPT !.late = b].number = invoice[i].number
<1>. DEFINE Full == [status : {"DRAFT", "ISSUED", "PAID", "VOID"}, tenant : Tenant,
                     voided : BOOLEAN, number : Nat, late : BOOLEAN]
            old == invoice[i]
<1>1. old \in Full
  BY RowFields
<1>2. [old EXCEPT !.late = b] \in Full
  BY <1>1
<1>3. [old EXCEPT !.late = b].tenant = old.tenant /\ [old EXCEPT !.late = b].number = old.number
  BY <1>1
<1>. QED  BY <1>2, <1>3 DEF InvoiceRow
-----------------------------------------------------------------------------
(* What requests read                                                      *)

\* A request that begins or goes on without writing.
Reading(w) == UNCHANGED Tables /\ \E t \in Txn : FreshOK(t) /\ Goes(w, t)

LEMMA ReadingKeeps ==
    ASSUME Inv, NEW w \in Worker, Reading(w)
    PROVE  Inv'
<1>1. PICK t \in Txn : FreshOK(t) /\ Goes(w, t)
  BY DEF Reading
<1>2. UNCHANGED Clubs /\ UNCHANGED <<invoice, purged>>
  BY DEF Reading, Tables
<1>3. ClubsStep /\ Edited
  BY <1>2, ClubsUnchanged, InvoicesUnchanged DEF Inv
<1>. QED  BY <1>1, <1>3, Kept

LEMMA PlainFresh ==
    ASSUME NEW t \in Txn, t.op \notin Numbering \cup {"createPayment"}
    PROVE  FreshOK(t)
BY DEF FreshOK

\* What becomes of the records of requests that go on.
LEMMA CountedInvoice ==
    ASSUME NEW t \in InvoiceTxn, NEW n \in Nat
    PROVE  /\ [t EXCEPT !.step = "counted", !.number = n] \in InvoiceTxn
           /\ [t EXCEPT !.step = "counted", !.number = n].number = n
BY DEF InvoiceTxn

LEMMA CountedRenewal ==
    ASSUME NEW t \in RenewTxn, NEW n \in Nat
    PROVE  /\ [t EXCEPT !.step = "counted", !.number = n] \in RenewTxn
           /\ [t EXCEPT !.step = "counted", !.number = n].number = n
BY DEF RenewTxn

LEMMA NextInvoiced ==
    ASSUME NEW t \in GenerateTxn, NEW a \in SUBSET Tenant
    PROVE  /\ [t EXCEPT !.step = "next", !.todo = a] \in GenerateTxn
           /\ [t EXCEPT !.todo = a] \in GenerateTxn
BY DEF GenerateTxn

LEMMA NextDebtor ==
    ASSUME NEW t \in SyncTxn, NEW a \in SUBSET (Invoice \X Tenant),
           NEW b \in {"next", "active"}, NEW c \in SUBSET Tenant
    PROVE  /\ [t EXCEPT !.todo = a, !.step = b, !.tenant = c] \in SyncTxn
           /\ [t EXCEPT !.step = b, !.tenant = c] \in SyncTxn
BY DEF SyncTxn

LEMMA RecordOps ==
    /\ InvoiceTxn \cup RenewTxn \cup GenerateTxn \cup SyncTxn \subseteq Txn
    /\ \A t \in InvoiceTxn : t.op = "createInvoice"
    /\ \A t \in RenewTxn : t.op = "renewSubscription"
    /\ \A t \in GenerateTxn : t.op = "generate"
    /\ \A t \in SyncTxn : t.op = "sync"
BY DEF Txn, InvoiceTxn, RenewTxn, GenerateTxn, SyncTxn

LEMMA EndReads ==
    ASSUME TypeOK, NEW w \in Worker, Abort(w) \/ EndGenerate(w) \/ EndSync(w)
    PROVE  Reading(w)
<1>1. Done(w) /\ UNCHANGED Tables
  BY DEF Abort, EndGenerate, EndSync
<1>2. Idle \in Txn
  BY DEF Txn
<1>. QED  BY <1>1, <1>2, DoneGoes, IdleFresh DEF Reading

LEMMA TenantReads ==
    ASSUME TypeOK, NEW w \in Worker, NEW c \in Tenant,
           ReadDeleteTenant(w, c) \/ ReadUpdateSubscription(w, c) \/ ReadAssignPlan(w, c)
    PROVE  Reading(w)
<1>. SUFFICES \E t \in Txn :
         t.op \notin Numbering \cup {"createPayment"} /\ Begin(w, t) /\ UNCHANGED Tables
  BY BeginGoes, PlainFresh DEF Reading
<1>1. CASE ReadDeleteTenant(w, c)
  <2>. DEFINE t == [op |-> "deleteTenant", tenant |-> c]
  <2>1. t \in Txn /\ t.op \notin Numbering \cup {"createPayment"}
    BY DEF Txn, Numbering
  <2>. QED  BY <1>1, <2>1 DEF ReadDeleteTenant
<1>2. CASE ReadUpdateSubscription(w, c)
  <2>1. PICK status \in AskedStatus \cup {subscription[c].status} :
            Begin(w, [op |-> "updateSubscription", tenant |-> c, status |-> status])
    BY <1>2 DEF ReadUpdateSubscription
  <2>. DEFINE t == [op |-> "updateSubscription", tenant |-> c, status |-> status]
  <2>2. status \in SubscriptionStatus
    BY ConstantsOK DEF TypeOK, SubscriptionRow, SubscriptionStatus
  <2>3. t \in Txn /\ t.op \notin Numbering \cup {"createPayment"}
    BY <2>2 DEF Txn, Numbering
  <2>. QED  BY <1>2, <2>1, <2>3 DEF ReadUpdateSubscription
<1>3. CASE ReadAssignPlan(w, c)
  <2>. DEFINE s == IF subscription[c].status = "TRIAL" THEN "TRIAL" ELSE "ACTIVE"
  <2>1. PICK paid \in BOOLEAN :
            Begin(w, [op |-> "assignPlan", tenant |-> c, paid |-> paid, status |-> s])
    BY <1>3 DEF ReadAssignPlan
  <2>. DEFINE t == [op |-> "assignPlan", tenant |-> c, paid |-> paid, status |-> s]
  <2>2. s \in SubscriptionStatus
    BY DEF SubscriptionStatus
  <2>3. t \in Txn /\ t.op \notin Numbering \cup {"createPayment"}
    BY <2>2 DEF Txn, Numbering
  <2>. QED  BY <1>3, <2>1, <2>3 DEF ReadAssignPlan
<1>. QED  BY <1>1, <1>2, <1>3

LEMMA NumberReads ==
    ASSUME TypeOK, NEW w \in Worker, NEW c \in Tenant,
           ReadCreateInvoice(w, c) \/ ReadRenew(w, c)
    PROVE  Reading(w)
<1>1. Cardinality(Rows) \in Nat
  BY RowsFinite
<1>2. CASE ReadCreateInvoice(w, c)
  <2>. DEFINE t == [op |-> "createInvoice", step |-> "read", tenant |-> c, number |-> 0]
  <2>1. t \in Txn
    BY DEF Txn
  <2>2. FreshOK(t)
    BY <1>1, <2>1 DEF FreshOK
  <2>. QED  BY <1>2, <2>1, <2>2, BeginGoes DEF ReadCreateInvoice, Reading
<1>3. CASE ReadRenew(w, c)
  <2>1. PICK paid \in BOOLEAN :
            Begin(w, [op |-> "renewSubscription", step |-> "read", tenant |-> c,
                      number |-> 0, markAsPaid |-> paid,
                      activates |-> paid \/ subscription[c].status = "ACTIVE"])
    BY <1>3 DEF ReadRenew
  <2>. DEFINE active == paid \/ subscription[c].status = "ACTIVE"
              t == [op |-> "renewSubscription", step |-> "read", tenant |-> c,
                    number |-> 0, markAsPaid |-> paid, activates |-> active]
  <2>2. active \in BOOLEAN
    OBVIOUS
  <2>. HIDE DEF active
  <2>3. t \in Txn
    BY <2>2 DEF Txn
  <2>4. FreshOK(t)
    BY <1>1, <2>3 DEF FreshOK
  <2>5. Begin(w, t) /\ UNCHANGED Tables
    BY <1>3, <2>1 DEF ReadRenew, active
  <2>. QED  BY <2>3, <2>4, <2>5, BeginGoes DEF Reading
<1>. QED  BY <1>2, <1>3

LEMMA CountReads ==
    ASSUME TypeOK, NEW w \in Worker, CountInvoices(w)
    PROVE  Reading(w)
<1>. DEFINE n == Cardinality(Rows) + 1
            t == [txn[w] EXCEPT !.step = "counted", !.number = n]
<1>1. n \in Nat
  BY RowsFinite
<1>2. txn[w] \in Txn /\ txn[w].op \in Numbering
  BY DEF CountInvoices, TypeOK, Numbering
<1>3. t \in Txn /\ t.op \in Numbering /\ t.number = n
  <2>. HIDE DEF n
  <2>1. CASE txn[w].op = "createInvoice"
    <3>1. txn[w] \in InvoiceTxn
      BY <1>2, <2>1, TxnFields
    <3>2. t \in InvoiceTxn /\ t.number = n
      BY <1>1, <3>1, CountedInvoice
    <3>. QED  BY <3>2, RecordOps DEF Numbering
  <2>2. CASE txn[w].op = "renewSubscription"
    <3>1. txn[w] \in RenewTxn
      BY <1>2, <2>2, TxnFields
    <3>2. t \in RenewTxn /\ t.number = n
      BY <1>1, <3>1, CountedRenewal
    <3>. QED  BY <3>2, RecordOps DEF Numbering
  <2>. QED  BY <1>2, <2>1, <2>2 DEF Numbering
<1>4. Continue(w, t) /\ UNCHANGED Tables
  BY DEF CountInvoices, NextInvoiceNumber
<1>5. FreshOK(t)
  BY <1>1, <1>3 DEF FreshOK, Numbering
<1>. QED  BY <1>3, <1>4, <1>5, ContinueGoes DEF Reading

LEMMA PaymentReads ==
    ASSUME TypeOK, NEW w \in Worker, NEW c \in Tenant, ReadCreatePayment(w, c)
    PROVE  Reading(w)
<1>1. PICK paid \in {{}} \cup {{i} : i \in Rows}, reactivate \in BOOLEAN :
          /\ \A i \in paid : invoice[i].tenant = c
          /\ Begin(w, [op |-> "createPayment", tenant |-> c, paid |-> paid,
                       reactivate |-> reactivate])
  BY DEF ReadCreatePayment
<1>. DEFINE t == [op |-> "createPayment", tenant |-> c, paid |-> paid,
                  reactivate |-> reactivate]
<1>2. paid \subseteq Rows /\ paid \in SUBSET Invoice
  BY DEF Rows
<1>3. t \in Txn
  BY <1>2 DEF Txn
<1>4. FreshOK(t)
  BY <1>1, <1>2, <1>3 DEF FreshOK, Numbering
<1>. QED  BY <1>1, <1>3, <1>4, BeginGoes DEF ReadCreatePayment, Reading

\* One of the two runs begins or goes on.
RunGoesOn(w) ==
    /\ UNCHANGED Tables
    /\ \E t \in Txn : t.op \in {"generate", "sync"} /\ (Begin(w, t) \/ Continue(w, t))

LEMMA RunSteps ==
    ASSUME TypeOK, NEW w \in Worker,
           ReadSubscriptions(w) \/ ReadInvoiced(w) \/ ReadUnpaid(w) \/ ReadDebtor(w)
    PROVE  RunGoesOn(w)
<1>. USE DEF RunGoesOn
<1>1. CASE ReadSubscriptions(w)
  <2>. DEFINE due == {t \in Tenant : /\ tenant[t] = "ACTIVE"
                                     /\ subscription[t].status = "ACTIVE"
                                     /\ subscription[t].paid}
              t == [op |-> "generate", step |-> "subscriptions", todo |-> due]
  <2>1. due \in SUBSET Tenant
    OBVIOUS
  <2>. HIDE DEF due
  <2>2. t \in Txn
    BY <2>1 DEF Txn
  <2>3. Begin(w, t) /\ UNCHANGED Tables
    BY <1>1 DEF ReadSubscriptions, due
  <2>. QED  BY <2>2, <2>3
<1>2. CASE ReadInvoiced(w)
  <2>. DEFINE t == [txn[w] EXCEPT !.step = "next", !.todo = @ \ Invoiced]
  <2>1. txn[w] \in GenerateTxn
    BY <1>2, TxnFields DEF ReadInvoiced, TypeOK
  <2>0. txn[w].todo \ Invoiced \in SUBSET Tenant
    BY <2>1 DEF GenerateTxn
  <2>2. t \in GenerateTxn
    BY <2>0, <2>1, NextInvoiced
  <2>3. t \in Txn /\ t.op = "generate"
    BY <2>2, RecordOps
  <2>. QED  BY <1>2, <2>3 DEF ReadInvoiced
<1>3. CASE ReadUnpaid(w)
  <2>. DEFINE due == {<<i, invoice[i].tenant>> : i \in UnpaidInvoices}
              t == [op |-> "sync", step |-> "next", tenant |-> {}, todo |-> due]
  <2>1. due \in SUBSET (Invoice \X Tenant)
    BY RowFields DEF UnpaidInvoices
  <2>. HIDE DEF due
  <2>2. t \in Txn
    BY <2>1 DEF Txn
  <2>3. Begin(w, t) /\ UNCHANGED Tables
    BY <1>3 DEF ReadUnpaid, due
  <2>. QED  BY <2>2, <2>3
<1>4. CASE ReadDebtor(w)
  <2>1. txn[w] \in SyncTxn
    BY <1>4, TxnFields DEF ReadDebtor, TypeOK
  <2>2. PICK due \in txn[w].todo :
            Continue(w, [txn[w] EXCEPT
                !.todo = @ \ {due},
                !.step = IF tenant[due[2]] = "ACTIVE" THEN "active" ELSE "next",
                !.tenant = IF tenant[due[2]] = "ACTIVE" THEN {due[2]} ELSE {}])
    BY <1>4 DEF ReadDebtor
  <2>. DEFINE rest == txn[w].todo \ {due}
              step == IF tenant[due[2]] = "ACTIVE" THEN "active" ELSE "next"
              who == IF tenant[due[2]] = "ACTIVE" THEN {due[2]} ELSE {}
              t == [txn[w] EXCEPT !.todo = rest, !.step = step, !.tenant = who]
  <2>3. /\ rest \in SUBSET (Invoice \X Tenant)
        /\ step \in {"next", "active"}
        /\ who \in SUBSET Tenant
    BY <2>1, <2>2 DEF SyncTxn
  <2>4. t \in SyncTxn
    <3>. HIDE DEF rest, step, who
    <3>. QED  BY <2>1, <2>3, NextDebtor
  <2>5. Continue(w, t) /\ UNCHANGED Tables
    BY <1>4, <2>2 DEF ReadDebtor
  <2>. HIDE DEF t
  <2>. QED  BY <2>4, <2>5, RecordOps
<1>. QED  BY <1>1, <1>2, <1>3, <1>4

LEMMA RunReads ==
    ASSUME TypeOK, NEW w \in Worker,
           ReadSubscriptions(w) \/ ReadInvoiced(w) \/ ReadUnpaid(w) \/ ReadDebtor(w)
    PROVE  Reading(w)
<1>0. RunGoesOn(w)
  BY RunSteps
<1>1. PICK t \in Txn : t.op \in {"generate", "sync"} /\ (Begin(w, t) \/ Continue(w, t))
  BY <1>0 DEF RunGoesOn
<1>2. FreshOK(t)
  BY <1>1, PlainFresh DEF Numbering
<1>3. Goes(w, t)
  BY <1>1, BeginGoes, ContinueGoes
<1>. QED  BY <1>0, <1>2, <1>3 DEF Reading, RunGoesOn
-----------------------------------------------------------------------------
(* What requests write                                                     *)

\* A request that ends without a new row.
LEMMA EndKeeps ==
    ASSUME Inv, ClubsStep, Edited, NEW w \in Worker, Goes(w, Idle)
    PROVE  Inv'
BY IdleFresh, Kept

LEMMA StatusKeeps ==
    ASSUME Inv, NEW w \in Worker, NEW t \in Tenant,
           CreateTenant(w, t) \/ SetTenantStatus(w, t)
    PROVE  Inv'
<1>1. TypeOK /\ StatusFollowsSubscription
  BY DEF Inv
<1>2. Goes(w, Idle) /\ Edited
  BY <1>1, AtOnceGoes, InvoicesUnchanged DEF CreateTenant, SetTenantStatus
<1>3. ClubsStep
  <2>1. CASE CreateTenant(w, t)
    BY <1>1, <2>1, TenantCreated
  <2>2. CASE SetTenantStatus(w, t)
    <3>1. PICK status \in HandStatus : tenant' = [tenant EXCEPT ![t] = status]
      BY <2>2 DEF SetTenantStatus
    <3>2. status \in {"SUSPENDED", "ACTIVE", "ARCHIVED"}
      BY ConstantsOK
    <3>3. Exists(t) /\ byHand' = byHand \cup {t} /\ subscription' = subscription
      BY <2>2 DEF SetTenantStatus
    <3>. QED  BY <1>1, <3>1, <3>2, <3>3, SetByHand
  <2>. QED  BY <2>1, <2>2
<1>. QED  BY <1>2, <1>3, EndKeeps

LEMMA SubscriptionKeeps ==
    ASSUME Inv, NEW w \in Worker, CommitUpdateSubscription(w) \/ CommitAssignPlan(w)
    PROVE  Inv'
<1>1. TypeOK /\ StatusFollowsSubscription
  BY DEF Inv
<1>2. Goes(w, Idle) /\ Edited
  BY <1>1, DoneGoes, InvoicesUnchanged DEF CommitUpdateSubscription, CommitAssignPlan
<1>. DEFINE t == txn[w].tenant
<1>3. /\ txn[w] \in Txn /\ txn[w].op \in {"updateSubscription", "assignPlan"}
      /\ Exists(t)
  BY <1>1 DEF CommitUpdateSubscription, CommitAssignPlan, TypeOK
<1>4. t \in Tenant /\ txn[w].status \in SubscriptionStatus
  BY <1>3, TxnFields
<1>5. CASE CommitUpdateSubscription(w)
  <2>1. [subscription[t] EXCEPT !.status = txn[w].status] \in SubscriptionRow
    BY <1>1, <1>4 DEF TypeOK, SubscriptionRow
  <2>2. Subscribe(t, [subscription[t] EXCEPT !.status = txn[w].status])
    BY <1>5 DEF CommitUpdateSubscription
  <2>3. ClubsStep
    BY <1>1, <1>3, <1>4, <2>1, <2>2, Subscribed
  <2>. QED  BY <1>2, <2>3, EndKeeps
<1>6. CASE CommitAssignPlan(w)
  <2>1. txn[w].paid \in BOOLEAN
    BY <1>3, <1>6, TxnFields DEF CommitAssignPlan
  <2>2. [status |-> txn[w].status, paid |-> txn[w].paid] \in SubscriptionRow
    BY <1>4, <2>1 DEF SubscriptionRow
  <2>3. Subscribe(t, [status |-> txn[w].status, paid |-> txn[w].paid])
    BY <1>6 DEF CommitAssignPlan
  <2>4. ClubsStep
    BY <1>1, <1>3, <1>4, <2>2, <2>3, Subscribed
  <2>. QED  BY <1>2, <2>4, EndKeeps
<1>. QED  BY <1>5, <1>6

\* The subscription of a tenant is activated, or left alone.
LEMMA Activated ==
    ASSUME TypeOK, StatusFollowsSubscription, NEW t \in Tenant, Exists(t),
           \/ Subscribe(t, [subscription[t] EXCEPT !.status = "ACTIVE"])
           \/ UNCHANGED Clubs
    PROVE  ClubsStep
<1>1. [subscription[t] EXCEPT !.status = "ACTIVE"] \in SubscriptionRow
  BY DEF TypeOK, SubscriptionRow, SubscriptionStatus
<1>. QED  BY <1>1, Subscribed, ClubsUnchanged

LEMMA NumberedKeeps ==
    ASSUME Inv, NEW w \in Worker, CommitCreateInvoice(w) \/ CommitRenew(w)
    PROVE  Inv'
<1>1. TypeOK /\ StatusFollowsSubscription /\ NumberInv
  BY DEF Inv
<1>2. txn[w] \in Txn /\ txn[w].op \in Numbering
  BY <1>1 DEF CommitCreateInvoice, CommitRenew, TypeOK, Numbering
<1>3. PICK t \in Tenant, n \in Nat : t = txn[w].tenant /\ n = txn[w].number
  BY <1>2, TxnFields DEF Numbering
<1>4. PICK status \in {"ISSUED", "PAID"} : CreateRow(t, n, status) /\ purged' = purged
  BY <1>3 DEF CommitCreateInvoice, CommitRenew
<1>5. Created(t, n) /\ Exists(t)
  BY <1>1, <1>3, <1>4, RowCreated
<1>6. Goes(w, Idle)
  BY <1>1, DoneGoes DEF CommitCreateInvoice, CommitRenew
<1>7. ClubsStep
  <2>1. \/ Subscribe(t, [subscription[t] EXCEPT !.status = "ACTIVE"])
        \/ UNCHANGED Clubs
    BY <1>3 DEF CommitCreateInvoice, CommitRenew, Clubs
  <2>. QED  BY <1>1, <1>3, <1>5, <2>1, Activated
<1>8. Exists(t)'
  BY <1>3, <1>5, <1>7 DEF ClubsStep, Exists
<1>9. ~purged => n <= Cardinality(Rows) + 1
  BY <1>1, <1>2, <1>3 DEF NumberInv
<1>10. Idle.op \notin Numbering
  BY DEF Idle, Numbering
<1>. QED  BY <1>3, <1>5, <1>6, <1>7, <1>8, <1>9, <1>10, IdleFresh, Grown

LEMMA MonthlyKeeps ==
    ASSUME Inv, NEW w \in Worker, CreateMonthlyInvoice(w)
    PROVE  Inv'
<1>1. TypeOK /\ StatusFollowsSubscription
  BY DEF Inv
<1>2. txn[w] \in GenerateTxn
  BY <1>1, TxnFields DEF CreateMonthlyInvoice, TypeOK
<1>3. PICK club \in txn[w].todo :
          /\ CreateRow(club, 0, "ISSUED")
          /\ Continue(w, [txn[w] EXCEPT !.todo = @ \ {club}])
  BY DEF CreateMonthlyInvoice
<1>. DEFINE rest == txn[w].todo \ {club}
            t == [txn[w] EXCEPT !.todo = rest]
<1>4. club \in Tenant /\ rest \in SUBSET Tenant
  BY <1>2, <1>3 DEF GenerateTxn
<1>5. t \in GenerateTxn
  <2>. HIDE DEF rest
  <2>. QED  BY <1>2, <1>4, NextInvoiced
<1>6. Goes(w, t)
  BY <1>1, <1>3, ContinueGoes
<1>7. FreshOK(t) /\ t.op \notin Numbering
  <2>. HIDE DEF t
  <2>. QED  BY <1>5, RecordOps DEF FreshOK, Numbering
<1>8. UNCHANGED Clubs /\ purged' = purged
  BY DEF CreateMonthlyInvoice
<1>9. ClubsStep
  BY <1>1, <1>8, ClubsUnchanged
<1>10. Created(club, 0) /\ Exists(club)
  BY <1>1, <1>3, <1>4, <1>8, RowCreated
<1>11. Exists(club)'
  BY <1>4, <1>9, <1>10 DEF ClubsStep, Exists
<1>12. 0 <= Cardinality(Rows) + 1
  BY RowsFinite
<1>. HIDE DEF t
<1>. QED  BY <1>4, <1>6, <1>7, <1>9, <1>10, <1>11, <1>12, Grown

LEMMA EditKeeps ==
    ASSUME Inv, NEW w \in Worker, NEW i \in Invoice, UpdateInvoice(w, i)
    PROVE  Inv'
<1>1. TypeOK /\ StatusFollowsSubscription /\ i \in Rows
  BY DEF Inv, UpdateInvoice
<1>2. PICK row \in InvoiceRow :
          /\ invoice' = [invoice EXCEPT ![i] = row]
          /\ row.status \notin {"NONE", "DELETED"}
          /\ row.tenant = invoice[i].tenant
          /\ row.number = invoice[i].number
  <2>1. CASE \E status \in EditedStatus :
                 invoice' = [invoice EXCEPT ![i] = [invoice[i] EXCEPT
                     !.status = status, !.voided = @ \/ status = "VOID"]]
    <3>1. PICK status \in EditedStatus :
              invoice' = [invoice EXCEPT ![i] = [invoice[i] EXCEPT
                  !.status = status, !.voided = @ \/ status = "VOID"]]
      BY <2>1
    <3>2. status \in {"DRAFT", "ISSUED", "PAID", "VOID"}
      BY ConstantsOK
    <3>. DEFINE b == invoice[i].voided \/ status = "VOID"
                row == [invoice[i] EXCEPT !.status = status, !.voided = b]
    <3>3. b \in BOOLEAN
      OBVIOUS
    <3>4. invoice' = [invoice EXCEPT ![i] = row]
      BY <3>1
    <3>5. /\ row \in InvoiceRow
          /\ row.status \notin {"NONE", "DELETED"}
          /\ row.tenant = invoice[i].tenant
          /\ row.number = invoice[i].number
      <4>. HIDE DEF b
      <4>. QED  BY <1>1, <3>2, <3>3, VoidEdit, ZenonT(40)
    <3>. HIDE DEF row
    <3>. QED  BY <3>4, <3>5
  <2>2. CASE invoice' = [invoice EXCEPT ![i] = [invoice[i] EXCEPT !.late = ~@]]
    <3>1. PICK b \in BOOLEAN : b = ~invoice[i].late
      OBVIOUS
    <3>. DEFINE row == [invoice[i] EXCEPT !.late = b]
    <3>2. invoice' = [invoice EXCEPT ![i] = row]
      BY <2>2, <3>1
    <3>3. /\ row \in InvoiceRow
          /\ row.status \notin {"NONE", "DELETED"}
          /\ row.tenant = invoice[i].tenant
          /\ row.number = invoice[i].number
      <4>1. b \in BOOLEAN
        BY <3>1
      <4>. QED  BY <1>1, <4>1, LateEdit
    <3>. HIDE DEF row
    <3>. QED  BY <3>2, <3>3
  <2>. QED  BY <2>1, <2>2 DEF UpdateInvoice
<1>3. purged' = purged /\ UNCHANGED Clubs /\ Goes(w, Idle)
  BY <1>1, AtOnceGoes DEF UpdateInvoice
<1>4. Edited
  <2>1. invoice' \in [Invoice -> InvoiceRow]
    BY <1>1, <1>2 DEF TypeOK
  <2>2. ASSUME NEW j \in Invoice
        PROVE  \/ invoice'[j] = invoice[j]
               \/ /\ j \in Rows
                  /\ invoice'[j].status \notin {"NONE", "DELETED"}
                  /\ invoice'[j].tenant = invoice[j].tenant
                  /\ invoice'[j].number = invoice[j].number
    <3>1. CASE j = i
      <4>1. invoice'[j] = row
        BY <1>1, <1>2, <3>1 DEF TypeOK
      <4>. QED  BY <1>1, <1>2, <3>1, <4>1
    <3>2. CASE j # i
      BY <1>1, <1>2, <3>2 DEF TypeOK
    <3>. QED  BY <3>1, <3>2
  <2>. QED  BY <1>1, <1>3, <2>1, <2>2, RowsEdited
<1>. QED  BY <1>1, <1>3, <1>4, ClubsUnchanged, EndKeeps

\* Time passes: no request takes a step.
LEMMA LateKeeps ==
    ASSUME Inv, NEW i \in Invoice, FallLate(i)
    PROVE  Inv'
<1>1. TypeOK /\ StatusFollowsSubscription /\ NumberInv /\ PaymentInv /\ i \in Rows
  BY DEF Inv, FallLate
<1>. DEFINE row == [invoice[i] EXCEPT !.late = TRUE]
<1>2. /\ row \in InvoiceRow
      /\ row.status \notin {"NONE", "DELETED"}
      /\ row.tenant = invoice[i].tenant
      /\ row.number = invoice[i].number
  BY <1>1, LateEdit
<1>3. invoice' = [invoice EXCEPT ![i] = row]
      /\ purged' = purged /\ UNCHANGED Clubs /\ UNCHANGED <<txn, overlapped>>
  BY DEF FallLate
<1>. HIDE DEF row
<1>4. Edited
  <2>1. invoice' \in [Invoice -> InvoiceRow]
    BY <1>1, <1>2, <1>3 DEF TypeOK
  <2>2. ASSUME NEW j \in Invoice
        PROVE  \/ invoice'[j] = invoice[j]
               \/ /\ j \in Rows
                  /\ invoice'[j].status \notin {"NONE", "DELETED"}
                  /\ invoice'[j].tenant = invoice[j].tenant
                  /\ invoice'[j].number = invoice[j].number
    <3>1. CASE j = i
      <4>1. invoice'[j] = row
        BY <1>1, <1>3, <3>1 DEF TypeOK
      <4>. QED  BY <1>1, <1>2, <3>1, <4>1
    <3>2. CASE j # i
      BY <1>1, <1>3, <3>2 DEF TypeOK
    <3>. QED  BY <3>1, <3>2
  <2>. QED  BY <1>1, <1>3, <2>1, <2>2, RowsEdited
<1>5. ClubsStep
  BY <1>1, <1>3, ClubsUnchanged
<1>6. TypeOK'
  BY <1>1, <1>3, <1>4, <1>5, TypeKept DEF TypeOK
<1>7. NumberInv'
  <2>1. Rows' = Rows /\ Cardinality(Rows)' = Cardinality(Rows) /\ txn' = txn
    BY <1>3, <1>4 DEF Edited
  <2>. QED  BY <1>1, <1>4, <2>1 DEF NumberInv, Edited
<1>8. PaymentInv'
  <2>1. \A j \in Rows : j \in Rows' /\ invoice'[j].tenant = invoice[j].tenant
    BY <1>4 DEF Edited
  <2>. QED  BY <1>1, <1>3, <1>5, <2>1, PaymentKept DEF PaymentInv
<1>. QED  BY <1>5, <1>6, <1>7, <1>8 DEF Inv, ClubsStep

LEMMA PaymentKeeps ==
    ASSUME Inv, NEW w \in Worker, CommitCreatePayment(w)
    PROVE  Inv'
<1>1. TypeOK /\ StatusFollowsSubscription /\ PaymentInv
  BY DEF Inv
<1>2. txn[w] \in Txn /\ txn[w].op = "createPayment" /\ Exists(txn[w].tenant)
  BY <1>1 DEF CommitCreatePayment, TypeOK
<1>3. txn[w].tenant \in Tenant /\ txn[w].paid \in SUBSET Invoice
  BY <1>2, TxnFields
<1>4. \A i \in txn[w].paid : i \in Rows
  BY <1>1, <1>2 DEF PaymentInv, Exists
<1>5. /\ invoice' = [i \in Invoice |->
             IF i \in txn[w].paid THEN [invoice[i] EXCEPT !.status = "PAID"] ELSE invoice[i]]
      /\ purged' = purged
      /\ Done(w)
      /\ \/ Subscribe(txn[w].tenant,
                      [subscription[txn[w].tenant] EXCEPT !.status = "ACTIVE"])
         \/ UNCHANGED Clubs
  BY DEF CommitCreatePayment
<1>6. ClubsStep
  BY <1>1, <1>2, <1>3, <1>5, Activated
<1>7. Edited
  <2>1. ASSUME NEW j \in txn[w].paid
        PROVE  /\ j \in Rows /\ invoice'[j] \in InvoiceRow
               /\ invoice'[j].status \notin {"NONE", "DELETED"}
               /\ invoice'[j].tenant = invoice[j].tenant
               /\ invoice'[j].number = invoice[j].number
    <3>. DEFINE row == [invoice[j] EXCEPT !.status = "PAID"]
    <3>1. j \in Rows
      BY <1>4
    <3>2. /\ row \in InvoiceRow
          /\ row.status \notin {"NONE", "DELETED"}
          /\ row.tenant = invoice[j].tenant
          /\ row.number = invoice[j].number
      BY <1>1, <3>1, StatusEdit
    <3>3. invoice'[j] = row
      BY <1>3, <1>5
    <3>. HIDE DEF row
    <3>. QED  BY <3>1, <3>2, <3>3
  <2>2. \A j \in Invoice \ txn[w].paid : invoice'[j] = invoice[j]
    BY <1>5
  <2>3. invoice' \in [Invoice -> InvoiceRow]
    <3>. DEFINE row(i) ==
             IF i \in txn[w].paid THEN [invoice[i] EXCEPT !.status = "PAID"] ELSE invoice[i]
    <3>1. invoice' = [i \in Invoice |-> row(i)]
      BY <1>5
    <3>2. \A j \in Invoice : invoice'[j] \in InvoiceRow
      BY <1>1, <2>1, <2>2 DEF TypeOK
    <3>. HIDE DEF row
    <3>. QED  BY <3>1, <3>2
  <2>. QED  BY <1>1, <1>5, <2>1, <2>2, <2>3, RowsEdited
<1>. QED  BY <1>1, <1>5, <1>6, <1>7, DoneGoes, EndKeeps

LEMMA SuspendKeeps ==
    ASSUME Inv, NEW w \in Worker, SuspendDebtor(w)
    PROVE  Inv'
<1>. DEFINE t == [txn[w] EXCEPT !.step = "next", !.tenant = {}]
<1>1. TypeOK /\ StatusFollowsSubscription
  BY DEF Inv
<1>2. txn[w] \in SyncTxn
  BY <1>1, TxnFields DEF SuspendDebtor, TypeOK
<1>3. t \in SyncTxn
  <2>1. txn[w].todo \in SUBSET (Invoice \X Tenant)
    BY <1>2 DEF SyncTxn
  <2>. QED  BY <1>2, <2>1, NextDebtor
<1>4. Goes(w, t)
  BY <1>1, ContinueGoes DEF SuspendDebtor
<1>5. FreshOK(t)
  <2>. HIDE DEF t
  <2>. QED  BY <1>3, RecordOps DEF FreshOK, Numbering
<1>6. PICK club \in txn[w].tenant :
          /\ Exists(club)
          /\ tenant' = [tenant EXCEPT ![club] = "SUSPENDED"]
          /\ byHand' = byHand \cup {club}
  BY DEF SuspendDebtor
<1>7. club \in Tenant
  BY <1>2, <1>6 DEF SyncTxn
<1>8. UNCHANGED <<subscription, invoice, purged>>
  BY DEF SuspendDebtor
<1>9. ClubsStep
  BY <1>1, <1>6, <1>7, <1>8, SetByHand
<1>10. Edited
  BY <1>1, <1>8, InvoicesUnchanged
<1>. HIDE DEF t
<1>. QED  BY <1>4, <1>5, <1>9, <1>10, Kept

LEMMA DeleteKeeps ==
    ASSUME Inv, NEW w \in Worker, CommitDeleteTenant(w)
    PROVE  Inv'
<1>1. TypeOK /\ StatusFollowsSubscription /\ NumberInv /\ PaymentInv
  BY DEF Inv
<1>2. PICK t \in Tenant : t = txn[w].tenant /\ Exists(t)
  BY <1>1, TxnFields DEF CommitDeleteTenant, TypeOK
<1>. DEFINE mine == {i \in Rows : invoice[i].tenant = t}
<1>3. /\ tenant' = [tenant EXCEPT ![t] = "DELETED"]
      /\ invoice' = [i \in Invoice |->
             IF i \in mine THEN [status |-> "DELETED"] ELSE invoice[i]]
      /\ purged' = (purged \/ mine # {})
      /\ Done(w)
      /\ UNCHANGED <<subscription, byHand>>
  BY <1>2 DEF CommitDeleteTenant
<1>4. /\ txn' \in [Worker -> Txn] /\ txn'[w] = Idle /\ overlapped' \in BOOLEAN
      /\ \A v \in Worker \ {w} : txn'[v] = txn[v]
  BY <1>1, <1>3, DoneGoes, IdleFresh, KeptRequests DEF Goes
<1>5. invoice' \in [Invoice -> InvoiceRow]
  <2>1. [status |-> "DELETED"] \in InvoiceRow
    BY DEF InvoiceRow
  <2>. HIDE DEF mine
  <2>. QED  BY <1>1, <1>3, <2>1 DEF TypeOK
<1>6. /\ Rows' = Rows \ mine
      /\ \A i \in Invoice \ mine : invoice'[i] = invoice[i]
  BY <1>3 DEF Rows
<1>7. \A c \in Tenant : tenant'[c] = IF c = t THEN "DELETED" ELSE tenant[c]
  BY <1>1, <1>3 DEF TypeOK
<1>8. TypeOK'
  <2>1. ASSUME NEW i \in Rows'  PROVE Exists(invoice[i].tenant)'
    <3>1. i \in Rows /\ i \notin mine /\ invoice'[i] = invoice[i]
      BY <1>6, <2>1 DEF Rows
    <3>2. invoice[i].tenant \in Tenant /\ Exists(invoice[i].tenant)
      BY <1>1, <3>1, RowFields
    <3>3. invoice[i].tenant # t
      BY <3>1
    <3>. QED  BY <1>7, <3>1, <3>2, <3>3 DEF Exists
  <2>2. tenant' \in [Tenant -> TenantStatus]
    BY <1>1, <1>3 DEF TypeOK, TenantStatus
  <2>3. purged' \in BOOLEAN
    BY <1>1, <1>3 DEF TypeOK
  <2>4. subscription' \in [Tenant -> SubscriptionRow] /\ byHand' \subseteq Tenant
    BY <1>1, <1>3 DEF TypeOK
  <2>. QED  BY <1>4, <1>5, <2>1, <2>2, <2>3, <2>4 DEF TypeOK
<1>9. StatusFollowsSubscription'
  BY <1>1, <1>3, <1>7 DEF StatusFollowsSubscription, Exists, TenantStatusFor
<1>10. NumberInv'
  <2>1. SUFFICES ASSUME ~purged'
                 PROVE  /\ \A i \in Rows' : invoice'[i].number <= Cardinality(Rows)'
                        /\ \A v \in Worker : txn'[v].op \in Numbering =>
                               txn'[v].number <= Cardinality(Rows)' + 1
    BY DEF NumberInv
  <2>2. ~purged /\ mine = {}
    BY <1>3, <2>1
  <2>3. Rows' = Rows /\ Cardinality(Rows)' = Cardinality(Rows)
    BY <1>6, <2>2
  <2>4. \A i \in Rows : invoice'[i] = invoice[i]
    BY <1>6, <2>2 DEF Rows
  <2>5. Idle.op \notin Numbering
    BY DEF Idle, Numbering
  <2>. QED  BY <1>1, <1>4, <2>2, <2>3, <2>4, <2>5 DEF NumberInv
<1>11. PaymentInv'
  <2>1. ASSUME NEW v \in Worker, txn'[v].op = "createPayment", NEW i \in txn'[v].paid
        PROVE  (i \in Rows /\ invoice[i].tenant = txn[v].tenant)'
               \/ tenant'[txn'[v].tenant] = "DELETED"
    <3>1. v # w /\ txn'[v] = txn[v]
      BY <1>4, <2>1 DEF Idle
    <3>2. txn[v].tenant \in Tenant
      BY <1>1, <2>1, <3>1, TxnFields DEF TypeOK
    <3>3. CASE tenant[txn[v].tenant] = "DELETED"
      BY <1>7, <3>1, <3>2, <3>3
    <3>4. CASE i \in Rows /\ invoice[i].tenant = txn[v].tenant
      <4>1. CASE i \in mine
        BY <1>7, <3>1, <3>4, <4>1
      <4>2. CASE i \notin mine
        BY <1>6, <3>1, <3>4, <4>2 DEF Rows
      <4>. QED  BY <4>1, <4>2
    <3>. QED  BY <1>1, <2>1, <3>1, <3>3, <3>4 DEF PaymentInv
  <2>. QED  BY <2>1 DEF PaymentInv
<1>. QED  BY <1>8, <1>9, <1>10, <1>11 DEF Inv
-----------------------------------------------------------------------------
(* The theorems                                                            *)

LEMMA InitInv == Init => Inv
<1>. SUFFICES ASSUME Init  PROVE Inv
  OBVIOUS
<1>1. Rows = {}
  BY DEF Init, Rows, NoInvoice
<1>2. \A w \in Worker : txn[w] = Idle
  BY DEF Init, NoRequests
<1>3. TypeOK
  <2>1. NoInvoice \in InvoiceRow
    BY DEF NoInvoice, InvoiceRow
  <2>2. txn \in [Worker -> Txn] /\ overlapped \in BOOLEAN
    BY DEF Init, NoRequests, Txn
  <2>. QED  BY <1>1, <2>1, <2>2
            DEF Init, TypeOK, TenantStatus, SubscriptionRow, SubscriptionStatus
<1>4. StatusFollowsSubscription
  BY DEF Init, StatusFollowsSubscription, Exists
<1>5. NumberInv /\ PaymentInv
  BY <1>1, <1>2 DEF NumberInv, PaymentInv, Idle, Numbering
<1>. QED  BY <1>3, <1>4, <1>5 DEF Inv

LEMMA NextInv == Inv /\ [Next]_vars => Inv'
<1>. SUFFICES ASSUME Inv, [Next]_vars  PROVE Inv'
  OBVIOUS
<1>1. TypeOK
  BY DEF Inv
<1>2. ASSUME NEW w \in Worker, Abort(w) \/ EndGenerate(w) \/ EndSync(w)  PROVE Inv'
  BY <1>1, <1>2, EndReads, ReadingKeeps
<1>3. ASSUME NEW w \in Worker, NEW t \in Tenant,
             ReadDeleteTenant(w, t) \/ ReadUpdateSubscription(w, t) \/ ReadAssignPlan(w, t)
      PROVE  Inv'
  BY <1>1, <1>3, TenantReads, ReadingKeeps
<1>4. ASSUME NEW w \in Worker, NEW t \in Tenant, ReadCreateInvoice(w, t) \/ ReadRenew(w, t)
      PROVE  Inv'
  BY <1>1, <1>4, NumberReads, ReadingKeeps
<1>5. ASSUME NEW w \in Worker, NEW t \in Tenant, ReadCreatePayment(w, t)  PROVE Inv'
  BY <1>1, <1>5, PaymentReads, ReadingKeeps
<1>6. ASSUME NEW w \in Worker,
             \/ CountInvoices(w) \/ ReadSubscriptions(w) \/ ReadInvoiced(w)
             \/ ReadUnpaid(w) \/ ReadDebtor(w)
      PROVE  Inv'
  BY <1>1, <1>6, CountReads, RunReads, ReadingKeeps
<1>7. ASSUME NEW w \in Worker, NEW t \in Tenant, CreateTenant(w, t) \/ SetTenantStatus(w, t)
      PROVE  Inv'
  BY <1>7, StatusKeeps
<1>8. ASSUME NEW w \in Worker, NEW i \in Invoice, UpdateInvoice(w, i)  PROVE Inv'
  BY <1>8, EditKeeps
<1>9. ASSUME NEW i \in Invoice, FallLate(i)  PROVE Inv'
  BY <1>9, LateKeeps
<1>10. ASSUME NEW w \in Worker,
              \/ CommitDeleteTenant(w) \/ CommitUpdateSubscription(w)
              \/ CommitAssignPlan(w) \/ CommitCreateInvoice(w) \/ CommitRenew(w)
              \/ CommitCreatePayment(w) \/ CreateMonthlyInvoice(w) \/ SuspendDebtor(w)
       PROVE  Inv'
  BY <1>10, DeleteKeeps, SubscriptionKeeps, NumberedKeeps, PaymentKeeps, MonthlyKeeps,
     SuspendKeeps
<1>11. CASE UNCHANGED vars
  BY <1>11 DEF vars, Inv, TypeOK, StatusFollowsSubscription, NumberInv, PaymentInv, Rows,
     Exists, TenantStatusFor
<1>. QED
  BY <1>2, <1>3, <1>4, <1>5, <1>6, <1>7, <1>8, <1>9, <1>10, <1>11 DEF Next

\* Tenants, subscriptions, invoices and requests keep their types, and no invoice
\* outlives its tenant, whatever requests overlap (platform.service.ts:2756-2784).
THEOREM TypeCorrect == Spec => []TypeOK
<1>1. Inv => TypeOK
  BY DEF Inv
<1>. QED  BY <1>1, InitInv, NextInv, PTL DEF Spec

\* However stale its reads, no handler that writes a subscription lets the status of
\* the tenant drift from it (platform.service.ts:2997-3282, 3793-3840).
THEOREM StatusFollows == Spec => []StatusFollowsSubscription
<1>1. Inv => StatusFollowsSubscription
  BY DEF Inv
<1>. QED  BY <1>1, InitInv, NextInv, PTL DEF Spec

\* Whatever requests count at once, a request that counts next finds a number that
\* is not taken, as long as no tenant with invoices was deleted
\* (platform.service.ts:4495-4507).
THEOREM NumberIsFree == Spec => []NextNumberFree
<1>1. Inv => NextNumberFree
  <2>. SUFFICES ASSUME Inv, ~purged, NEW i \in Rows  PROVE invoice[i].number # NextInvoiceNumber
    BY DEF NextNumberFree
  <2>1. invoice[i].number \in Nat /\ invoice[i].number <= Cardinality(Rows)
    BY RowFields DEF Inv, NumberInv
  <2>2. Cardinality(Rows) \in Nat
    BY RowsFinite
  <2>. QED  BY <2>1, <2>2 DEF NextInvoiceNumber
<1>. QED  BY <1>1, InitInv, NextInv, PTL DEF Spec
-----------------------------------------------------------------------------
(* When requests do not overlap: billed once, and suspended for a debt     *)

\* Unless requests have overlapped, one is in flight at most.
Alone == ~overlapped => \A v, w \in Worker : txn[v] = Idle \/ txn[w] = Idle \/ v = w

\* A step of w that is remembered as an overlap if another request is in flight.
OwnStep(w, t) ==
    /\ txn' = [txn EXCEPT ![w] = t]
    /\ ~overlapped' => ~overlapped /\ \A v \in Worker \ {w} : txn[v] = Idle

\* The invoices of the month that were never voided: each tenant has one at most.
Monthly == {i \in Rows : invoice[i].number = 0 /\ ~invoice[i].voided}
OneMonthly == \A i, j \in Monthly : invoice[i].tenant = invoice[j].tenant => i = j

\* An invoice that is void has been voided, and numbers by hand begin at one.
VoidMarked == \A i \in Rows : invoice[i].status = "VOID" => invoice[i].voided
NumberRead(t) == t.op \in Numbering /\ t.step = "counted" => t.number # 0

Due(i, t) ==
    /\ i \in Rows
    /\ invoice[i].tenant = t /\ invoice[i].status = "ISSUED" /\ invoice[i].late

\* What the two runs have read still stands: who is still to be invoiced has only void
\* invoices, and who is to be suspended still owes.
Current(t) ==
    /\ t.op = "generate" /\ t.step = "next" =>
          \A i \in Rows : invoice[i].tenant \in t.todo => invoice[i].status = "VOID"
    /\ t.op = "sync" => \A i \in Invoice, c \in Tenant : <<i, c>> \in t.todo => Due(i, c)
    /\ t.op = "sync" => \A c \in t.tenant : \E i \in Rows : Due(i, c)

RunInv ==
    /\ Inv /\ Alone /\ VoidMarked
    /\ \A w \in Worker : NumberRead(txn[w])
    /\ ~overlapped => OneMonthly /\ \A w \in Worker : Current(txn[w])

LEMMA BeginAlone ==
    ASSUME NEW w \in Worker, NEW t, Begin(w, t)
    PROVE  OwnStep(w, t)
BY DEF Begin, Overlap, OwnStep

LEMMA ContinueAlone ==
    ASSUME Alone, NEW w \in Worker, NEW t, Continue(w, t), txn[w] # Idle
    PROVE  OwnStep(w, t)
BY DEF Alone, Continue, OwnStep

LEMMA DoneAlone ==
    ASSUME Alone, NEW w \in Worker, Done(w), txn[w] # Idle
    PROVE  OwnStep(w, Idle)
BY DEF Alone, Done, Continue, OwnStep

LEMMA AtOnceAlone ==
    ASSUME TypeOK, NEW w \in Worker, AtOnce(w)
    PROVE  OwnStep(w, Idle)
<1>1. txn' = [txn EXCEPT ![w] = Idle]
  BY DEF AtOnce, TypeOK
<1>2. ~overlapped' => ~overlapped /\ \A v \in Worker \ {w} : txn[v] = Idle
  BY DEF AtOnce, Overlap
<1>. QED  BY <1>1, <1>2 DEF OwnStep

LEMMA IdleStands == Current(Idle) /\ NumberRead(Idle)
BY DEF Current, NumberRead, Idle, Numbering

\* When requests do not overlap, only the request that takes a step has read anything.
LEMMA OwnKeeps ==
    ASSUME RunInv, Inv', NEW w \in Worker, NEW t, OwnStep(w, t), NumberRead(t), VoidMarked',
           ~overlapped' => OneMonthly' /\ Current(txn[w])'
    PROVE  RunInv'
<1>1. /\ txn'[w] = t
      /\ \A v \in Worker \ {w} : txn'[v] = txn[v]
  BY DEF RunInv, Inv, TypeOK, OwnStep
<1>2. Alone'
  BY <1>1 DEF Alone, OwnStep
<1>3. \A v \in Worker : NumberRead(txn'[v])
  BY <1>1 DEF RunInv
<1>4. ASSUME ~overlapped', NEW v \in Worker
      PROVE  Current(txn[v])'
  <2>1. CASE v = w
    BY <1>4, <2>1
  <2>2. CASE v # w
    <3>1. txn'[v].op = "idle"
      BY <1>1, <1>4, <2>2 DEF OwnStep, Idle
    <3>. QED  BY <3>1 DEF Current
  <2>. QED  BY <2>1, <2>2
<1>5. \A v \in Worker : NumberRead(txn[v])'
  BY <1>3 DEF NumberRead
<1>. QED  BY <1>2, <1>4, <1>5 DEF RunInv

\* A step that adds no row, gives no row to another tenant, and clears no voidedAt.
Settling ==
    /\ Rows' \subseteq Rows
    /\ \A i \in Rows' : /\ invoice'[i].tenant = invoice[i].tenant
                        /\ invoice'[i].number = invoice[i].number
                        /\ invoice[i].voided => invoice'[i].voided

LEMMA SettlingKeeps ==
    ASSUME OneMonthly, Settling
    PROVE  OneMonthly'
<1>1. \A i \in Monthly' : i \in Monthly /\ invoice'[i].tenant = invoice[i].tenant
  BY DEF Monthly, Settling
<1>. QED  BY <1>1 DEF OneMonthly

LEMMA UnchangedSettles ==
    ASSUME VoidMarked, UNCHANGED invoice
    PROVE  Settling /\ Rows' = Rows /\ VoidMarked'
BY DEF Settling, Rows, VoidMarked

\* A request that ends, or begins without having read what the runs read.
LEMMA PlainKeeps ==
    ASSUME RunInv, Inv', NEW w \in Worker, NEW t, OwnStep(w, t), NumberRead(t),
           t.op \notin {"generate", "sync"}, Settling, VoidMarked'
    PROVE  RunInv'
<1>1. txn'[w] = t
  BY DEF RunInv, Inv, TypeOK, OwnStep
<1>2. Current(txn[w])'
  BY <1>1 DEF Current
<1>3. ~overlapped' => OneMonthly'
  BY SettlingKeeps DEF OwnStep, RunInv
<1>. QED  BY <1>2, <1>3, OwnKeeps

\* Requests that write no invoice and are not one of the runs.
LEMMA RequestsRun ==
    ASSUME RunInv, Inv', NEW w \in Worker, NEW c \in Tenant,
           \/ CreateTenant(w, c) \/ SetTenantStatus(w, c)
           \/ ReadDeleteTenant(w, c) \/ ReadUpdateSubscription(w, c) \/ ReadAssignPlan(w, c)
           \/ ReadCreateInvoice(w, c) \/ ReadRenew(w, c) \/ ReadCreatePayment(w, c)
    PROVE  RunInv'
<1>0. TypeOK /\ VoidMarked
  BY DEF RunInv, Inv
<1>1. UNCHANGED invoice
  BY DEF CreateTenant, SetTenantStatus, ReadDeleteTenant, ReadUpdateSubscription,
         ReadAssignPlan, ReadCreateInvoice, ReadRenew, ReadCreatePayment, Tables
<1>2. Settling /\ VoidMarked'
  BY <1>0, <1>1, UnchangedSettles
<1>3. ASSUME NEW t, Begin(w, t), t.op \notin {"generate", "sync"}, NumberRead(t)
      PROVE  RunInv'
  BY <1>2, <1>3, BeginAlone, PlainKeeps
<1>4. CASE CreateTenant(w, c) \/ SetTenantStatus(w, c)
  <2>1. OwnStep(w, Idle)
    BY <1>0, <1>4, AtOnceAlone DEF CreateTenant, SetTenantStatus
  <2>2. Idle.op \notin {"generate", "sync"}
    BY DEF Idle
  <2>. QED  BY <1>2, <2>1, <2>2, IdleStands, PlainKeeps
<1>5. CASE ReadDeleteTenant(w, c)
  <2>1. PICK t : t = [op |-> "deleteTenant", tenant |-> c]
    OBVIOUS
  <2>2. Begin(w, t)
    BY <1>5, <2>1 DEF ReadDeleteTenant
  <2>. QED  BY <1>3, <2>1, <2>2 DEF NumberRead, Numbering
<1>6. CASE ReadUpdateSubscription(w, c)
  <2>1. PICK s : Begin(w, [op |-> "updateSubscription", tenant |-> c, status |-> s])
    BY <1>6 DEF ReadUpdateSubscription
  <2>. QED  BY <1>3, <2>1 DEF NumberRead, Numbering
<1>7. CASE ReadAssignPlan(w, c)
  <2>1. PICK p, s : Begin(w, [op |-> "assignPlan", tenant |-> c, paid |-> p, status |-> s])
    BY <1>7 DEF ReadAssignPlan
  <2>. QED  BY <1>3, <2>1 DEF NumberRead, Numbering
<1>8. CASE ReadCreateInvoice(w, c)
  <2>1. PICK t : t = [op |-> "createInvoice", step |-> "read", tenant |-> c, number |-> 0]
    OBVIOUS
  <2>2. Begin(w, t)
    BY <1>8, <2>1 DEF ReadCreateInvoice
  <2>. QED  BY <1>3, <2>1, <2>2 DEF NumberRead
<1>9. CASE ReadRenew(w, c)
  <2>1. PICK m, a : Begin(w, [op |-> "renewSubscription", step |-> "read", tenant |-> c,
                              number |-> 0, markAsPaid |-> m, activates |-> a])
    BY <1>9 DEF ReadRenew
  <2>. QED  BY <1>3, <2>1 DEF NumberRead
<1>10. CASE ReadCreatePayment(w, c)
  <2>1. PICK p, r : Begin(w, [op |-> "createPayment", tenant |-> c, paid |-> p,
                              reactivate |-> r])
    BY <1>10 DEF ReadCreatePayment
  <2>. QED  BY <1>3, <2>1 DEF NumberRead, Numbering
<1>. QED  BY <1>4, <1>5, <1>6, <1>7, <1>8, <1>9, <1>10

\* Requests that end without writing an invoice.
LEMMA EndsRun ==
    ASSUME RunInv, Inv', NEW w \in Worker,
           \/ Abort(w) \/ EndGenerate(w) \/ EndSync(w)
           \/ CommitUpdateSubscription(w) \/ CommitAssignPlan(w)
    PROVE  RunInv'
<1>1. Alone /\ VoidMarked
  BY DEF RunInv
<1>2. Done(w) /\ UNCHANGED invoice /\ txn[w] # Idle
  BY DEF Abort, EndGenerate, EndSync, CommitUpdateSubscription, CommitAssignPlan, Tables, Idle
<1>3. OwnStep(w, Idle) /\ Idle.op \notin {"generate", "sync"}
  BY <1>1, <1>2, DoneAlone DEF Idle
<1>4. Settling /\ VoidMarked'
  BY <1>1, <1>2, UnchangedSettles
<1>. QED  BY <1>3, <1>4, IdleStands, PlainKeeps

LEMMA CountRun ==
    ASSUME RunInv, Inv', NEW w \in Worker, CountInvoices(w)
    PROVE  RunInv'
<1>. PICK n : n = Cardinality(Rows) + 1
  OBVIOUS
<1>0. TypeOK /\ Alone /\ VoidMarked
  BY DEF RunInv, Inv
<1>1. n # 0 /\ n \in Nat
  BY RowsFinite
<1>2. PICK t : t = [txn[w] EXCEPT !.step = "counted", !.number = n]
  OBVIOUS
<1>3. txn[w] \in InvoiceTxn \/ txn[w] \in RenewTxn
  BY <1>0, TxnFields DEF CountInvoices, TypeOK
<1>4. t.op \in Numbering /\ t.number = n
  <2>1. CASE txn[w] \in InvoiceTxn
    <3>1. t \in InvoiceTxn /\ t.number = n
      BY <1>1, <1>2, <2>1, CountedInvoice
    <3>. QED  BY <3>1, RecordOps DEF Numbering
  <2>2. CASE txn[w] \in RenewTxn
    <3>1. t \in RenewTxn /\ t.number = n
      BY <1>1, <1>2, <2>2, CountedRenewal
    <3>. QED  BY <3>1, RecordOps DEF Numbering
  <2>. QED  BY <1>3, <2>1, <2>2
<1>5. Continue(w, t) /\ UNCHANGED invoice /\ txn[w] # Idle
  BY <1>2 DEF CountInvoices, NextInvoiceNumber, Tables, Idle
<1>6. OwnStep(w, t)
  BY <1>0, <1>5, ContinueAlone
<1>7. Settling /\ VoidMarked'
  BY <1>0, <1>5, UnchangedSettles
<1>. QED  BY <1>1, <1>4, <1>6, <1>7, PlainKeeps DEF NumberRead, Numbering

\* What a new row is.
LEMMA NewRow ==
    ASSUME TypeOK, NEW t, NEW n, NEW s, CreateRow(t, n, s), s \notin {"NONE", "DELETED", "VOID"}
    PROVE  \E i \in Invoice \ Rows :
              /\ Rows' = Rows \cup {i}
              /\ invoice'[i] = [status |-> s, tenant |-> t, number |-> n, voided |-> FALSE,
                                late |-> FALSE]
              /\ \A j \in Rows : invoice'[j] = invoice[j]
<1>1. PICK i \in Invoice :
          /\ invoice[i] = NoInvoice
          /\ invoice' = [invoice EXCEPT ![i] =
                 [status |-> s, tenant |-> t, number |-> n, voided |-> FALSE,
                  late |-> FALSE]]
  BY DEF CreateRow
<1>2. PICK row : row = [status |-> s, tenant |-> t, number |-> n, voided |-> FALSE,
                        late |-> FALSE]
  OBVIOUS
<1>3. invoice'[i] = row /\ \A j \in Invoice \ {i} : invoice'[j] = invoice[j]
  BY <1>1, <1>2 DEF TypeOK
<1>4. i \notin Rows /\ row.status \notin {"NONE", "DELETED"}
  BY <1>1, <1>2 DEF Rows, NoInvoice
<1>5. Rows' = Rows \cup {i}
  BY <1>3, <1>4 DEF Rows
<1>6. \A j \in Rows : invoice'[j] = invoice[j]
  BY <1>3, <1>4 DEF Rows
<1>. QED  BY <1>2, <1>3, <1>4, <1>5, <1>6

\* A row with a number made by hand is not of the monthly run.
LEMMA NumberedRun ==
    ASSUME RunInv, Inv', NEW w \in Worker, CommitCreateInvoice(w) \/ CommitRenew(w)
    PROVE  RunInv'
<1>. PICK t : t = txn[w]
  OBVIOUS
<1>0. TypeOK /\ Alone /\ VoidMarked
  BY DEF RunInv, Inv
<1>1. t.op \in Numbering /\ t.step = "counted" /\ txn[w] # Idle /\ Done(w)
  BY DEF CommitCreateInvoice, CommitRenew, Numbering, Idle
<1>2. t.number # 0
  BY <1>1 DEF RunInv, NumberRead
<1>3. PICK s \in {"ISSUED", "PAID"} : CreateRow(t.tenant, t.number, s)
  BY DEF CommitCreateInvoice, CommitRenew
<1>4. PICK i \in Invoice \ Rows :
          /\ Rows' = Rows \cup {i}
          /\ invoice'[i] = [status |-> s, tenant |-> t.tenant, number |-> t.number,
                            voided |-> FALSE, late |-> FALSE]
          /\ \A j \in Rows : invoice'[j] = invoice[j]
  BY <1>0, <1>3, NewRow
<1>5. VoidMarked'
  BY <1>0, <1>4 DEF VoidMarked
<1>6. ASSUME OneMonthly
      PROVE  OneMonthly'
  <2>1. \A j \in Monthly' : j \in Monthly /\ invoice'[j].tenant = invoice[j].tenant
    BY <1>2, <1>4 DEF Monthly
  <2>. QED  BY <1>6, <2>1 DEF OneMonthly
<1>7. OwnStep(w, Idle) /\ txn'[w] = Idle
  BY <1>0, <1>1, DoneAlone DEF OwnStep, TypeOK
<1>8. Current(txn[w])'
  BY <1>7 DEF Current, Idle
<1>9. ~overlapped' => OneMonthly'
  BY <1>6, <1>7 DEF RunInv, OwnStep
<1>. QED  BY <1>5, <1>7, <1>8, <1>9, IdleStands, OwnKeeps

\* An invoice whose status, date of payment or dueAt is written.
LEMMA EditRun ==
    ASSUME RunInv, Inv', NEW w \in Worker, NEW i \in Invoice, UpdateInvoice(w, i)
    PROVE  RunInv'
<1>0. TypeOK /\ VoidMarked /\ i \in Rows
  BY DEF RunInv, Inv, UpdateInvoice
<1>. PICK old : old = invoice[i]
  OBVIOUS
<1>. PICK new : new = invoice'[i]
  OBVIOUS
<1>1. old \in [status : {"DRAFT", "ISSUED", "PAID", "VOID"}, tenant : Tenant,
               voided : BOOLEAN, number : Nat, late : BOOLEAN]
  BY <1>0, RowFields
<1>2. /\ new.tenant = old.tenant /\ new.number = old.number
      /\ new.status \notin {"NONE", "DELETED"}
      /\ old.voided => new.voided
      /\ new.status = "VOID" => new.voided
      /\ \A j \in Invoice \ {i} : invoice'[j] = invoice[j]
  <2>1. CASE \E s \in EditedStatus :
                 invoice' = [invoice EXCEPT ![i] = [invoice[i] EXCEPT
                     !.status = s, !.voided = @ \/ s = "VOID"]]
    <3>1. PICK s \in EditedStatus :
              invoice' = [invoice EXCEPT ![i] = [invoice[i] EXCEPT
                  !.status = s, !.voided = @ \/ s = "VOID"]]
      BY <2>1
    <3>2. PICK b \in BOOLEAN : b = (old.voided \/ s = "VOID")
      OBVIOUS
    <3>3. new = [old EXCEPT !.status = s, !.voided = b]
      BY <1>0, <3>1, <3>2 DEF TypeOK
    <3>4. s \in {"DRAFT", "ISSUED", "PAID", "VOID"}
      BY ConstantsOK
    <3>5. /\ new.tenant = old.tenant /\ new.number = old.number
          /\ new.status = s /\ new.voided = b
      BY <1>1, <3>2, <3>3, <3>4
    <3>6. \A j \in Invoice \ {i} : invoice'[j] = invoice[j]
      BY <1>0, <3>1 DEF TypeOK
    <3>7. (old.voided => b) /\ (s = "VOID" => b)
      BY <3>2
    <3>. QED  BY <3>4, <3>5, <3>6, <3>7
  <2>2. CASE invoice' = [invoice EXCEPT ![i] = [invoice[i] EXCEPT !.late = ~@]]
    <3>1. PICK b \in BOOLEAN : b = ~old.late
      OBVIOUS
    <3>2. new = [old EXCEPT !.late = b]
      BY <1>0, <2>2, <3>1 DEF TypeOK
    <3>3. /\ new.tenant = old.tenant /\ new.number = old.number
          /\ new.status = old.status /\ new.voided = old.voided
      BY <1>1, <3>2
    <3>4. \A j \in Invoice \ {i} : invoice'[j] = invoice[j]
      BY <1>0, <2>2 DEF TypeOK
    <3>5. old.status = "VOID" => old.voided
      BY <1>0 DEF VoidMarked
    <3>. QED  BY <1>1, <3>3, <3>4, <3>5
  <2>. QED  BY <2>1, <2>2 DEF UpdateInvoice
<1>3. Rows' = Rows
  BY <1>0, <1>2 DEF Rows
<1>4. Settling
  BY <1>2, <1>3 DEF Settling, Rows
<1>5. VoidMarked'
  BY <1>0, <1>2, <1>3 DEF VoidMarked, Rows
<1>6. OwnStep(w, Idle) /\ Idle.op \notin {"generate", "sync"}
  BY <1>0, AtOnceAlone DEF UpdateInvoice, Idle
<1>. QED  BY <1>4, <1>5, <1>6, IdleStands, PlainKeeps

\* Time passes while requests go on: a debt only becomes more of one.
LEMMA LateRun ==
    ASSUME RunInv, Inv', NEW i \in Invoice, FallLate(i)
    PROVE  RunInv'
<1>0. TypeOK /\ VoidMarked /\ Alone /\ i \in Rows
  BY DEF RunInv, Inv, FallLate
<1>. PICK old : old = invoice[i]
  OBVIOUS
<1>. PICK new : new = invoice'[i]
  OBVIOUS
<1>1. old \in [status : {"DRAFT", "ISSUED", "PAID", "VOID"}, tenant : Tenant,
               voided : BOOLEAN, number : Nat, late : BOOLEAN]
  BY <1>0, RowFields
<1>2. new = [old EXCEPT !.late = TRUE] /\ \A j \in Invoice \ {i} : invoice'[j] = invoice[j]
  BY <1>0 DEF FallLate, TypeOK
<1>3. /\ new.tenant = old.tenant /\ new.number = old.number
      /\ new.status = old.status /\ new.voided = old.voided /\ new.late
  BY <1>1, <1>2
<1>4. UNCHANGED <<txn, overlapped>>
  BY DEF FallLate
<1>5. Rows' = Rows
  <2>1. i \in Rows'
    BY <1>1, <1>3 DEF Rows
  <2>2. \A j \in Invoice \ {i} : j \in Rows' <=> j \in Rows
    BY <1>2 DEF Rows
  <2>. QED  BY <1>0, <2>1, <2>2 DEF Rows
<1>6. \A j \in Rows : /\ invoice'[j].tenant = invoice[j].tenant
                      /\ invoice'[j].number = invoice[j].number
                      /\ invoice'[j].status = invoice[j].status
                      /\ invoice'[j].voided = invoice[j].voided
                      /\ invoice[j].late => invoice'[j].late
  BY <1>2, <1>3 DEF Rows
<1>7. VoidMarked' /\ Alone'
  BY <1>0, <1>4, <1>5, <1>6 DEF VoidMarked, Alone
<1>8. OneMonthly => OneMonthly'
  BY <1>5, <1>6, SettlingKeeps DEF Settling
<1>9. ASSUME NEW t, Current(t)
      PROVE  /\ t.op = "generate" /\ t.step = "next" =>
                   \A j \in Rows' : invoice'[j].tenant \in t.todo => invoice'[j].status = "VOID"
             /\ t.op = "sync" =>
                   \A j \in Invoice, c \in Tenant : <<j, c>> \in t.todo => Due(j, c)'
             /\ t.op = "sync" => \A c \in t.tenant : \E j \in Rows' : Due(j, c)'
  <2>1. \A j, c : Due(j, c) => Due(j, c)'
    BY <1>5, <1>6 DEF Due
  <2>. QED  BY <1>5, <1>6, <1>9, <2>1 DEF Current
<1>10. \A w \in Worker : Current(txn[w]) => Current(txn[w])'
  BY <1>4, <1>9 DEF Current
<1>11. \A w \in Worker : NumberRead(txn[w])'
  BY <1>4 DEF RunInv, NumberRead
<1>. QED  BY <1>4, <1>7, <1>8, <1>10, <1>11 DEF RunInv

LEMMA PaymentRun ==
    ASSUME RunInv, Inv', NEW w \in Worker, CommitCreatePayment(w)
    PROVE  RunInv'
<1>. PICK t : t = txn[w]
  OBVIOUS
<1>0. TypeOK /\ VoidMarked /\ Alone /\ PaymentInv
  BY DEF RunInv, Inv
<1>1. t.op = "createPayment" /\ Exists(t.tenant) /\ Done(w) /\ txn[w] # Idle
  BY DEF CommitCreatePayment, Idle
<1>2. \A i \in t.paid : i \in Rows
  BY <1>0, <1>1 DEF PaymentInv, Exists
<1>3. \A i \in Invoice : invoice'[i] =
          IF i \in t.paid THEN [invoice[i] EXCEPT !.status = "PAID"] ELSE invoice[i]
  BY DEF CommitCreatePayment
<1>4. ASSUME NEW i \in Rows
      PROVE  /\ i \in Rows'
             /\ invoice'[i].tenant = invoice[i].tenant
             /\ invoice'[i].number = invoice[i].number
             /\ invoice'[i].voided = invoice[i].voided
             /\ invoice'[i].status = "VOID" => invoice[i].status = "VOID"
  <2>1. /\ i \in Invoice
        /\ invoice[i] \in [status : {"DRAFT", "ISSUED", "PAID", "VOID"}, tenant : Tenant,
                           voided : BOOLEAN, number : Nat, late : BOOLEAN]
    BY <1>0, RowFields
  <2>2. CASE i \in t.paid
    <3>1. invoice'[i] = [invoice[i] EXCEPT !.status = "PAID"]
      BY <1>3, <2>1, <2>2
    <3>2. /\ invoice'[i].tenant = invoice[i].tenant
          /\ invoice'[i].number = invoice[i].number
          /\ invoice'[i].voided = invoice[i].voided
          /\ invoice'[i].status = "PAID"
      BY <2>1, <3>1
    <3>. QED  BY <2>1, <3>2 DEF Rows
  <2>3. CASE i \notin t.paid
    BY <1>3, <2>1, <2>3 DEF Rows
  <2>. QED  BY <2>2, <2>3
<1>5. Rows' \subseteq Rows
  BY <1>2, <1>3 DEF Rows
<1>6. Settling
  BY <1>4, <1>5 DEF Settling
<1>7. VoidMarked'
  BY <1>0, <1>4, <1>5 DEF VoidMarked
<1>8. OwnStep(w, Idle) /\ Idle.op \notin {"generate", "sync"}
  BY <1>0, <1>1, DoneAlone DEF Idle
<1>. QED  BY <1>6, <1>7, <1>8, IdleStands, PlainKeeps

LEMMA DeleteRun ==
    ASSUME RunInv, Inv', NEW w \in Worker, CommitDeleteTenant(w)
    PROVE  RunInv'
<1>. PICK mine : mine = {i \in Rows : invoice[i].tenant = txn[w].tenant}
  OBVIOUS
<1>0. TypeOK /\ VoidMarked /\ Alone
  BY DEF RunInv, Inv
<1>1. \A i \in Invoice : invoice'[i] =
          IF i \in mine THEN [status |-> "DELETED"] ELSE invoice[i]
  BY DEF CommitDeleteTenant
<1>2. \A i \in Rows' : i \in Rows /\ invoice'[i] = invoice[i]
  BY <1>1 DEF Rows
<1>3. Settling /\ VoidMarked'
  BY <1>0, <1>2 DEF Settling, VoidMarked
<1>4. Done(w) /\ txn[w] # Idle
  BY DEF CommitDeleteTenant, Idle
<1>5. OwnStep(w, Idle) /\ Idle.op \notin {"generate", "sync"}
  BY <1>0, <1>4, DoneAlone DEF Idle
<1>. QED  BY <1>3, <1>5, IdleStands, PlainKeeps

\* The run of the month: who has no invoice but void ones is read, and invoiced one by one.
LEMMA GenerateRun ==
    ASSUME RunInv, Inv', NEW w \in Worker,
           ReadSubscriptions(w) \/ ReadInvoiced(w) \/ CreateMonthlyInvoice(w)
    PROVE  RunInv'
<1>. PICK t : t = txn[w]
  OBVIOUS
<1>0. TypeOK /\ VoidMarked /\ Alone
  BY DEF RunInv, Inv
<1>1. CASE ReadSubscriptions(w)
  <2>1. PICK due : Begin(w, [op |-> "generate", step |-> "subscriptions", todo |-> due])
    BY <1>1 DEF ReadSubscriptions
  <2>2. PICK u : u = [op |-> "generate", step |-> "subscriptions", todo |-> due]
    OBVIOUS
  <2>3. OwnStep(w, u) /\ txn'[w] = u
    BY <1>0, <2>1, <2>2, BeginAlone DEF OwnStep, TypeOK
  <2>4. UNCHANGED invoice
    BY <1>1 DEF ReadSubscriptions, Tables
  <2>5. Settling /\ VoidMarked'
    BY <1>0, <2>4, UnchangedSettles
  <2>6. NumberRead(u) /\ Current(txn[w])'
    BY <2>2, <2>3 DEF NumberRead, Numbering, Current
  <2>7. ~overlapped' => OneMonthly'
    BY <2>3, <2>5, SettlingKeeps DEF OwnStep, RunInv
  <2>. QED  BY <2>3, <2>5, <2>6, <2>7, OwnKeeps
<1>2. CASE ReadInvoiced(w)
  <2>1. t \in GenerateTxn /\ t.op = "generate" /\ txn[w] # Idle
    BY <1>0, <1>2, TxnFields DEF ReadInvoiced, TypeOK, Idle
  <2>2. PICK u : u = [t EXCEPT !.step = "next", !.todo = t.todo \ Invoiced]
    OBVIOUS
  <2>3. u.op = "generate" /\ u.step = "next" /\ u.todo = t.todo \ Invoiced
    BY <2>1, <2>2 DEF GenerateTxn
  <2>4. Continue(w, u)
    BY <1>2, <2>2 DEF ReadInvoiced
  <2>5. OwnStep(w, u) /\ txn'[w] = u
    BY <1>0, <2>1, <2>4, ContinueAlone DEF OwnStep, TypeOK
  <2>6. UNCHANGED invoice
    BY <1>2 DEF ReadInvoiced, Tables
  <2>7. Settling /\ VoidMarked' /\ Rows' = Rows
    BY <1>0, <2>6, UnchangedSettles
  <2>8. \A i \in Rows : invoice[i].tenant \in u.todo => invoice[i].status = "VOID"
    BY <2>3 DEF Invoiced
  <2>9. NumberRead(u) /\ Current(txn[w])'
    BY <2>3, <2>5, <2>6, <2>7, <2>8 DEF NumberRead, Numbering, Current
  <2>10. ~overlapped' => OneMonthly'
    BY <2>5, <2>7, SettlingKeeps DEF OwnStep, RunInv
  <2>. QED  BY <2>5, <2>7, <2>9, <2>10, OwnKeeps
<1>3. CASE CreateMonthlyInvoice(w)
  <2>1. t \in GenerateTxn /\ t.op = "generate" /\ t.step = "next" /\ txn[w] # Idle
    BY <1>0, <1>3, TxnFields DEF CreateMonthlyInvoice, TypeOK, Idle
  <2>2. PICK club \in t.todo :
            /\ CreateRow(club, 0, "ISSUED")
            /\ Continue(w, [t EXCEPT !.todo = t.todo \ {club}])
    BY <1>3 DEF CreateMonthlyInvoice
  <2>3. PICK u : u = [t EXCEPT !.todo = t.todo \ {club}]
    OBVIOUS
  <2>4. u.op = "generate" /\ u.step = "next" /\ u.todo = t.todo \ {club}
    BY <2>1, <2>3 DEF GenerateTxn
  <2>5. OwnStep(w, u) /\ txn'[w] = u
    BY <1>0, <2>1, <2>2, <2>3, ContinueAlone DEF OwnStep, TypeOK
  <2>6. PICK i \in Invoice \ Rows :
            /\ Rows' = Rows \cup {i}
            /\ invoice'[i] = [status |-> "ISSUED", tenant |-> club, number |-> 0,
                              voided |-> FALSE, late |-> FALSE]
            /\ \A j \in Rows : invoice'[j] = invoice[j]
    BY <1>0, <2>2, NewRow
  <2>7. VoidMarked'
    BY <1>0, <2>6 DEF VoidMarked
  <2>8. ~overlapped =>
            \A j \in Rows : invoice[j].tenant \in t.todo => invoice[j].status = "VOID"
    BY <2>1 DEF RunInv, Current
  <2>9. ~overlapped => \A j \in Monthly : invoice[j].tenant # club
    BY <1>0, <2>2, <2>8 DEF Monthly, VoidMarked
  <2>10. \A j \in Monthly' : \/ j = i
                             \/ j \in Monthly /\ invoice'[j].tenant = invoice[j].tenant
    BY <2>6 DEF Monthly
  <2>11. ~overlapped => OneMonthly'
    BY <2>6, <2>9, <2>10 DEF RunInv, OneMonthly
  <2>12. ~overlapped =>
            \A j \in Rows' : invoice'[j].tenant \in u.todo => invoice'[j].status = "VOID"
    BY <2>4, <2>6, <2>8
  <2>13. NumberRead(u) /\ (~overlapped => Current(txn[w])')
    BY <2>4, <2>5, <2>12 DEF NumberRead, Numbering, Current
  <2>. QED  BY <2>5, <2>7, <2>11, <2>13, OwnKeeps DEF OwnStep
<1>. QED  BY <1>1, <1>2, <1>3

\* The suspension of debtors: who owes is read at the start, and stays a debtor as long as
\* nobody else writes.
LEMMA SyncRun ==
    ASSUME RunInv, Inv', NEW w \in Worker,
           ReadUnpaid(w) \/ ReadDebtor(w) \/ SuspendDebtor(w)
    PROVE  RunInv'
<1>. PICK t : t = txn[w]
  OBVIOUS
<1>0. TypeOK /\ VoidMarked /\ Alone
  BY DEF RunInv, Inv
<1>1. UNCHANGED invoice
  BY DEF ReadUnpaid, ReadDebtor, SuspendDebtor, Tables
<1>2. Settling /\ VoidMarked' /\ Rows' = Rows
  BY <1>0, <1>1, UnchangedSettles
<1>3. ASSUME NEW u, OwnStep(w, u), u.op = "sync",
             ~overlapped => /\ \A i \in Invoice, c \in Tenant : <<i, c>> \in u.todo => Due(i, c)
                            /\ \A c \in u.tenant : \E i \in Rows : Due(i, c)
      PROVE  RunInv'
  <2>1. txn'[w] = u /\ NumberRead(u)
    BY <1>0, <1>3 DEF OwnStep, TypeOK, NumberRead, Numbering
  <2>2. \A i, c : Due(i, c)' <=> Due(i, c)
    BY <1>1, <1>2 DEF Due
  <2>3. ~overlapped => Current(txn[w])'
    BY <1>2, <1>3, <2>1, <2>2 DEF Current
  <2>4. ~overlapped' => OneMonthly'
    BY <1>2, <1>3, SettlingKeeps DEF OwnStep, RunInv
  <2>. QED  BY <1>2, <1>3, <2>1, <2>3, <2>4, OwnKeeps DEF OwnStep
<1>4. CASE ReadUnpaid(w)
  <2>1. PICK u : u = [op |-> "sync", step |-> "next", tenant |-> {},
                      todo |-> {<<i, invoice[i].tenant>> : i \in UnpaidInvoices}]
    OBVIOUS
  <2>2. OwnStep(w, u)
    BY <1>4, <2>1, BeginAlone DEF ReadUnpaid
  <2>3. \A i \in Invoice, c \in Tenant : <<i, c>> \in u.todo => Due(i, c)
    BY <2>1 DEF UnpaidInvoices, Due
  <2>4. u.op = "sync" /\ u.tenant = {}
    BY <2>1
  <2>. QED  BY <1>3, <2>2, <2>3, <2>4
<1>5. CASE ReadDebtor(w) \/ SuspendDebtor(w)
  <2>0. t \in Txn /\ t.op = "sync"
    BY <1>0, <1>5 DEF ReadDebtor, SuspendDebtor, TypeOK
  <2>1. t \in SyncTxn /\ t.op = "sync" /\ txn[w] # Idle
    BY <2>0, TxnFields DEF Idle
  <2>2. ~overlapped => \A i \in Invoice, c \in Tenant : <<i, c>> \in t.todo => Due(i, c)
    BY <2>1 DEF RunInv, Current
  <2>3. CASE ReadDebtor(w)
    <3>1. PICK due \in t.todo :
              Continue(w, [t EXCEPT
                  !.todo = t.todo \ {due},
                  !.step = IF tenant[due[2]] = "ACTIVE" THEN "active" ELSE "next",
                  !.tenant = IF tenant[due[2]] = "ACTIVE" THEN {due[2]} ELSE {}])
      BY <2>3 DEF ReadDebtor
    <3>2. PICK i \in Invoice, c \in Tenant : due = <<i, c>>
      BY <2>1, <3>1 DEF SyncTxn
    <3>. PICK who : who = IF tenant[due[2]] = "ACTIVE" THEN {due[2]} ELSE {}
      OBVIOUS
    <3>3. PICK u : u = [t EXCEPT
                  !.todo = t.todo \ {due},
                  !.step = IF tenant[due[2]] = "ACTIVE" THEN "active" ELSE "next",
                  !.tenant = IF tenant[due[2]] = "ACTIVE" THEN {due[2]} ELSE {}]
      OBVIOUS
    <3>4. u.op = "sync" /\ u.todo = t.todo \ {due} /\ u.tenant = who
      BY <2>1, <3>3 DEF SyncTxn
    <3>5. OwnStep(w, u)
      BY <1>0, <2>1, <3>1, <3>3, ContinueAlone
    <3>6. who \subseteq {c}
      BY <3>2
    <3>7. ~overlapped => Due(i, c)
      BY <2>2, <3>1, <3>2
    <3>8. ~overlapped => \A d \in u.tenant : \E j \in Rows : Due(j, d)
      BY <3>4, <3>6, <3>7 DEF Due
    <3>. QED  BY <1>3, <2>2, <3>4, <3>5, <3>8
  <2>4. CASE SuspendDebtor(w)
    <3>1. PICK u : u = [t EXCEPT !.step = "next", !.tenant = {}]
      OBVIOUS
    <3>2. u.op = "sync" /\ u.todo = t.todo /\ u.tenant = {}
      BY <2>1, <3>1 DEF SyncTxn
    <3>3. OwnStep(w, u)
      BY <1>0, <2>1, <2>4, <3>1, ContinueAlone DEF SuspendDebtor
    <3>. QED  BY <1>3, <2>2, <3>2, <3>3
  <2>. QED  BY <1>5, <2>3, <2>4
<1>. QED  BY <1>4, <1>5

LEMMA InitRun == Init => RunInv
<1>. SUFFICES ASSUME Init  PROVE RunInv
  OBVIOUS
<1>1. Rows = {} /\ Monthly = {}
  BY DEF Init, Rows, NoInvoice, Monthly
<1>2. \A w \in Worker : txn[w] = Idle
  BY DEF Init, NoRequests
<1>3. OneMonthly /\ VoidMarked /\ Alone
  BY <1>1, <1>2 DEF OneMonthly, VoidMarked, Alone
<1>4. \A w \in Worker : NumberRead(txn[w]) /\ Current(txn[w])
  BY <1>2, IdleStands
<1>. QED  BY <1>3, <1>4, InitInv DEF RunInv

LEMMA NextRun == RunInv /\ [Next]_vars => RunInv'
<1>. SUFFICES ASSUME RunInv, [Next]_vars  PROVE RunInv'
  OBVIOUS
<1>1. Inv'
  BY NextInv DEF RunInv
<1>2. ASSUME NEW w \in Worker, NEW t \in Tenant,
             \/ CreateTenant(w, t) \/ SetTenantStatus(w, t)
             \/ ReadDeleteTenant(w, t) \/ ReadUpdateSubscription(w, t) \/ ReadAssignPlan(w, t)
             \/ ReadCreateInvoice(w, t) \/ ReadRenew(w, t) \/ ReadCreatePayment(w, t)
      PROVE  RunInv'
  BY <1>1, <1>2, RequestsRun
<1>3. ASSUME NEW w \in Worker,
             \/ Abort(w) \/ EndGenerate(w) \/ EndSync(w)
             \/ CommitUpdateSubscription(w) \/ CommitAssignPlan(w)
      PROVE  RunInv'
  BY <1>1, <1>3, EndsRun
<1>4. ASSUME NEW w \in Worker, CountInvoices(w)  PROVE RunInv'
  BY <1>1, <1>4, CountRun
<1>5. ASSUME NEW w \in Worker, CommitCreateInvoice(w) \/ CommitRenew(w)  PROVE RunInv'
  BY <1>1, <1>5, NumberedRun
<1>6. ASSUME NEW w \in Worker, NEW i \in Invoice, UpdateInvoice(w, i)  PROVE RunInv'
  BY <1>1, <1>6, EditRun
<1>7. ASSUME NEW i \in Invoice, FallLate(i)  PROVE RunInv'
  BY <1>1, <1>7, LateRun
<1>8. ASSUME NEW w \in Worker, CommitCreatePayment(w) \/ CommitDeleteTenant(w)  PROVE RunInv'
  BY <1>1, <1>8, PaymentRun, DeleteRun
<1>9. ASSUME NEW w \in Worker,
             ReadSubscriptions(w) \/ ReadInvoiced(w) \/ CreateMonthlyInvoice(w)
      PROVE  RunInv'
  BY <1>1, <1>9, GenerateRun
<1>10. ASSUME NEW w \in Worker, ReadUnpaid(w) \/ ReadDebtor(w) \/ SuspendDebtor(w)
       PROVE  RunInv'
  BY <1>1, <1>10, SyncRun
<1>11. CASE UNCHANGED vars
  <2>1. Rows' = Rows /\ UNCHANGED <<invoice, txn, overlapped>>
    BY <1>11 DEF vars, Rows
  <2>. QED  BY <1>1, <2>1 DEF RunInv, Alone, VoidMarked, NumberRead, OneMonthly, Monthly,
                              Current, Due
<1>. QED
  BY <1>2, <1>3, <1>4, <1>5, <1>6, <1>7, <1>8, <1>9, <1>10, <1>11 DEF Next

LEMMA OneAtMost ==
    ASSUME NEW S, \A a, b \in S : a = b
    PROVE  Cardinality(S) <= 1
<1>1. CASE S = {}
  BY <1>1, FS_EmptySet
<1>2. CASE S # {}
  <2>1. PICK a : S = {a}
    BY <1>2
  <2>2. Cardinality({a}) = 1
    BY FS_Singleton
  <2>. QED  BY <2>1, <2>2
<1>. QED  BY <1>1, <1>2

\* Each tenant is invoiced once for the month unless requests overlap, although the run
\* crashes and starts again, and invoices are paid, voided and revived meanwhile
\* (platform.service.ts:537-639).
THEOREM BilledAtMostOnce == Spec => []BilledOnce
<1>1. ASSUME RunInv  PROVE BilledOnce
  <2>. SUFFICES ASSUME ~overlapped, NEW t \in Tenant
                PROVE  Cardinality({i \in Rows : /\ invoice[i].tenant = t
                                                 /\ invoice[i].number = 0
                                                 /\ ~invoice[i].voided}) <= 1
    BY DEF BilledOnce
  <2>1. PICK S : S = {i \in Rows : /\ invoice[i].tenant = t
                                   /\ invoice[i].number = 0
                                   /\ ~invoice[i].voided}
    OBVIOUS
  <2>2. \A i, j \in S : i = j
    BY <1>1, <2>1 DEF RunInv, OneMonthly, Monthly
  <2>3. Cardinality(S) <= 1
    BY <2>2, OneAtMost
  <2>. QED  BY <2>1, <2>3
<1>. QED  BY <1>1, InitRun, NextRun, PTL DEF Spec

\* Nobody else writes a tenant while the sync runs, and the sync writes debtors.
LEMMA SuspendsDebtors ==
    ASSUME RunInv, [Next]_vars, NEW w \in Worker, txn[w].op = "sync", ~overlapped',
           NEW c \in Tenant, tenant'[c] # tenant[c]
    PROVE  \E i \in Rows : /\ invoice[i].tenant = c
                           /\ invoice[i].status = "ISSUED"
                           /\ invoice[i].late
<1>0. TypeOK /\ Alone /\ txn[w] # Idle
  BY DEF RunInv, Inv, Idle
<1>1. ASSUME NEW u \in Worker, NEW t \in Tenant, CreateTenant(u, t) \/ SetTenantStatus(u, t)
      PROVE  FALSE
  BY <1>0, <1>1 DEF CreateTenant, SetTenantStatus, AtOnce, Overlap
<1>2. ASSUME NEW u \in Worker, txn[u].op # "sync", txn[u] # Idle, Done(u)
      PROVE  FALSE
  BY <1>0, <1>2 DEF Alone, Done, Continue
<1>3. ASSUME NEW u \in Worker, SuspendDebtor(u)
      PROVE  \E i \in Rows : Due(i, c)
  <2>1. u = w /\ ~overlapped
    BY <1>0, <1>3 DEF SuspendDebtor, Alone, Continue, Idle
  <2>2. PICK club \in txn[w].tenant : tenant' = [tenant EXCEPT ![club] = "SUSPENDED"]
    BY <1>3, <2>1 DEF SuspendDebtor
  <2>3. club = c
    BY <1>0, <2>2 DEF TypeOK
  <2>. QED  BY <2>1, <2>2, <2>3 DEF RunInv, Current
<1>4. ASSUME NEW u \in Worker,
             \/ CommitDeleteTenant(u) \/ CommitUpdateSubscription(u) \/ CommitAssignPlan(u)
             \/ CommitRenew(u) \/ CommitCreatePayment(u)
      PROVE  FALSE
  BY <1>2, <1>4 DEF CommitDeleteTenant, CommitUpdateSubscription, CommitAssignPlan,
                    CommitRenew, CommitCreatePayment, Idle
<1>5. ASSUME UNCHANGED tenant
      PROVE  FALSE
  BY <1>5
<1>6. ASSUME NEW u \in Worker, NEW t \in Tenant,
             \/ ReadDeleteTenant(u, t) \/ ReadUpdateSubscription(u, t) \/ ReadAssignPlan(u, t)
             \/ ReadCreateInvoice(u, t) \/ ReadRenew(u, t) \/ ReadCreatePayment(u, t)
      PROVE  FALSE
  BY <1>5, <1>6 DEF ReadDeleteTenant, ReadUpdateSubscription, ReadAssignPlan,
                    ReadCreateInvoice, ReadRenew, ReadCreatePayment, Tables, Clubs
<1>7. ASSUME NEW u \in Worker,
             \/ Abort(u) \/ CountInvoices(u) \/ CommitCreateInvoice(u)
             \/ ReadSubscriptions(u) \/ ReadInvoiced(u) \/ CreateMonthlyInvoice(u)
             \/ EndGenerate(u) \/ ReadUnpaid(u) \/ ReadDebtor(u) \/ EndSync(u)
      PROVE  FALSE
  BY <1>5, <1>7 DEF Abort, CountInvoices, CommitCreateInvoice, ReadSubscriptions, ReadInvoiced,
                    CreateMonthlyInvoice, EndGenerate, ReadUnpaid, ReadDebtor, EndSync, Tables,
                    Clubs
<1>8. ASSUME NEW u \in Worker, NEW i \in Invoice, UpdateInvoice(u, i) \/ FallLate(i)
      PROVE  FALSE
  BY <1>5, <1>8 DEF UpdateInvoice, FallLate, Clubs
<1>9. CASE UNCHANGED vars
  BY <1>5, <1>9 DEF vars
<1>10. CASE Next
  <2>1. CASE \E u \in Worker : SuspendDebtor(u)
    BY <1>3, <2>1 DEF Due
  <2>2. CASE ~\E u \in Worker : SuspendDebtor(u)
    BY <1>1, <1>4, <1>6, <1>7, <1>8, <1>10, <2>2 DEF Next
  <2>. QED  BY <2>1, <2>2
<1>. QED  BY <1>9, <1>10 DEF Due

\* A tenant's status follows its subscription unless it was written on its own, and the
\* automatic suspension takes it from debtors only (platform.service.ts:372-446).
THEOREM StatusIsJustified == Spec => StatusJustified
<1>1. RunInv => StatusFollowsSubscription
  BY DEF RunInv, Inv
<1>2. ASSUME RunInv, [Next]_vars
      PROVE  [\A w \in Worker :
                 txn[w].op = "sync" /\ tenant' # tenant /\ ~overlapped'
                     => \A t \in Tenant :
                           tenant'[t] # tenant[t] =>
                               \E i \in Rows : /\ invoice[i].tenant = t
                                               /\ invoice[i].status = "ISSUED"
                                               /\ invoice[i].late]_vars
  BY <1>2, SuspendsDebtors
<1>. QED  BY <1>1, <1>2, InitRun, NextRun, PTL DEF Spec, StatusJustified, OnlyDebtorsSuspended
=============================================================================
