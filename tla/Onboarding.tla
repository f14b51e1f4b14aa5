------------------------------ MODULE Onboarding ------------------------------
(***************************************************************************)
(* How a club comes to the platform: the leads of the landing page         *)
(* (public.service.ts), their conversion into a tenant with its owner,     *)
(* first contact and onboarding tasks, and the contacts and tasks that are *)
(* kept while it gets started (platform.service.ts).                       *)
(*                                                                         *)
(* A conversion checks the lead, and whether the owner has an account,     *)
(* before its transaction; only the unique address of a new account stands *)
(* in the way of a second one.  Making a contact the primary one first     *)
(* takes that from all others its transaction can see.                     *)
(*                                                                         *)
(* The access link and the modules that follow a conversion are in Access  *)
(* and PlanModules, the status of tenants in Billing.  All leads here come *)
(* from one address; other data of a lead, a contact or a task is written  *)
(* by one statement and read by no handler here.                           *)
(***************************************************************************)
EXTENDS Naturals, FiniteSets, FiniteSetsExt, Requests

CONSTANTS
    Lead,              \* bound: leads ever sent
    Tenant, NoTenant,  \* bound: tenants ever made; the null of convertedTenantId
    Owner,             \* addresses of owners
    Contact,           \* bound: contacts ever made
    Task,              \* bound: onboarding tasks ever made
    FirstTasks,        \* tasks made by a conversion, 4 in the code
    MaxRecent,         \* leads of an address within 24 hours, 3 in the code
    AskedLeadStatus    \* values of body.status for a lead

\* Assumed by the module that checks this one.
ConstantsOK ==
    /\ NoTenant \notin Tenant
    /\ IsFiniteSet(Task) /\ IsFiniteSet(Lead)
    /\ FirstTasks \in Nat
    /\ MaxRecent \in Nat \ {0}
    /\ AskedLeadStatus \subseteq {"NEW", "IN_REVIEW", "WAITING_PAYMENT", "APPROVED",
                                  "REJECTED", "ACCESS_SENT", "ARCHIVED"}

VARIABLES
    lead,     \* commercial_leads: status, convertedTenantId, within 24 hours
    tenant,   \* tenants: whether they exist, and (history) the lead they were made of
    account,  \* users: addresses that have one
    contact,  \* tenant_contacts
    task,     \* tenant_onboarding_tasks
    dated     \* history: tasks whose completedAt was last given in a request

vars == <<lead, tenant, account, contact, task, dated, txn, overlapped>>
-----------------------------------------------------------------------------
LeadStatus == {"NEW", "IN_REVIEW", "WAITING_PAYMENT", "APPROVED", "REJECTED",
               "ACCESS_SENT", "ARCHIVED"}
None == [status |-> "NONE"]
LeadRow == {None} \cup [status : LeadStatus, tenant : Tenant \cup {NoTenant}, recent : BOOLEAN]
TenantRow == [status : {"NONE", "DELETED"}] \cup [status : {"LIVE"}, from : Lead]
ContactRow == [status : {"NONE", "DELETED"}]
              \cup [status : {"LIVE"}, tenant : Tenant, isPrimary : BOOLEAN]
\* OPEN stands for PENDING, IN_PROGRESS and BLOCKED.
TaskStatus == {"OPEN", "COMPLETED"}
TaskRow == [status : {"NONE", "DELETED"}]
           \cup [status : TaskStatus, tenant : Tenant, completedAt : BOOLEAN]

Txn ==
    {Idle}
    \cup [op : {"send"}]
    \cup [op : {"convert"}, lead : Lead, owner : Owner, known : BOOLEAN]
    \cup [op : {"createContact"}, step : {"read", "cleared"}, tenant : Tenant,
          isPrimary : BOOLEAN, others : SUBSET Contact]
    \cup [op : {"updateContact"}, step : {"read", "cleared"}, contact : Contact,
          isPrimary : BOOLEAN, others : SUBSET Contact]
    \cup [op : {"updateTask"}, task : Task, named : BOOLEAN, status : TaskStatus,
          completedAt : BOOLEAN, dated : BOOLEAN]

TypeOK ==
    /\ lead \in [Lead -> LeadRow]
    /\ tenant \in [Tenant -> TenantRow]
    /\ account \subseteq Owner
    /\ contact \in [Contact -> ContactRow]
    /\ task \in [Task -> TaskRow]
    /\ dated \subseteq Task
    /\ overlapped \in BOOLEAN
    /\ txn \in [Worker -> Txn]

Init ==
    /\ lead = [l \in Lead |-> None]
    /\ tenant = [t \in Tenant |-> None]
    /\ account = {}
    /\ contact = [c \in Contact |-> None]
    /\ task = [k \in Task |-> None]
    /\ dated = {}
    /\ NoRequests

Leads == {l \in Lead : lead[l] # None}
Exists(t) == tenant[t].status = "LIVE"
ContactsOf(t) == {c \in Contact : contact[c].status = "LIVE" /\ contact[c].tenant = t}
Tasks == {k \in Task : task[k].status \in TaskStatus}
Workspace == <<tenant, account, contact, task, dated>>

Abort(w) ==
    /\ txn[w] # Idle
    /\ Done(w)
    /\ UNCHANGED <<lead, Workspace>>
-----------------------------------------------------------------------------
(* Leads                                                                   *)

Recent == {l \in Leads : lead[l].recent}

\* (mutant) one more than the limit.
LimitReachedLate == Cardinality(Recent) > MaxRecent

LimitReached == Cardinality(Recent) >= MaxRecent

ReadCreateLead(w) ==
    /\ ~LimitReached
    /\ Begin(w, [op |-> "send"])
    /\ UNCHANGED <<lead, Workspace>>

CommitCreateLead(w) ==
    /\ txn[w].op = "send"
    /\ \E l \in Lead \ Leads :
          lead' = [lead EXCEPT ![l] = [status |-> "NEW", tenant |-> NoTenant, recent |-> TRUE]]
    /\ Done(w)
    /\ UNCHANGED Workspace

\* 24 hours pass.
Age(l) ==
    /\ l \in Recent
    /\ lead' = [lead EXCEPT ![l].recent = FALSE]
    /\ UNCHANGED <<Workspace, txn, overlapped>>

\* Any status may follow any other, also after the conversion.
UpdateLeadStatus(w, l) ==
    /\ AtOnce(w)
    /\ l \in Leads
    /\ \E s \in AskedLeadStatus : lead' = [lead EXCEPT ![l].status = s]
    /\ UNCHANGED Workspace
-----------------------------------------------------------------------------
(* Conversion                                                              *)

Reviewed == {"IN_REVIEW", "WAITING_PAYMENT", "APPROVED", "ACCESS_SENT"}

\* (mutant) the status alone says whether a lead may be converted.
ConvertibleByStatus(l) == l \in Leads /\ lead[l].status \in Reviewed

Convertible(l) ==
    /\ l \in Leads
    /\ lead[l].tenant = NoTenant
    /\ lead[l].status \in Reviewed

ReadConvert(w, l) ==
    /\ Convertible(l)
    /\ \E o \in Owner :
          Begin(w, [op |-> "convert", lead |-> l, owner |-> o, known |-> o \in account])
    /\ UNCHANGED <<lead, Workspace>>

\* The transaction; the address of a new account must still be free.
CommitConvert(w) ==
    LET r == txn[w] IN
    /\ r.op = "convert"
    /\ r.known \/ r.owner \notin account
    /\ account' = account \cup {r.owner}
    /\ \E t \in {t \in Tenant : tenant[t] = None},
          c \in {c \in Contact : contact[c] = None},
          first \in kSubset(FirstTasks, {k \in Task : task[k] = None}) :
          /\ tenant' = [tenant EXCEPT ![t] = [status |-> "LIVE", from |-> r.lead]]
          /\ contact' = [contact EXCEPT
                 ![c] = [status |-> "LIVE", tenant |-> t, isPrimary |-> TRUE]]
          /\ task' = [k \in Task |->
                 IF k \in first
                 THEN [status |-> "OPEN", tenant |-> t, completedAt |-> FALSE]
                 ELSE task[k]]
          /\ lead' = [lead EXCEPT ![r.lead].status = "ACCESS_SENT", ![r.lead].tenant = t]
    /\ Done(w)
    /\ UNCHANGED dated

\* (mutant) the leads of the tenant still name it.
DeleteTenantOnly(w, t) ==
    /\ AtOnce(w)
    /\ Exists(t)
    /\ tenant' = [tenant EXCEPT ![t] = [status |-> "DELETED"]]
    /\ contact' = [c \in Contact |->
           IF c \in ContactsOf(t) THEN [status |-> "DELETED"] ELSE contact[c]]
    /\ task' = [k \in Task |->
           IF k \in Tasks /\ task[k].tenant = t THEN [status |-> "DELETED"] ELSE task[k]]
    /\ UNCHANGED <<lead, account, dated>>

\* deleteTenant, what cascades, and the leads that forget it (onDelete: SetNull).
\* That the tenant is not active is in Billing.
DeleteTenant(w, t) ==
    /\ AtOnce(w)
    /\ Exists(t)
    /\ tenant' = [tenant EXCEPT ![t] = [status |-> "DELETED"]]
    /\ contact' = [c \in Contact |->
           IF c \in ContactsOf(t) THEN [status |-> "DELETED"] ELSE contact[c]]
    /\ task' = [k \in Task |->
           IF k \in Tasks /\ task[k].tenant = t THEN [status |-> "DELETED"] ELSE task[k]]
    /\ lead' = [l \in Lead |->
           IF l \in Leads /\ lead[l].tenant = t
           THEN [lead[l] EXCEPT !.tenant = NoTenant] ELSE lead[l]]
    /\ UNCHANGED <<account, dated>>
-----------------------------------------------------------------------------
(* Contacts.  The update of all others reaches the rows that are committed *)
(* when it begins; it keeps their locks until the transaction ends.        *)

ReadCreateContact(w, t) ==
    /\ Exists(t)
    /\ \E p \in BOOLEAN :
          Begin(w, [op |-> "createContact", step |-> "read", tenant |-> t,
                    isPrimary |-> p, others |-> {}])
    /\ UNCHANGED <<lead, Workspace>>

ReadUpdateContact(w, c) ==
    /\ contact[c].status = "LIVE"
    /\ \E p \in BOOLEAN :
          Begin(w, [op |-> "updateContact", step |-> "read", contact |-> c,
                    isPrimary |-> p, others |-> {}])
    /\ UNCHANGED <<lead, Workspace>>

\* (mutant) no other contact is looked for.
OthersNone(t) == {}

Others(t) == ContactsOf(t)

ClearPrimary(w) ==
    LET r == txn[w]
        t == IF r.op = "createContact" THEN r.tenant ELSE contact[r.contact].tenant IN
    /\ r.op \in {"createContact", "updateContact"} /\ r.step = "read"
    /\ r.op = "updateContact" => contact[r.contact].status = "LIVE"
    /\ Continue(w, [r EXCEPT !.step = "cleared",
                             !.others = IF r.isPrimary THEN Others(t) ELSE {}])
    /\ UNCHANGED <<lead, Workspace>>

Cleared(cs) ==
    [c \in Contact |->
        IF c \in cs /\ contact[c].status = "LIVE"
        THEN [contact[c] EXCEPT !.isPrimary = FALSE] ELSE contact[c]]

CommitCreateContact(w) ==
    LET r == txn[w] IN
    /\ r.op = "createContact" /\ r.step = "cleared"
    /\ Exists(r.tenant)
    /\ \E c \in {c \in Contact : contact[c] = None} :
          contact' = [Cleared(r.others) EXCEPT
              ![c] = [status |-> "LIVE", tenant |-> r.tenant, isPrimary |-> r.isPrimary]]
    /\ Done(w)
    /\ UNCHANGED <<lead, tenant, account, task, dated>>

CommitUpdateContact(w) ==
    LET r == txn[w] IN
    /\ r.op = "updateContact" /\ r.step = "cleared"
    /\ contact[r.contact].status = "LIVE"
    /\ contact' = [Cleared(r.others) EXCEPT ![r.contact].isPrimary = r.isPrimary]
    /\ Done(w)
    /\ UNCHANGED <<lead, tenant, account, task, dated>>

DeleteContact(w, c) ==
    /\ AtOnce(w)
    /\ contact[c].status = "LIVE"
    /\ contact' = [contact EXCEPT ![c] = [status |-> "DELETED"]]
    /\ UNCHANGED <<lead, tenant, account, task, dated>>
-----------------------------------------------------------------------------
(* Onboarding tasks                                                        *)

CreateTask(w, t) ==
    /\ AtOnce(w)
    /\ Exists(t)
    /\ \E k \in {k \in Task : task[k] = None}, s \in TaskStatus :
          task' = [task EXCEPT ![k] =
              [status |-> s, tenant |-> t, completedAt |-> s = "COMPLETED"]]
    /\ UNCHANGED <<lead, tenant, account, contact, dated>>

\* (mutant) a request that names no status means a pending task.
StatusUnnamedOpen(k) == "OPEN"

StatusUnnamed(k) == task[k].status

\* (mutant) the date is only ever set.
CompletedAtKept(k, status) == status = "COMPLETED" \/ task[k].completedAt

CompletedAt(k, status) == status = "COMPLETED"

\* A request may name a status, and a date or null for completedAt.
ReadUpdateTask(w, k) ==
    /\ k \in Tasks
    /\ \E named, dating, date \in BOOLEAN, s \in TaskStatus :
          /\ ~named => s = StatusUnnamed(k)
          /\ ~dating => date = CompletedAt(k, s)
          /\ Begin(w, [op |-> "updateTask", task |-> k, named |-> named, status |-> s,
                       completedAt |-> date, dated |-> dating])
    /\ UNCHANGED <<lead, Workspace>>

CommitUpdateTask(w) ==
    LET r == txn[w] IN
    /\ r.op = "updateTask"
    /\ r.task \in Tasks
    /\ task' = [task EXCEPT ![r.task].status = r.status, ![r.task].completedAt = r.completedAt]
    /\ dated' = IF r.dated THEN dated \cup {r.task} ELSE dated \ {r.task}
    /\ Done(w)
    /\ UNCHANGED <<lead, tenant, account, contact>>

DeleteTask(w, k) ==
    /\ AtOnce(w)
    /\ k \in Tasks
    /\ task' = [task EXCEPT ![k] = [status |-> "DELETED"]]
    /\ UNCHANGED <<lead, tenant, account, contact, dated>>
-----------------------------------------------------------------------------
Next ==
    \/ \E w \in Worker :
          \/ Abort(w)
          \/ ReadCreateLead(w)
          \/ CommitCreateLead(w)
          \/ \E l \in Lead : UpdateLeadStatus(w, l) \/ ReadConvert(w, l)
          \/ CommitConvert(w)
          \/ \E t \in Tenant :
                \/ DeleteTenant(w, t)
                \/ ReadCreateContact(w, t)
                \/ CreateTask(w, t)
          \/ \E c \in Contact : ReadUpdateContact(w, c) \/ DeleteContact(w, c)
          \/ ClearPrimary(w)
          \/ CommitCreateContact(w)
          \/ CommitUpdateContact(w)
          \/ \E k \in Task : ReadUpdateTask(w, k) \/ DeleteTask(w, k)
          \/ CommitUpdateTask(w)
    \/ \E l \in Lead : Age(l)

Spec == Init /\ [][Next]_vars
-----------------------------------------------------------------------------
(* Whatever the interleaving                                               *)

\* A lead that says it was converted names a tenant that exists and was made of it,
\* although it may have been converted twice, its tenant deleted and its status
\* changed by hand (platform.service.ts:1015-1025, schema.prisma:862).
LeadNamesTenant ==
    \A l \in Leads :
        lead[l].tenant # NoTenant =>
            /\ Exists(lead[l].tenant)
            /\ tenant[lead[l].tenant].from = l

\* A task has a date of completion if and only if it is completed, unless the date was
\* last given in a request: both are written together, on a read that may be stale
\* (platform.service.ts:2544-2567).
CompletedDated ==
    \A k \in Tasks \ dated : task[k].completedAt <=> task[k].status = "COMPLETED"

-----------------------------------------------------------------------------
(* When requests do not overlap                                            *)

\* A lead becomes one tenant, whatever is done to its status afterwards; another one
\* only when that was deleted (platform.service.ts:869-881).
ConvertedOnce ==
    ~overlapped =>
        \A l \in Lead : Cardinality({t \in Tenant : Exists(t) /\ tenant[t].from = l}) <= 1

\* A tenant has at most one primary contact (platform.service.ts:2368-2373, 2420-2425).
OnePrimary ==
    ~overlapped =>
        \A t \in Tenant : Cardinality({c \in ContactsOf(t) : contact[c].isPrimary}) <= 1

\* No address sends more leads within 24 hours than the limit (public.service.ts:67-76).
LeadsLimited == ~overlapped => Cardinality(Recent) <= MaxRecent

\* A request that names no status leaves it as it is (platform.service.ts:2544).
EditingUnnamed ==
    \A w \in Worker, k \in Task :
        txn[w].op = "updateTask" /\ txn[w].task = k /\ ~txn[w].named /\ ~overlapped'
            /\ task'[k] # task[k] => task'[k].status = task[k].status

EditKeepsStatus == [][EditingUnnamed]_vars

\* A lead makes one tenant and names it, and addresses do not flood the list
\* (public.service.ts:67-76; platform.service.ts:869-1025).
LeadsKept == LeadNamesTenant /\ ConvertedOnce /\ LeadsLimited

\* The contacts and tasks of a new tenant stay in order
\* (platform.service.ts:2368-2425, 2544-2567).
WorkspaceKept == [](CompletedDated /\ OnePrimary) /\ EditKeepsStatus
=============================================================================
