----------------------------- MODULE PlanModules ------------------------------
(***************************************************************************)
(* Which modules of the product a club may use (platform.service.ts):      *)
(* the catalogue, the modules of each plan, the plan of each tenant, and   *)
(* the setting of each module for each tenant, which the login copies into *)
(* the token (auth.service.ts).                                            *)
(*                                                                         *)
(* Assigning a plan is two transactions: the subscription first, then the  *)
(* settings, which copy the modules the plan had when they were read in    *)
(* between.  A crash between them leaves the settings of the plan before.  *)
(* The modules of a plan are replaced by one transaction that deletes the  *)
(* rows it can see and inserts its own; settings by hand are written one   *)
(* after the other in no transaction.                                      *)
(*                                                                         *)
(* The statuses of plans and subscriptions are in Billing; that a plan is  *)
(* archived is asked by nothing.                                           *)
(***************************************************************************)
EXTENDS FiniteSets, Requests

CONSTANTS
    Tenant,
    Plan, NoPlan,  \* the null of planId
    Module         \* bound: modules ever created

\* Assumed by the module that checks this one.
ConstantsOK == NoPlan \notin Plan

VARIABLES
    catalogue,   \* platform_module_definitions: the status of each module
    planModules, \* platform_plan_modules
    plan,        \* tenant_subscriptions: planId
    setting,     \* tenant_modules: the status of each row
    asked,       \* history: the modules last given to each plan
    apart        \* history: tenants whose settings need not be those of their plan

vars == <<catalogue, planModules, plan, setting, asked, apart, txn, overlapped>>
-----------------------------------------------------------------------------
ModuleStatus == {"NONE", "ACTIVE", "ARCHIVED"}
Setting == {"NONE", "ENABLED", "DISABLED"}

Txn ==
    {Idle}
    \cup [op : {"planModules"}, step : {"read", "deleted"}, plan : Plan,
          modules : SUBSET Module, seen : SUBSET Module]
    \cup [op : {"assign"}, tenant : Tenant, step : {"read"}, plan : Plan \cup {NoPlan}]
    \cup [op : {"assign"}, tenant : Tenant, step : {"assigned"}, plan : Plan]
    \cup [op : {"assign"}, tenant : Tenant, step : {"sync"}, plan : Plan,
          active : SUBSET Module, included : SUBSET Module]
    \cup [op : {"settings"}, tenant : Tenant, todo : [Module -> Setting]]

TypeOK ==
    /\ catalogue \in [Module -> ModuleStatus]
    /\ planModules \in [Plan -> SUBSET Module]
    /\ plan \in [Tenant -> Plan \cup {NoPlan}]
    /\ setting \in [Tenant -> [Module -> Setting]]
    /\ asked \in [Plan -> SUBSET Module]
    /\ apart \subseteq Tenant
    /\ overlapped \in BOOLEAN
    /\ txn \in [Worker -> Txn]

\* Tenants begin without a plan, and with no settings.
Init ==
    /\ catalogue = [m \in Module |-> "NONE"]
    /\ planModules = [p \in Plan |-> {}]
    /\ plan = [t \in Tenant |-> NoPlan]
    /\ setting = [t \in Tenant |-> [m \in Module |-> "NONE"]]
    /\ asked = [p \in Plan |-> {}]
    /\ apart = Tenant
    /\ NoRequests

Active == {m \in Module : catalogue[m] = "ACTIVE"}
Defined == {m \in Module : catalogue[m] # "NONE"}

\* getEnabledModulesForTenant: a module without a row is enabled.
Enabled(t) == {m \in Active : setting[t][m] # "DISABLED"}

Catalogue == <<catalogue, planModules, asked>>
Clubs == <<plan, setting, apart>>

Abort(w) ==
    /\ txn[w] # Idle
    /\ Done(w)
    /\ UNCHANGED <<Catalogue, Clubs>>
-----------------------------------------------------------------------------
(* The catalogue and the plans                                             *)

\* A module that is new is enabled for everybody.
CreateModule(w, m) ==
    /\ AtOnce(w)
    /\ catalogue[m] = "NONE"
    /\ catalogue' = [catalogue EXCEPT ![m] = "ACTIVE"]
    /\ apart' = Tenant
    /\ UNCHANGED <<planModules, asked, plan, setting>>

\* Neither plans nor tenants are asked.
ArchiveModule(w, m) ==
    /\ AtOnce(w)
    /\ m \in Defined
    /\ catalogue' = [catalogue EXCEPT ![m] = "ARCHIVED"]
    /\ UNCHANGED <<planModules, asked, Clubs>>

Offerable == Active

ReadPlanModules(w, p) ==
    /\ \E ms \in SUBSET Offerable :
          Begin(w, [op |-> "planModules", step |-> "read", plan |-> p,
                    modules |-> ms, seen |-> {}])
    /\ UNCHANGED <<Catalogue, Clubs>>

\* (mutant) no row is deleted.
SeenNone(p) == {}

Seen(p) == planModules[p]

\* deleteMany: the rows that are committed when it begins.
DeletePlanModules(w) ==
    LET r == txn[w] IN
    /\ r.op = "planModules" /\ r.step = "read"
    /\ Continue(w, [r EXCEPT !.step = "deleted", !.seen = Seen(r.plan)])
    /\ UNCHANGED <<Catalogue, Clubs>>

\* The rows it inserts must not be there; another request sees neither these nor, any
\* more, those that were deleted.  The tenants of the plan keep their settings.
CommitPlanModules(w) ==
    LET r == txn[w]
        left == planModules[r.plan] \ r.seen IN
    /\ r.op = "planModules" /\ r.step = "deleted"
    /\ r.modules \cap left = {}
    /\ planModules' = [planModules EXCEPT ![r.plan] = left \cup r.modules]
    /\ asked' = [asked EXCEPT ![r.plan] = r.modules]
    /\ apart' = apart \cup {t \in Tenant : plan[t] = r.plan}
    /\ txn' = [v \in Worker |->
           IF v = w THEN Idle
           ELSE IF txn[v].op = "planModules" /\ txn[v].plan = r.plan
           THEN [txn[v] EXCEPT !.seen = @ \ (r.seen \cup r.modules)]
           ELSE txn[v]]
    /\ UNCHANGED <<catalogue, plan, setting, overlapped>>
-----------------------------------------------------------------------------
(* The plan of a tenant                                                    *)

ReadAssign(w, t) ==
    /\ \E p \in Plan \cup {NoPlan} :
          Begin(w, [op |-> "assign", tenant |-> t, step |-> "read", plan |-> p])
    /\ UNCHANGED <<Catalogue, Clubs>>

\* The transaction of the subscription; without a plan the settings stay.
CommitAssign(w) ==
    LET r == txn[w] IN
    /\ r.op = "assign" /\ r.step = "read"
    /\ plan' = [plan EXCEPT ![r.tenant] = r.plan]
    /\ apart' = apart \cup {r.tenant}
    /\ IF r.plan = NoPlan THEN Done(w) ELSE Continue(w, [r EXCEPT !.step = "assigned"])
    /\ UNCHANGED <<Catalogue, setting>>

\* syncTenantModulesFromPlan
ReadSync(w) ==
    LET r == txn[w] IN
    /\ r.op = "assign" /\ r.step = "assigned"
    /\ Continue(w, [op |-> "assign", tenant |-> r.tenant, step |-> "sync", plan |-> r.plan,
                    active |-> Active, included |-> planModules[r.plan]])
    /\ UNCHANGED <<Catalogue, Clubs>>

\* (mutant) modules of the plan are enabled, the others left as they are.
SyncedOnly(old, active, included) ==
    [m \in Module |-> IF m \in active \cap included THEN "ENABLED" ELSE old[m]]

Synced(old, active, included) ==
    [m \in Module |->
        IF m \in active THEN IF m \in included THEN "ENABLED" ELSE "DISABLED" ELSE old[m]]

CommitSync(w) ==
    LET r == txn[w] IN
    /\ r.op = "assign" /\ r.step = "sync"
    /\ setting' = [setting EXCEPT ![r.tenant] = Synced(@, r.active, r.included)]
    /\ apart' = apart \ {r.tenant}
    /\ Done(w)
    /\ UNCHANGED <<Catalogue, plan>>
-----------------------------------------------------------------------------
(* Settings by hand: one module after the other                            *)

ReadSettings(w, t) ==
    /\ \E ms \in SUBSET Defined \ {{}} :
          \E todo \in [Module -> Setting] :
              /\ \A m \in Module : todo[m] # "NONE" <=> m \in ms
              /\ Begin(w, [op |-> "settings", tenant |-> t, todo |-> todo])
    /\ UNCHANGED <<Catalogue, Clubs>>

SetModule(w) ==
    LET r == txn[w] IN
    /\ r.op = "settings"
    /\ \E m \in Module :
          LET rest == [r.todo EXCEPT ![m] = "NONE"] IN
          /\ r.todo[m] # "NONE"
          /\ setting' = [setting EXCEPT ![r.tenant][m] = r.todo[m]]
          /\ IF \A n \in Module : rest[n] = "NONE"
             THEN Done(w)
             ELSE Continue(w, [r EXCEPT !.todo = rest])
    /\ apart' = apart \cup {r.tenant}
    /\ UNCHANGED <<Catalogue, plan>>
-----------------------------------------------------------------------------
Next ==
    \E w \in Worker :
        \/ Abort(w)
        \/ \E m \in Module : CreateModule(w, m) \/ ArchiveModule(w, m)
        \/ \E p \in Plan : ReadPlanModules(w, p)
        \/ DeletePlanModules(w)
        \/ CommitPlanModules(w)
        \/ \E t \in Tenant : ReadAssign(w, t) \/ ReadSettings(w, t)
        \/ CommitAssign(w)
        \/ ReadSync(w)
        \/ CommitSync(w)
        \/ SetModule(w)

Spec == Init /\ [][Next]_vars
-----------------------------------------------------------------------------
(* When requests do not overlap                                            *)

\* A plan has exactly the modules it was last given, whatever it had before and whatever
\* was archived since (platform.service.ts:1883-1890).
PlanAsGiven == ~overlapped => \A p \in Plan : planModules[p] = asked[p]

\* From the end of an assignment until something is changed by hand, a club may use exactly
\* the active modules of its plan, although the plan is read after its subscription was
\* written, modules come and go, and requests crash half-way
\* (platform.service.ts:2996-3044, 3883-3932; auth.service.ts:325-344).
ModulesFollowPlan ==
    ~overlapped =>
        \A t \in Tenant \ apart :
            /\ plan[t] # NoPlan
            /\ Enabled(t) = Active \cap planModules[plan[t]]

\* Plans have the modules they were given, and tenants those of their plan
\* (platform.service.ts:1883-1890, 2996-3044).
ModulesKept == PlanAsGiven /\ ModulesFollowPlan
=============================================================================
