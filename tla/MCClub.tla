------------------------------- MODULE MCClub -------------------------------
(***************************************************************************)
(* Model checking of the parts of a club, which share no row: TLC looks at *)
(* them one after the other, and part tells which of them has requests.    *)
(* Members is looked at twice, with requests for photos, of which clients  *)
(* send one key, and with requests for incidents, and so is Onboarding,    *)
(* with requests for leads and with requests for the workspace of one      *)
(* tenant.                                                                 *)
(***************************************************************************)
EXTENDS Club, TLC

CONSTANT ClientKey    \* the key that clients send

VARIABLE part

members == <<member, incident, file, used, given, lost, leftover>>
messages == <<participant, message, reaction, mention, applied, erased>>
arrivals == <<lead, tenant, account, contact, task, dated>>
portal == <<active, code, entered>>
modules == <<catalogue, planModules, plan, setting, asked, apart>>

MCInit ==
    /\ People!Init
    /\ Texts!Init
    /\ Arrival!Init
    /\ Modules!Init
    /\ Portal!Init
    /\ part \in {"photos", "incidents", "messages", "leads", "workspace", "modules", "portal"}

MCNext ==
    /\ UNCHANGED part
    /\ \/ /\ part = "photos"
          /\ People!Next
          /\ \A w \in Worker : txn'[w].op \in {"idle", "photo", "remove"}
                                  \/ (txn'[w].op = "status" /\ txn'[w].status = "DELETED")
          /\ given' \subseteq {ClientKey}
          /\ UNCHANGED <<messages, arrivals, modules, portal>>
       \/ /\ part = "incidents"
          /\ People!Next
          /\ \A w \in Worker : txn'[w].op \in {"idle", "status", "note", "resolve"}
          /\ UNCHANGED <<given, messages, arrivals, modules, portal>>
       \/ /\ part = "messages"
          /\ Texts!Next
          /\ UNCHANGED <<members, arrivals, modules, portal>>
       \/ /\ part = "leads"
          /\ Arrival!Next
          /\ \A w \in Worker : txn'[w].op \in {"idle", "send", "convert"}
          /\ UNCHANGED <<task, members, messages, modules, portal>>
       \/ /\ part = "workspace"
          /\ Arrival!Next
          /\ Arrival!Leads # {} => Arrival!Leads' = Arrival!Leads
          /\ (\E t \in Tenant : Arrival!Exists(t)) /\ lead' # lead => tenant' # tenant
          /\ UNCHANGED <<members, messages, modules, portal>>
       \/ /\ part = "modules"
          /\ Modules!Next
          /\ UNCHANGED <<members, messages, arrivals, portal>>
       \/ /\ part = "portal"
          /\ Portal!Next
          /\ UNCHANGED <<members, messages, arrivals, modules>>

MCSpec == MCInit /\ [][MCNext]_<<part, members, messages, arrivals, modules, portal, txn,
                              overlapped>>

\* Ids are interchangeable; components take theirs from the same sets, which keeps the
\* group of permutations small.
Symmetry ==
    Permutations(Worker) \cup Permutations(User)
=============================================================================
