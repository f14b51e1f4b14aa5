-------------------------------- MODULE Club ---------------------------------
(***************************************************************************)
(* Parts of a club's system that share no row, with requests of the same   *)
(* server: its members, the messages of a conversation, how it came to be  *)
(* a tenant, the modules of its plan, and the member portal.               *)
(***************************************************************************)
EXTENDS Naturals, FiniteSets, Requests

CONSTANTS
    Member, Key, NoKey, Incident, AskedStatus,
    User, NoUser, Message,
    Lead, Tenant, NoTenant, Owner, Contact, Task, FirstTasks, MaxRecent, AskedLeadStatus,
    Subscriber, Plan, NoPlan, Module,  \* Subscriber: the tenants of PlanModules
    Client, Code                       \* Client: the members of MemberPortal

VARIABLES
    member, incident, file, used, given, lost, leftover,
    participant, message, reaction, mention, applied, erased,
    lead, tenant, account, contact, task, dated,
    catalogue, planModules, plan, setting, asked, apart,
    active, code, entered

People == INSTANCE Members
Texts == INSTANCE Messages
Arrival == INSTANCE Onboarding
Modules == INSTANCE PlanModules WITH Tenant <- Subscriber
Portal == INSTANCE MemberPortal WITH Member <- Client

ASSUME ComponentsOK ==
    /\ People!ConstantsOK /\ Texts!ConstantsOK /\ Arrival!ConstantsOK /\ Modules!ConstantsOK
    /\ IsFiniteSet(Worker)
-----------------------------------------------------------------------------
\* Rows and files of photos agree, in both directions (members.service.ts:769-800).
PhotosKept == People!PhotosKept

\* When requests do not overlap, what was decided of a member or of an incident stands
\* (members.service.ts:604-636, 1000-1010).
DecisionsStand == People!DecisionsStand

\* What was deleted or erased is not brought back by those who found it before
\* (chat.service.ts:1102-1107, 1160-1174, 1521-1534).
DeletionStands == Texts!DeletionStands

\* Who writes, reacts or is mentioned takes part, when requests do not overlap
\* (chat.service.ts:566-576, 1108, 1216, 1719).
ParticipantsOnly == Texts!ParticipantsOnly

\* A lead makes one tenant and names it, and addresses do not flood the list
\* (public.service.ts:67-76; platform.service.ts:869-1025).
LeadsKept == Arrival!LeadsKept

\* The contacts and tasks of a new tenant stay in order
\* (platform.service.ts:2368-2425, 2544-2567).
WorkspaceKept == Arrival!WorkspaceKept

\* Plans have the modules they were given, and tenants those of their plan
\* (platform.service.ts:1883-1890, 2996-3044).
ModulesKept == Modules!ModulesKept

\* A code lets one member in, once, while it is the last one that member asked for
\* (member-auth.service.ts:51-71, 92-130).
EntersOnce == Portal!EntersOnce
=============================================================================
