--------------------------------- MODULE Chat --------------------------------
(***************************************************************************)
(* Who takes part in which conversation of the internal chat               *)
(* (chat.service.ts, support-chat.service.ts): direct conversations,       *)
(* groups and their owners, and the support chats of a club with an agent  *)
(* of the platform.                                                        *)
(*                                                                         *)
(* Every handler looks at the participants first and then writes in a      *)
(* transaction that looks at nothing: what protects it is the identity of  *)
(* the participant row it found (an update or delete of a row that is gone *)
(* fails), the unique pair of conversation and user, and the foreign key   *)
(* to the conversation.  A participant that was removed and added again    *)
(* has a new row.                                                          *)
(*                                                                         *)
(* What the messages say, reactions, pins, keys of devices and the sockets *)
(* that announce changes are left out: no handler below reads them.  All   *)
(* collaborators and agents are active.                                    *)
(***************************************************************************)
EXTENDS Integers, FiniteSetsExt, Requests

CONSTANTS
    Conversation,
    Collaborator, \* the users of the club
    Agent,        \* the superadmins of the platform
    MaxRow,       \* bound: times participants are added to a group, and one
    MaxGroup      \* bound: groups at a time

ASSUME ConstantsOK ==
    /\ Collaborator \cap Agent = {}
    /\ IsFiniteSet(Collaborator) /\ IsFiniteSet(Agent)
    /\ MaxRow \in Nat
    /\ MaxGroup \in Nat

VARIABLES
    conversation, \* chat_conversations: type, createdBy, assignedTo (none or one agent)
    participant,  \* chat_participants, by conversation and user: role, number of the row
    rows,         \* times participant rows were created in a conversation
    departed      \* history: groups an owner left or was removed from

vars == <<conversation, participant, rows, departed, txn, overlapped>>
-----------------------------------------------------------------------------
User == Collaborator \cup Agent
Role == {"OWNER", "MEMBER"}

Out == [role |-> "NONE", row |-> 0]
NoConversation == [type |-> "NONE"]
Deleted == [type |-> "DELETED"]

Txn ==
    {Idle}
    \cup [op : {"createDirect"}, user : User, other : User]
    \cup [op : {"createSupport"}, user : Collaborator]
    \cup [op : {"delete"}, conversation : Conversation]
    \cup [op : {"leave", "remove"}, conversation : Conversation, user : User, row : Nat \ {0}]
    \cup [op : {"add"}, conversation : Conversation, added : SUBSET Collaborator]
    \cup [op : {"updateRole"}, conversation : Conversation, user : User, row : Nat \ {0},
         role : Role]
    \cup [op : {"assign"}, conversation : Conversation, user : Agent, already : BOOLEAN]

TypeOK ==
    /\ conversation \in [Conversation ->
           {NoConversation, Deleted}
           \cup [type : {"DIRECT", "GROUP", "SUPPORT"}, createdBy : User,
                 assignedTo : SUBSET Agent]]
    /\ participant \in [Conversation ->
           [User -> {Out} \cup [role : Role, row : Nat \ {0}]]]
    /\ rows \in [Conversation -> Nat]
    /\ departed \subseteq Conversation
    /\ overlapped \in BOOLEAN
    /\ txn \in [Worker -> Txn]

Init ==
    /\ conversation = [c \in Conversation |-> NoConversation]
    /\ participant = [c \in Conversation |-> [u \in User |-> Out]]
    /\ rows = [c \in Conversation |-> 0]
    /\ departed = {}
    /\ NoRequests
-----------------------------------------------------------------------------
Live == {c \in Conversation : conversation[c].type \notin {"NONE", "DELETED"}}
OfType(type) == {c \in Live : conversation[c].type = type}
Participants(c) == {u \in User : participant[c][u] # Out}
Owners(c) == {u \in User : participant[c][u].role = "OWNER"}
Takes(c, u, row) == c \in Live /\ participant[c][u].row = row
Tables == <<conversation, participant, rows, departed>>

\* Rows that are created together share their number: a user never has it twice.
Add(c, added, role(_)) ==
    /\ rows' = [rows EXCEPT ![c] = @ + 1]
    /\ participant' = [participant EXCEPT ![c] =
           [u \in User |-> IF u \in added THEN [role |-> role(u), row |-> rows[c] + 1] ELSE @[u]]]

Member(u) == "MEMBER"

\* A conversation of u with others: u owns it.
Create(c, type, u, others) ==
    LET role(v) == IF v = u THEN "OWNER" ELSE "MEMBER" IN
    /\ conversation[c] = NoConversation
    /\ conversation' = [conversation EXCEPT ![c] =
           [type |-> type, createdBy |-> u, assignedTo |-> {}]]
    /\ Add(c, others \cup {u}, role)

Remove(c, u) == participant' = [participant EXCEPT ![c][u] = Out]

\* Refused, because a row it found is gone or one it adds is there, or lost.
Abort(w) ==
    /\ txn[w] # Idle
    /\ Done(w)
    /\ UNCHANGED Tables
-----------------------------------------------------------------------------
(* Conversations begin and end.  Agents have the chat of the platform's    *)
(* own tenant; in that of a club they never own a conversation.            *)

\* (mutant) only the conversations that u began are looked at.
ExistingDirectBegun(u, v) ==
    {c \in OfType("DIRECT") : conversation[c].createdBy = u /\ Participants(c) = {u, v}}

ExistingDirect(u, v) == {c \in OfType("DIRECT") : Participants(c) = {u, v}}

\* Of two collaborators, or of two agents on the platform's side.
ReadCreateDirect(w) ==
    /\ \E peers \in {Collaborator, Agent} : \E u, v \in peers :
          /\ u # v
          /\ ExistingDirect(u, v) = {}
          /\ Begin(w, [op |-> "createDirect", user |-> u, other |-> v])
    /\ UNCHANGED Tables

CommitCreateDirect(w, c) ==
    /\ txn[w].op = "createDirect"
    /\ Create(c, "DIRECT", txn[w].user, {txn[w].other})
    /\ Done(w)
    /\ UNCHANGED departed

CreateGroup(w, c) ==
    /\ AtOnce(w)
    /\ Cardinality(OfType("GROUP")) < MaxGroup     \* bound
    /\ \E u \in Collaborator : \E others \in SUBSET (Collaborator \ {u}) :
          others # {} /\ Create(c, "GROUP", u, others)
    /\ UNCHANGED departed

ReadCreateSupport(w, u) ==
    /\ \A c \in OfType("SUPPORT") : u \notin Participants(c)
    /\ Begin(w, [op |-> "createSupport", user |-> u])
    /\ UNCHANGED Tables

CommitCreateSupport(w, c) ==
    /\ txn[w].op = "createSupport"
    /\ Create(c, "SUPPORT", txn[w].user, {})
    /\ Done(w)
    /\ UNCHANGED departed

ReadDelete(w, c) ==
    /\ \E u \in Participants(c) :
          /\ u \in Owners(c) \/ u = conversation[c].createdBy
          /\ Begin(w, [op |-> "delete", conversation |-> c])
    /\ UNCHANGED Tables

CommitDelete(w) ==
    LET c == txn[w].conversation IN
    /\ txn[w].op = "delete"
    /\ c \in Live
    /\ conversation' = [conversation EXCEPT ![c] = Deleted]
    /\ participant' = [participant EXCEPT ![c] = [u \in User |-> Out]]
    /\ departed' = departed \ {c}
    /\ Done(w)
    /\ UNCHANGED rows
-----------------------------------------------------------------------------
(* Groups.  Whoever takes part manages: ensureGroupManager asks no role.   *)

\* (mutant) two are enough to leave.
MayLoseOneOfTwo(c) == Cardinality(Participants(c)) >= 2

MayLoseOne(c) == Cardinality(Participants(c)) > 2

\* u leaves; or manager u removes another one.
ReadLeaveOrRemove(w, c) ==
    /\ c \in OfType("GROUP")
    /\ MayLoseOne(c)
    /\ \E u, v \in Participants(c) :
          Begin(w, [op |-> IF u = v THEN "leave" ELSE "remove", conversation |-> c,
                    user |-> v, row |-> participant[c][v].row])
    /\ UNCHANGED Tables

CommitLeaveOrRemove(w) ==
    LET t == txn[w] IN
    /\ t.op \in {"leave", "remove"}
    /\ Takes(t.conversation, t.user, t.row)
    /\ Remove(t.conversation, t.user)
    /\ departed' = IF t.user \in Owners(t.conversation)
                   THEN departed \cup {t.conversation} ELSE departed
    /\ Done(w)
    /\ UNCHANGED <<conversation, rows>>

ReadAdd(w, c) ==
    /\ c \in OfType("GROUP")
    /\ Participants(c) # {}
    /\ \E added \in SUBSET (Collaborator \ Participants(c)) :
          added # {} /\ Begin(w, [op |-> "add", conversation |-> c, added |-> added])
    /\ UNCHANGED Tables

\* skipDuplicates: who has been added meanwhile keeps that row.
CommitAdd(w) ==
    LET t == txn[w] IN
    /\ t.op = "add"
    /\ t.conversation \in Live
    /\ rows[t.conversation] < MaxRow     \* bound
    /\ Add(t.conversation, t.added \ Participants(t.conversation), Member)
    /\ Done(w)
    /\ UNCHANGED <<conversation, departed>>

MayBecome(c, u, role) ==
    u \in Owners(c) /\ role = "MEMBER" => Cardinality(Owners(c)) > 1

ReadUpdateRole(w, c) ==
    /\ c \in OfType("GROUP")
    /\ \E u \in Participants(c), role \in Role :
          /\ MayBecome(c, u, role)
          /\ Begin(w, [op |-> "updateRole", conversation |-> c, user |-> u,
                       row |-> participant[c][u].row, role |-> role])
    /\ UNCHANGED Tables

\* (mutant) the row is found by conversation and user.
CommitUpdateRoleByUser(w) ==
    LET t == txn[w] IN
    /\ t.op = "updateRole"
    /\ participant[t.conversation][t.user] # Out
    /\ participant' = [participant EXCEPT ![t.conversation][t.user].role = t.role]
    /\ Done(w)
    /\ UNCHANGED <<conversation, rows, departed>>

CommitUpdateRole(w) ==
    LET t == txn[w] IN
    /\ t.op = "updateRole"
    /\ Takes(t.conversation, t.user, t.row)
    /\ participant' = [participant EXCEPT ![t.conversation][t.user].role = t.role]
    /\ Done(w)
    /\ UNCHANGED <<conversation, rows, departed>>
-----------------------------------------------------------------------------
(* An agent takes a support chat                                           *)

\* (mutant) a chat can be taken over from another agent.
MayAssignAny(c, a) == TRUE

MayAssign(c, a) == conversation[c].assignedTo \subseteq {a}

ReadAssign(w, c, a) ==
    /\ c \in OfType("SUPPORT")
    /\ MayAssign(c, a)
    /\ Begin(w, [op |-> "assign", conversation |-> c, user |-> a,
                 already |-> a \in Participants(c)])
    /\ UNCHANGED Tables

CommitAssign(w) ==
    LET t == txn[w] IN
    /\ t.op = "assign"
    /\ t.conversation \in Live
    /\ conversation' = [conversation EXCEPT ![t.conversation].assignedTo = {t.user}]
    /\ IF t.already
       THEN UNCHANGED <<participant, rows>>
       ELSE /\ t.user \notin Participants(t.conversation)
            /\ Add(t.conversation, {t.user}, Member)
    /\ Done(w)
    /\ UNCHANGED departed
-----------------------------------------------------------------------------
Next ==
    \E w \in Worker :
        \/ Abort(w)
        \/ ReadCreateDirect(w)
        \/ \E u \in Collaborator : ReadCreateSupport(w, u)
        \/ \E c \in Conversation :
              \/ CommitCreateDirect(w, c)
              \/ CreateGroup(w, c)
              \/ CommitCreateSupport(w, c)
              \/ ReadDelete(w, c)
              \/ ReadLeaveOrRemove(w, c)
              \/ ReadAdd(w, c)
              \/ ReadUpdateRole(w, c)
              \/ \E a \in Agent : ReadAssign(w, c, a)
        \/ CommitDelete(w)
        \/ CommitLeaveOrRemove(w)
        \/ CommitAdd(w)
        \/ CommitUpdateRole(w)
        \/ CommitAssign(w)

Spec == Init /\ [][Next]_vars
-----------------------------------------------------------------------------
(* Whatever the interleaving                                               *)

\* A participant becomes an owner by a request that found this very membership: one
\* that is still in flight when its user is removed and added again makes
\* nobody an owner (chat.service.ts:1071-1074 writes by id).
OwnersByMembership ==
    \A c \in Conversation : \A u \in Participants(c) \ Owners(c) :
        participant'[c][u].role = "OWNER" =>
            \E w \in Worker : txn[w].op = "updateRole" /\ txn[w].row = participant[c][u].row

OwnerByMembership == [][OwnersByMembership]_vars

-----------------------------------------------------------------------------
(* When requests do not overlap                                            *)

\* A group keeps two participants (chat.service.ts:824-828 and 986-990, 'El grupo
\* debe mantener al menos dos participantes') and, unless an owner leaves or is
\* removed, an owner (1059-1067, 'al menos un propietario').
GroupKept ==
    ~overlapped =>
        \A c \in OfType("GROUP") :
            /\ Cardinality(Participants(c)) >= 2
            /\ c \notin departed => Owners(c) # {}

\* Two users share one direct conversation, and a collaborator has one support chat.
OneConversation ==
    ~overlapped =>
        /\ \A c, d \in OfType("DIRECT") : Participants(c) = Participants(d) => c = d
        /\ \A c, d \in OfType("SUPPORT") :
              conversation[c].createdBy = conversation[d].createdBy => c = d

\* The agents who take part in a support chat are the one it is assigned to
\* (support-chat.service.ts:159-161, 'ya esta asignado a otro agente').
OneAgent ==
    ~overlapped =>
        \A c \in OfType("SUPPORT") : Participants(c) \cap Agent = conversation[c].assignedTo

\* Groups keep their members and their owners (chat.service.ts:824-828, 1059-1074).
GroupsKept == []GroupKept /\ OwnerByMembership
=============================================================================
