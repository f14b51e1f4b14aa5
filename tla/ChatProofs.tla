------------------------------ MODULE ChatProofs -----------------------------
(***************************************************************************)
(* Theorems of Chat, for any number of requests, conversations and users:  *)
(* type correctness; whatever requests overlap, nobody becomes an owner by *)
(* a request that found an earlier membership; and, when they do not,      *)
(* groups keep two participants and an owner, two users share one direct   *)
(* conversation, and a support chat has the agent it is assigned to.       *)
(***************************************************************************)
EXTENDS Chat, FiniteSetTheorems, TLAPS

\* When requests do not overlap, one is in flight at most.
Alone ==
    ~overlapped => \A v, w \in Worker : txn[v] # Idle /\ txn[w] # Idle => v = w

ConversationRow ==
    {NoConversation, Deleted}
    \cup [type : {"DIRECT", "GROUP", "SUPPORT"}, createdBy : User, assignedTo : SUBSET Agent]
ParticipantRow == {Out} \cup [role : Role, row : Nat \ {0}]

\* What a request has read is typed by its operation.
LEMMA TxnFields ==
    ASSUME TypeOK, NEW w \in Worker
    PROVE  /\ txn[w] \in Txn
           /\ txn[w].op = "createDirect" => txn[w].user \in User /\ txn[w].other \in User
           /\ txn[w].op = "createSupport" => txn[w].user \in Collaborator
           /\ txn[w].op \in {"delete", "leave", "remove", "add", "updateRole", "assign"} =>
                  txn[w].conversation \in Conversation
           /\ txn[w].op \in {"leave", "remove", "updateRole"} =>
                  txn[w].user \in User /\ txn[w].row \in Nat \ {0}
           /\ txn[w].op = "add" => txn[w].added \subseteq Collaborator
           /\ txn[w].op = "updateRole" => txn[w].role \in Role
           /\ txn[w].op = "assign" => txn[w].user \in Agent /\ txn[w].already \in BOOLEAN
BY DEF TypeOK, Txn, Idle

LEMMA RowFields ==
    ASSUME TypeOK, NEW c \in Conversation
    PROVE  /\ rows[c] \in Nat
           /\ conversation[c] \in ConversationRow
           /\ c \in Live => /\ conversation[c].type \in {"DIRECT", "GROUP", "SUPPORT"}
                            /\ conversation[c].createdBy \in User
                            /\ conversation[c].assignedTo \subseteq Agent
           /\ \A u \in User :
                 /\ participant[c][u] \in ParticipantRow
                 /\ participant[c][u].row \in Nat
                 /\ participant[c][u].role \in {"NONE", "OWNER", "MEMBER"}
                 /\ u \in Participants(c) <=> participant[c][u].role # "NONE"
                 /\ u \in Participants(c) <=> participant[c][u].row # 0
<1>1. conversation[c] \in ConversationRow /\ rows[c] \in Nat
  BY DEF TypeOK, ConversationRow
<1>2. c \in Live => /\ conversation[c].type \in {"DIRECT", "GROUP", "SUPPORT"}
                    /\ conversation[c].createdBy \in User
                    /\ conversation[c].assignedTo \subseteq Agent
  BY <1>1 DEF ConversationRow, Live, NoConversation, Deleted
<1>3. ASSUME NEW u \in User
      PROVE  /\ participant[c][u] \in ParticipantRow
             /\ participant[c][u].row \in Nat
             /\ participant[c][u].role \in {"NONE", "OWNER", "MEMBER"}
             /\ u \in Participants(c) <=> participant[c][u].role # "NONE"
             /\ u \in Participants(c) <=> participant[c][u].row # 0
  <2>1. participant[c][u] \in ParticipantRow
    BY DEF TypeOK, ParticipantRow
  <2>2. QED
    BY <2>1 DEF ParticipantRow, Participants, Out, Role
<1>4. QED
  BY <1>1, <1>2, <1>3

\* A request that is about something is not idle.
LEMMA Busy == \A t : t.op # "idle" => t # Idle
BY DEF Idle

LEMMA PeopleFinite ==
    /\ IsFiniteSet(User)
    /\ \A c : IsFiniteSet(Participants(c)) /\ IsFiniteSet(Owners(c))
BY ConstantsOK, FS_Union, FS_Subset DEF User, Participants, Owners

\* The requests after one of them has begun, ended or been answered at once.
LEMMA After ==
    ASSUME TypeOK, Alone, NEW w \in Worker
    PROVE  /\ \A t : Begin(w, t) =>
                  /\ txn'[w] = t /\ \A v \in Worker \ {w} : txn'[v] = txn[v]
                  /\ ~overlapped' => ~overlapped /\ \A v \in Worker : txn[v].op = "idle"
           /\ Done(w) =>
                  /\ txn'[w].op = "idle" /\ \A v \in Worker \ {w} : txn'[v] = txn[v]
                  /\ overlapped' = overlapped
                  /\ ~overlapped /\ txn[w].op # "idle" =>
                         \A v \in Worker \ {w} : txn[v].op = "idle"
           /\ AtOnce(w) =>
                  /\ txn' = txn
                  /\ ~overlapped' => ~overlapped /\ \A v \in Worker : txn[v].op = "idle"
BY Busy DEF Begin, Continue, Done, AtOnce, Overlap, Idle, TypeOK, Alone

LEMMA RequestsKeep ==
    ASSUME TypeOK, Alone, NEW w \in Worker,
           \/ \E t \in Txn : Begin(w, t)
           \/ txn[w] # Idle /\ Done(w)
           \/ AtOnce(w)
    PROVE  txn' \in [Worker -> Txn] /\ overlapped' \in BOOLEAN /\ Alone'
<1>1. CASE \E t \in Txn : Begin(w, t)
  BY <1>1 DEF Begin, Overlap, Alone, TypeOK
<1>2. CASE txn[w] # Idle /\ Done(w)
  BY <1>2 DEF Done, Continue, Alone, TypeOK, Txn
<1>3. CASE AtOnce(w)
  BY <1>3 DEF AtOnce, Overlap, Alone, TypeOK
<1>4. QED
  BY <1>1, <1>2, <1>3
-----------------------------------------------------------------------------
(* What steps do to the rows                                               *)

\* A conversation that is not there has no participants.
NobodyThere ==
    \A c \in Conversation : c \notin Live => Participants(c) = {}

\* The participants of c after u has created it, after some were added, after u was
\* removed, and after the role of u was written.
CreatedRow(c, u, others) ==
    [v \in User |-> IF v \in others \cup {u}
                    THEN [role |-> IF v = u THEN "OWNER" ELSE "MEMBER", row |-> rows[c] + 1]
                    ELSE Out]
AddedRow(c, added) ==
    [v \in User |-> IF v \in added THEN [role |-> "MEMBER", row |-> rows[c] + 1]
                    ELSE participant[c][v]]
RemovedRow(c, u) == [v \in User |-> IF v = u THEN Out ELSE participant[c][v]]
RoleRow(c, u, role) ==
    [v \in User |-> IF v = u THEN [role |-> role, row |-> participant[c][u].row]
                    ELSE participant[c][v]]

\* The row of c after it was assigned to a.
AssignedRow(c, a) ==
    [type |-> conversation[c].type, createdBy |-> conversation[c].createdBy, assignedTo |-> {a}]

LEMMA CreateEffect ==
    ASSUME TypeOK, NobodyThere, NEW c \in Conversation,
           NEW type \in {"DIRECT", "GROUP", "SUPPORT"}, NEW u \in User,
           NEW others \in SUBSET User, Create(c, type, u, others)
    PROVE  /\ conversation[c] = NoConversation /\ c \notin Live
           /\ conversation' = [conversation EXCEPT ![c] =
                  [type |-> type, createdBy |-> u, assignedTo |-> {}]]
           /\ rows' = [rows EXCEPT ![c] = @ + 1]
           /\ participant' = [participant EXCEPT ![c] = CreatedRow(c, u, others)]
<1>1. conversation[c] = NoConversation
  BY DEF Create
<1>2. c \notin Live
  BY <1>1 DEF Live, NoConversation
<1>3. \A v \in User : participant[c][v] = Out
  BY <1>2 DEF NobodyThere, Participants
<1>4. participant' = [participant EXCEPT ![c] = [v \in User |->
          IF v \in others \cup {u}
          THEN [role |-> IF v = u THEN "OWNER" ELSE "MEMBER", row |-> rows[c] + 1]
          ELSE participant[c][v]]]
  BY DEF Create, Add, TypeOK
<1>5. QED
  BY <1>1, <1>2, <1>3, <1>4 DEF Create, Add, CreatedRow

LEMMA AddEffect ==
    ASSUME TypeOK, NEW c \in Conversation, NEW added \in SUBSET User, Add(c, added, Member)
    PROVE  /\ rows' = [rows EXCEPT ![c] = @ + 1]
           /\ participant' = [participant EXCEPT ![c] = AddedRow(c, added)]
BY DEF Add, Member, TypeOK, AddedRow

LEMMA RemoveEffect ==
    ASSUME TypeOK, NEW c \in Conversation, NEW u \in User, Remove(c, u)
    PROVE  participant' = [participant EXCEPT ![c] = RemovedRow(c, u)]
BY DEF Remove, TypeOK, RemovedRow

LEMMA RoleEffect ==
    ASSUME TypeOK, NEW w \in Worker, CommitUpdateRole(w),
           NEW c \in Conversation, c = txn[w].conversation
    PROVE  participant' = [participant EXCEPT ![c] = RoleRow(c, txn[w].user, txn[w].role)]
<1>. DEFINE u == txn[w].user
            role == txn[w].role
<1>1. u \in User /\ role \in Role
  BY TxnFields DEF CommitUpdateRole
<1>2. participant' = [participant EXCEPT ![c][u].role = role]
  BY DEF CommitUpdateRole
<1>. HIDE DEF u, role
<1>3. /\ participant[c] \in [User -> ParticipantRow]
      /\ participant \in [Conversation -> [User -> ParticipantRow]]
  BY DEF TypeOK, ParticipantRow
<1>4. participant[c][u] \in [role : Role \cup {"NONE"}, row : Nat]
  BY <1>1, <1>3 DEF ParticipantRow, Out
<1>5. [participant[c][u] EXCEPT !.role = role] = [role |-> role, row |-> participant[c][u].row]
  BY <1>4
<1>6. participant' = [participant EXCEPT ![c] = RoleRow(c, u, role)]
  BY <1>1, <1>2, <1>3, <1>5 DEF RoleRow
<1>7. QED
  BY <1>6 DEF u, role

LEMMA AssignEffect ==
    ASSUME TypeOK, NEW w \in Worker, CommitAssign(w),
           NEW c \in Conversation, c = txn[w].conversation
    PROVE  conversation' = [conversation EXCEPT ![c] = AssignedRow(c, txn[w].user)]
<1>. DEFINE a == txn[w].user
<1>1. c \in Live /\ conversation' = [conversation EXCEPT ![c].assignedTo = {a}]
  BY DEF CommitAssign
<1>. HIDE DEF a
<1>2. conversation[c] \in [type : {"DIRECT", "GROUP", "SUPPORT"}, createdBy : User,
                          assignedTo : SUBSET Agent]
  BY <1>1, RowFields DEF ConversationRow, Live, NoConversation, Deleted
<1>3. [conversation[c] EXCEPT !.assignedTo = {a}] =
          [type |-> conversation[c].type, createdBy |-> conversation[c].createdBy,
           assignedTo |-> {a}]
  BY <1>2
<1>4. conversation' = [conversation EXCEPT ![c] = AssignedRow(c, a)]
  BY <1>1, <1>3 DEF AssignedRow
<1>5. QED
  BY <1>4 DEF a

LEMMA RowsTyped ==
    ASSUME TypeOK, NEW c \in Conversation, NEW u \in User
    PROVE  /\ \A others \in SUBSET User : CreatedRow(c, u, others) \in [User -> ParticipantRow]
           /\ RemovedRow(c, u) \in [User -> ParticipantRow]
           /\ u \in Participants(c) =>
                  \A role \in Role : RoleRow(c, u, role) \in [User -> ParticipantRow]
BY RowFields DEF CreatedRow, RemovedRow, RoleRow, ParticipantRow, Role

LEMMA AddedTyped ==
    ASSUME TypeOK, NEW c \in Conversation, NEW added \in SUBSET User
    PROVE  AddedRow(c, added) \in [User -> ParticipantRow]
BY RowFields DEF AddedRow, ParticipantRow, Role

\* The participants after a step wrote those of one conversation.
LEMMA RowWritten ==
    ASSUME TypeOK, NEW c \in Conversation, NEW row \in [User -> ParticipantRow],
           participant' = [participant EXCEPT ![c] = row]
    PROVE  /\ participant' \in [Conversation -> [User -> ParticipantRow]]
           /\ participant'[c] = row
           /\ \A d \in Conversation \ {c} : participant'[d] = participant[d]
BY DEF TypeOK, ParticipantRow

\* A conversation made by u, and a step that writes the participants of c.
Made(c, type, u, others) ==
    /\ c \notin Live
    /\ conversation' = [conversation EXCEPT ![c] =
           [type |-> type, createdBy |-> u, assignedTo |-> {}]]
    /\ rows' = [rows EXCEPT ![c] = @ + 1]
    /\ participant' = [participant EXCEPT ![c] = CreatedRow(c, u, others)]
    /\ UNCHANGED departed

Added(c, added) ==
    /\ rows' = [rows EXCEPT ![c] = @ + 1]
    /\ participant' = [participant EXCEPT ![c] = AddedRow(c, added)]

LEMMA Makes ==
    ASSUME TypeOK, NobodyThere, NEW w \in Worker, NEW c \in Conversation
    PROVE  /\ CommitCreateDirect(w, c) =>
                  /\ txn[w].user \in User /\ txn[w].other \in User
                  /\ Made(c, "DIRECT", txn[w].user, {txn[w].other})
           /\ CommitCreateSupport(w, c) =>
                  /\ txn[w].user \in Collaborator
                  /\ Made(c, "SUPPORT", txn[w].user, {})
           /\ CreateGroup(w, c) =>
                  \E u \in Collaborator : \E others \in SUBSET (Collaborator \ {u}) :
                      others # {} /\ Made(c, "GROUP", u, others)
<1>1. Collaborator \subseteq User
  BY DEF User
<1>2. CommitCreateDirect(w, c) =>
          /\ txn[w].user \in User /\ txn[w].other \in User
          /\ Create(c, "DIRECT", txn[w].user, {txn[w].other}) /\ UNCHANGED departed
  BY TxnFields DEF CommitCreateDirect
<1>3. CommitCreateSupport(w, c) =>
          /\ txn[w].user \in Collaborator
          /\ Create(c, "SUPPORT", txn[w].user, {}) /\ UNCHANGED departed
  BY TxnFields DEF CommitCreateSupport
<1>4. CreateGroup(w, c) =>
          \E u \in Collaborator : \E others \in SUBSET (Collaborator \ {u}) :
              others # {} /\ Create(c, "GROUP", u, others) /\ UNCHANGED departed
  BY DEF CreateGroup
<1>5. ASSUME NEW type \in {"DIRECT", "GROUP", "SUPPORT"}, NEW u \in User,
             NEW others \in SUBSET User, Create(c, type, u, others), UNCHANGED departed
      PROVE  Made(c, type, u, others)
  <2>1. c \notin Live /\ rows' = [rows EXCEPT ![c] = @ + 1]
    BY <1>5, CreateEffect
  <2>2. conversation' = [conversation EXCEPT ![c] =
            [type |-> type, createdBy |-> u, assignedTo |-> {}]]
    BY <1>5, CreateEffect
  <2>3. participant' = [participant EXCEPT ![c] = CreatedRow(c, u, others)]
    BY <1>5, CreateEffect
  <2>4. QED
    BY <1>5, <2>1, <2>2, <2>3 DEF Made
<1>6. CommitCreateDirect(w, c) => Made(c, "DIRECT", txn[w].user, {txn[w].other})
  BY <1>2, <1>5
<1>7. CommitCreateSupport(w, c) => Made(c, "SUPPORT", txn[w].user, {})
  BY <1>1, <1>3, <1>5
<1>8. CreateGroup(w, c) =>
          \E u \in Collaborator : \E others \in SUBSET (Collaborator \ {u}) :
              others # {} /\ Made(c, "GROUP", u, others)
  <2>1. ASSUME NEW u \in Collaborator, NEW others \in SUBSET (Collaborator \ {u}),
               Create(c, "GROUP", u, others), UNCHANGED departed
        PROVE  Made(c, "GROUP", u, others)
    <3>1. u \in User /\ others \in SUBSET User
      BY <1>1
    <3>2. QED
      BY <2>1, <3>1, <1>5
  <2>2. QED
    BY <1>4, <2>1
<1>9. QED
  BY <1>2, <1>3, <1>6, <1>7, <1>8

LEMMA Changes ==
    ASSUME TypeOK, NEW w \in Worker, NEW c, c = txn[w].conversation
    PROVE  /\ CommitDelete(w) => c \in Live
           /\ CommitLeaveOrRemove(w) =>
                  /\ c \in Live /\ txn[w].user \in Participants(c)
                  /\ txn[w].row = participant[c][txn[w].user].row
                  /\ participant' = [participant EXCEPT ![c] = RemovedRow(c, txn[w].user)]
                  /\ UNCHANGED <<conversation, rows>>
           /\ CommitAdd(w) =>
                  /\ c \in Live /\ txn[w].added \subseteq Collaborator
                  /\ Added(c, txn[w].added \ Participants(c))
                  /\ UNCHANGED <<conversation, departed>>
           /\ CommitUpdateRole(w) =>
                  /\ c \in Live /\ txn[w].user \in Participants(c) /\ txn[w].role \in Role
                  /\ txn[w].row = participant[c][txn[w].user].row
                  /\ participant' = [participant EXCEPT ![c] = RoleRow(c, txn[w].user, txn[w].role)]
                  /\ UNCHANGED <<conversation, rows, departed>>
           /\ CommitAssign(w) =>
                  /\ c \in Live /\ txn[w].user \in Agent
                  /\ conversation' = [conversation EXCEPT ![c] = AssignedRow(c, txn[w].user)]
                  /\ \/ txn[w].already /\ UNCHANGED <<participant, rows>>
                     \/ ~txn[w].already /\ txn[w].user \notin Participants(c)
                            /\ Added(c, {txn[w].user})
                  /\ UNCHANGED departed
<1>1. Collaborator \subseteq User /\ Agent \subseteq User /\ Live \subseteq Conversation
  BY DEF User, Live
<1>2. CommitDelete(w) => c \in Live
  BY DEF CommitDelete
<1>3. ASSUME CommitLeaveOrRemove(w)
      PROVE  /\ c \in Live /\ txn[w].user \in Participants(c)
             /\ txn[w].row = participant[c][txn[w].user].row
             /\ participant' = [participant EXCEPT ![c] = RemovedRow(c, txn[w].user)]
             /\ UNCHANGED <<conversation, rows>>
  <2>1. /\ c \in Live /\ txn[w].user \in User /\ txn[w].row \in Nat \ {0}
        /\ txn[w].row = participant[c][txn[w].user].row
        /\ Remove(c, txn[w].user) /\ UNCHANGED <<conversation, rows>>
    BY <1>3, TxnFields DEF CommitLeaveOrRemove, Takes
  <2>2. QED
    BY <1>1, <2>1, RowFields, RemoveEffect
<1>4. ASSUME CommitAdd(w)
      PROVE  /\ c \in Live /\ txn[w].added \subseteq Collaborator
             /\ Added(c, txn[w].added \ Participants(c))
             /\ UNCHANGED <<conversation, departed>>
  <2>1. /\ c \in Live /\ txn[w].added \subseteq Collaborator
        /\ Add(c, txn[w].added \ Participants(c), Member)
        /\ UNCHANGED <<conversation, departed>>
    BY <1>4, TxnFields DEF CommitAdd
  <2>2. txn[w].added \ Participants(c) \in SUBSET User
    BY <1>1, <2>1
  <2>3. QED
    BY <1>1, <2>1, <2>2, AddEffect DEF Added
<1>5. ASSUME CommitUpdateRole(w)
      PROVE  /\ c \in Live /\ txn[w].user \in Participants(c) /\ txn[w].role \in Role
             /\ txn[w].row = participant[c][txn[w].user].row
             /\ participant' = [participant EXCEPT ![c] = RoleRow(c, txn[w].user, txn[w].role)]
             /\ UNCHANGED <<conversation, rows, departed>>
  <2>1. /\ c \in Live /\ txn[w].user \in User /\ txn[w].role \in Role
        /\ txn[w].row \in Nat \ {0} /\ txn[w].row = participant[c][txn[w].user].row
        /\ UNCHANGED <<conversation, rows, departed>>
    BY <1>5, TxnFields DEF CommitUpdateRole, Takes
  <2>2. c \in Conversation
    BY <1>1, <2>1
  <2>3. participant' = [participant EXCEPT ![c] = RoleRow(c, txn[w].user, txn[w].role)]
    BY <1>5, <2>2, RoleEffect
  <2>4. txn[w].user \in Participants(c)
    BY <2>1, <2>2, RowFields
  <2>5. QED
    BY <2>1, <2>3, <2>4
<1>6. ASSUME CommitAssign(w)
      PROVE  /\ c \in Live /\ txn[w].user \in Agent
             /\ conversation' = [conversation EXCEPT ![c] = AssignedRow(c, txn[w].user)]
             /\ \/ txn[w].already /\ UNCHANGED <<participant, rows>>
                \/ ~txn[w].already /\ txn[w].user \notin Participants(c)
                       /\ Added(c, {txn[w].user})
             /\ UNCHANGED departed
  <2>1. /\ c \in Live /\ txn[w].user \in Agent
        /\ \/ txn[w].already /\ UNCHANGED <<participant, rows>>
           \/ ~txn[w].already /\ txn[w].user \notin Participants(c)
                  /\ Add(c, {txn[w].user}, Member)
        /\ UNCHANGED departed
    BY <1>6, TxnFields DEF CommitAssign
  <2>2. {txn[w].user} \in SUBSET User
    BY <1>1, <2>1
  <2>3. conversation' = [conversation EXCEPT ![c] = AssignedRow(c, txn[w].user)]
    BY <1>1, <1>6, <2>1, AssignEffect
  <2>4. QED
    BY <1>1, <2>1, <2>2, <2>3, AddEffect DEF Added
<1>7. QED
  BY <1>2, <1>3, <1>4, <1>5, <1>6
-----------------------------------------------------------------------------
(* Types                                                                   *)

\* Steps that write no table.
Looks(w) ==
    \/ Abort(w) \/ ReadCreateDirect(w)
    \/ (\E u \in Collaborator : ReadCreateSupport(w, u))
    \/ \E c \in Conversation :
          \/ ReadDelete(w, c) \/ ReadLeaveOrRemove(w, c) \/ ReadAdd(w, c) \/ ReadUpdateRole(w, c)
          \/ \E a \in Agent : ReadAssign(w, c, a)

LEMMA LooksKeep ==
    ASSUME TypeOK, NEW w \in Worker, Looks(w)
    PROVE  /\ UNCHANGED Tables
           /\ (txn[w] # Idle /\ Done(w)) \/ \E t \in Txn : Begin(w, t)
<1>1. UNCHANGED Tables
  BY DEF Looks, Abort, ReadCreateDirect, ReadCreateSupport, ReadDelete, ReadLeaveOrRemove,
         ReadAdd, ReadUpdateRole, ReadAssign
<1>2. Collaborator \subseteq User /\ Agent \subseteq User
  BY DEF User
<1>3. CASE Abort(w)
  BY <1>3 DEF Abort
<1>4. CASE ReadCreateDirect(w)
  BY <1>2, <1>4 DEF ReadCreateDirect, Txn
<1>5. CASE \E u \in Collaborator : ReadCreateSupport(w, u)
  BY <1>5 DEF ReadCreateSupport, Txn
<1>6. ASSUME NEW c \in Conversation,
             \/ ReadDelete(w, c) \/ ReadLeaveOrRemove(w, c) \/ ReadAdd(w, c) \/ ReadUpdateRole(w, c)
             \/ \E a \in Agent : ReadAssign(w, c, a)
      PROVE  \E t \in Txn : Begin(w, t)
  <2>1. CASE ReadDelete(w, c)
    BY <2>1 DEF ReadDelete, Txn
  <2>2. CASE ReadLeaveOrRemove(w, c)
    <3>1. PICK u \in Participants(c), v \in Participants(c) :
              Begin(w, [op |-> IF u = v THEN "leave" ELSE "remove", conversation |-> c,
                        user |-> v, row |-> participant[c][v].row])
      BY <2>2 DEF ReadLeaveOrRemove
    <3>2. v \in User /\ participant[c][v].row \in Nat \ {0}
      BY RowFields DEF Participants
    <3>3. [op |-> IF u = v THEN "leave" ELSE "remove", conversation |-> c,
           user |-> v, row |-> participant[c][v].row] \in Txn
      BY <3>2 DEF Txn
    <3>4. QED
      BY <3>1, <3>3
  <2>3. CASE ReadAdd(w, c)
    BY <2>3 DEF ReadAdd, Txn
  <2>4. CASE ReadUpdateRole(w, c)
    <3>1. PICK u \in Participants(c), role \in Role :
              Begin(w, [op |-> "updateRole", conversation |-> c, user |-> u,
                        row |-> participant[c][u].row, role |-> role])
      BY <2>4 DEF ReadUpdateRole
    <3>2. u \in User /\ participant[c][u].row \in Nat \ {0}
      BY RowFields DEF Participants
    <3>3. [op |-> "updateRole", conversation |-> c, user |-> u,
           row |-> participant[c][u].row, role |-> role] \in Txn
      BY <3>2 DEF Txn
    <3>4. QED
      BY <3>1, <3>3
  <2>5. CASE \E a \in Agent : ReadAssign(w, c, a)
    <3>1. PICK a \in Agent :
              Begin(w, [op |-> "assign", conversation |-> c, user |-> a,
                        already |-> a \in Participants(c)])
      BY <2>5 DEF ReadAssign
    <3>2. ASSUME NEW already \in BOOLEAN
          PROVE  [op |-> "assign", conversation |-> c, user |-> a, already |-> already] \in Txn
      BY DEF Txn
    <3>3. (a \in Participants(c)) \in BOOLEAN
      OBVIOUS
    <3>4. QED
      BY <3>1, <3>2, <3>3
  <2>6. QED
    BY <1>6, <2>1, <2>2, <2>3, <2>4, <2>5
<1>7. QED
  BY <1>1, <1>3, <1>4, <1>5, <1>6 DEF Looks

\* Steps that write a table.
Writes(w) ==
    \/ \E c \in Conversation :
          CommitCreateDirect(w, c) \/ CreateGroup(w, c) \/ CommitCreateSupport(w, c)
    \/ CommitDelete(w) \/ CommitLeaveOrRemove(w) \/ CommitAdd(w) \/ CommitUpdateRole(w)
    \/ CommitAssign(w)

LEMMA NextSteps == Next <=> \E w \in Worker : Looks(w) \/ Writes(w)
BY DEF Next, Looks, Writes

LEMMA WritesRequests ==
    ASSUME TypeOK, NEW w \in Worker, Writes(w)
    PROVE  AtOnce(w) \/ (txn[w] # Idle /\ Done(w))
BY Busy DEF Writes, CommitCreateDirect, CreateGroup, CommitCreateSupport, CommitDelete,
            CommitLeaveOrRemove, CommitAdd, CommitUpdateRole, CommitAssign

TablesTyped ==
    /\ conversation \in [Conversation -> ConversationRow]
    /\ participant \in [Conversation -> [User -> ParticipantRow]]
    /\ rows \in [Conversation -> Nat]
    /\ departed \subseteq Conversation

LEMMA MadeTyped ==
    ASSUME TypeOK, NobodyThere, NEW c \in Conversation, NEW u \in User,
           NEW others \in SUBSET User, NEW type \in {"DIRECT", "GROUP", "SUPPORT"},
           Made(c, type, u, others)
    PROVE  TablesTyped' /\ NobodyThere'
<1>1. /\ participant' \in [Conversation -> [User -> ParticipantRow]]
      /\ \A d \in Conversation \ {c} : participant'[d] = participant[d]
  BY RowsTyped, RowWritten DEF Made
<1>2. /\ conversation' \in [Conversation -> ConversationRow]
      /\ conversation'[c].type = type
      /\ \A d \in Conversation \ {c} : conversation'[d] = conversation[d]
  <2>. DEFINE made == [type |-> type, createdBy |-> u, assignedTo |-> {}]
  <2>1. made \in ConversationRow /\ made.type = type
    BY DEF ConversationRow
  <2>2. conversation' = [conversation EXCEPT ![c] = made]
    BY DEF Made
  <2>. HIDE DEF made
  <2>3. conversation \in [Conversation -> ConversationRow]
    BY DEF TypeOK, ConversationRow
  <2>4. QED
    BY <2>1, <2>2, <2>3
<1>3. rows' \in [Conversation -> Nat] /\ departed' \subseteq Conversation
  BY DEF Made, TypeOK
<1>4. NobodyThere'
  BY <1>1, <1>2 DEF NobodyThere, Live, Participants
<1>5. QED
  BY <1>1, <1>2, <1>3, <1>4 DEF TablesTyped

LEMMA WritesTyped ==
    ASSUME TypeOK, NobodyThere, NEW w \in Worker, Writes(w)
    PROVE  TablesTyped' /\ NobodyThere'
<1>1. Collaborator \subseteq User /\ Agent \subseteq User /\ Live \subseteq Conversation
  BY DEF User, Live
<1>2. TablesTyped
  BY DEF TypeOK, TablesTyped, ConversationRow, ParticipantRow
<1>. DEFINE c == txn[w].conversation
<1>3. ASSUME NEW d \in Conversation,
             CommitCreateDirect(w, d) \/ CreateGroup(w, d) \/ CommitCreateSupport(w, d)
      PROVE  TablesTyped' /\ NobodyThere'
  <2>1. CASE CommitCreateDirect(w, d)
    <3>1. txn[w].user \in User /\ {txn[w].other} \in SUBSET User
      BY <2>1, Makes
    <3>2. QED
      BY <2>1, <3>1, Makes, MadeTyped
  <2>2. CASE CreateGroup(w, d)
    <3>1. PICK u \in Collaborator : \E others \in SUBSET (Collaborator \ {u}) :
              Made(d, "GROUP", u, others)
      BY <2>2, Makes
    <3>2. PICK others \in SUBSET User : Made(d, "GROUP", u, others)
      BY <1>1, <3>1
    <3>3. QED
      BY <1>1, <3>2, MadeTyped
  <2>3. CASE CommitCreateSupport(w, d)
    BY <1>1, <2>3, Makes, MadeTyped
  <2>4. QED
    BY <1>3, <2>1, <2>2, <2>3
<1>4. CASE CommitDelete(w)
  <2>1. c \in Conversation
    BY <1>1, <1>4, Changes
  <2>2. [u \in User |-> Out] \in [User -> ParticipantRow]
    BY DEF ParticipantRow
  <2>3. /\ participant' \in [Conversation -> [User -> ParticipantRow]]
        /\ participant'[c] = [u \in User |-> Out]
        /\ \A d \in Conversation \ {c} : participant'[d] = participant[d]
    BY <1>4, <2>1, <2>2, RowWritten DEF CommitDelete
  <2>4. conversation' \in [Conversation -> ConversationRow]
        /\ \A d \in Conversation \ {c} : conversation'[d] = conversation[d]
    BY <1>2, <1>4, <2>1 DEF CommitDelete, TablesTyped, ConversationRow
  <2>5. QED
    BY <1>2, <1>4, <2>3, <2>4
       DEF CommitDelete, TablesTyped, NobodyThere, Live, Participants
<1>5. CASE CommitLeaveOrRemove(w)
  <2>1. /\ c \in Live /\ c \in Conversation /\ txn[w].user \in User
        /\ participant' = [participant EXCEPT ![c] = RemovedRow(c, txn[w].user)]
        /\ UNCHANGED <<conversation, rows>>
    BY <1>1, <1>5, Changes DEF Participants
  <2>2. /\ participant' \in [Conversation -> [User -> ParticipantRow]]
        /\ \A d \in Conversation \ {c} : participant'[d] = participant[d]
    BY <2>1, RowsTyped, RowWritten
  <2>3. departed' \subseteq Conversation
    BY <1>2, <1>5, <2>1 DEF CommitLeaveOrRemove, TablesTyped
  <2>4. QED
    BY <1>2, <2>1, <2>2, <2>3 DEF TablesTyped, NobodyThere, Live, Participants
<1>6. CASE CommitAdd(w)
  <2>1. /\ c \in Live /\ c \in Conversation /\ txn[w].added \ Participants(c) \in SUBSET User
        /\ Added(c, txn[w].added \ Participants(c))
        /\ UNCHANGED <<conversation, departed>>
    BY <1>1, <1>6, Changes
  <2>2. /\ participant' \in [Conversation -> [User -> ParticipantRow]]
        /\ \A d \in Conversation \ {c} : participant'[d] = participant[d]
    BY <2>1, AddedTyped, RowWritten DEF Added
  <2>3. rows' \in [Conversation -> Nat]
    BY <1>2, <2>1 DEF Added, TablesTyped
  <2>4. QED
    BY <1>2, <2>1, <2>2, <2>3 DEF TablesTyped, NobodyThere, Live, Participants
<1>7. CASE CommitUpdateRole(w)
  <2>1. /\ c \in Live /\ c \in Conversation /\ txn[w].user \in Participants(c)
        /\ txn[w].user \in User /\ txn[w].role \in Role
        /\ participant' = [participant EXCEPT ![c] = RoleRow(c, txn[w].user, txn[w].role)]
        /\ UNCHANGED <<conversation, rows, departed>>
    BY <1>1, <1>7, Changes DEF Participants
  <2>2. /\ participant' \in [Conversation -> [User -> ParticipantRow]]
        /\ \A d \in Conversation \ {c} : participant'[d] = participant[d]
    BY <2>1, RowsTyped, RowWritten
  <2>3. QED
    BY <1>2, <2>1, <2>2 DEF TablesTyped, NobodyThere, Live, Participants
<1>8. CASE CommitAssign(w)
  <2>. DEFINE a == txn[w].user
  <2>1. /\ c \in Live /\ c \in Conversation /\ a \in Agent /\ {a} \in SUBSET User
        /\ conversation' = [conversation EXCEPT ![c] = AssignedRow(c, a)]
        /\ UNCHANGED <<participant, rows>> \/ Added(c, {a})
        /\ UNCHANGED departed
    BY <1>1, <1>8, Changes
  <2>2. /\ participant' \in [Conversation -> [User -> ParticipantRow]]
        /\ \A d \in Conversation \ {c} : participant'[d] = participant[d]
        /\ rows' \in [Conversation -> Nat]
    <3>1. CASE UNCHANGED <<participant, rows>>
      BY <1>2, <3>1 DEF TablesTyped
    <3>2. CASE Added(c, {a})
      <4>1. AddedRow(c, {a}) \in [User -> ParticipantRow]
        BY <2>1, AddedTyped
      <4>2. /\ participant' \in [Conversation -> [User -> ParticipantRow]]
            /\ \A d \in Conversation \ {c} : participant'[d] = participant[d]
        BY <2>1, <3>2, <4>1, RowWritten DEF Added
      <4>3. rows' \in [Conversation -> Nat]
        BY <1>2, <2>1, <3>2 DEF Added, TablesTyped
      <4>4. QED
        BY <4>2, <4>3
    <3>3. QED
      BY <2>1, <3>1, <3>2
  <2>3. AssignedRow(c, a) \in ConversationRow
    BY <2>1, RowFields DEF AssignedRow, ConversationRow
  <2>4. AssignedRow(c, a).type = conversation[c].type
    BY DEF AssignedRow
  <2>5. /\ conversation' \in [Conversation -> ConversationRow]
        /\ conversation'[c].type = conversation[c].type
        /\ \A d \in Conversation \ {c} : conversation'[d] = conversation[d]
    BY <1>2, <2>1, <2>3, <2>4 DEF TablesTyped
  <2>6. QED
    BY <1>2, <2>1, <2>2, <2>5 DEF TablesTyped, NobodyThere, Live, Participants
<1>9. QED
  BY <1>3, <1>4, <1>5, <1>6, <1>7, <1>8 DEF Writes

LEMMA InitTyped == Init => TypeOK /\ Alone /\ NobodyThere
<1>. SUFFICES ASSUME Init PROVE TypeOK /\ Alone /\ NobodyThere
  OBVIOUS
<1>1. txn \in [Worker -> Txn] /\ overlapped \in BOOLEAN /\ \A w \in Worker : txn[w] = Idle
  BY DEF Init, NoRequests, Txn
<1>2. QED
  BY <1>1 DEF Init, TypeOK, Alone, NobodyThere, Participants

LEMMA NextTyped ==
    TypeOK /\ Alone /\ NobodyThere /\ [Next]_vars => (TypeOK /\ Alone /\ NobodyThere)'
<1>. SUFFICES ASSUME TypeOK, Alone, NobodyThere, [Next]_vars
              PROVE  TypeOK' /\ Alone' /\ NobodyThere'
  OBVIOUS
<1>1. CASE UNCHANGED vars
  BY <1>1 DEF vars, TypeOK, Alone, NobodyThere, Live, Participants
<1>2. ASSUME NEW w \in Worker, Looks(w)
      PROVE  TypeOK' /\ Alone' /\ NobodyThere'
  <2>1. txn' \in [Worker -> Txn] /\ overlapped' \in BOOLEAN /\ Alone'
    BY <1>2, LooksKeep, RequestsKeep
  <2>2. UNCHANGED Tables
    BY <1>2, LooksKeep
  <2>3. QED
    BY <2>1, <2>2 DEF Tables, TypeOK, NobodyThere, Live, Participants
<1>3. ASSUME NEW w \in Worker, Writes(w)
      PROVE  TypeOK' /\ Alone' /\ NobodyThere'
  <2>1. txn' \in [Worker -> Txn] /\ overlapped' \in BOOLEAN /\ Alone'
    BY <1>3, WritesRequests, RequestsKeep
  <2>2. TablesTyped' /\ NobodyThere'
    BY <1>3, WritesTyped
  <2>3. QED
    BY <2>1, <2>2 DEF TypeOK, TablesTyped, ConversationRow, ParticipantRow
<1>4. QED
  BY <1>1, <1>2, <1>3, NextSteps

\* Every row and every request keeps its type.
THEOREM TypeCorrect == Spec => []TypeOK
<1>1. Spec => [](TypeOK /\ Alone /\ NobodyThere)
  BY InitTyped, NextTyped, PTL DEF Spec
<1>2. QED
  BY <1>1, PTL
-----------------------------------------------------------------------------
(* Who takes part after a step, and who owns                               *)

LEMMA CreatedPeople ==
    ASSUME TypeOK, NEW c \in Conversation, NEW u \in User, NEW others \in SUBSET User,
           participant' = [participant EXCEPT ![c] = CreatedRow(c, u, others)]
    PROVE  Participants(c)' = others \cup {u} /\ Owners(c)' = {u}
<1>1. participant'[c] = CreatedRow(c, u, others) /\ rows[c] \in Nat
  BY RowsTyped, RowWritten, RowFields
<1>2. QED
  BY <1>1 DEF Participants, Owners, CreatedRow, Out

LEMMA AddedPeople ==
    ASSUME TypeOK, NEW c \in Conversation, NEW added \in SUBSET (User \ Participants(c)),
           participant' = [participant EXCEPT ![c] = AddedRow(c, added)]
    PROVE  Participants(c)' = Participants(c) \cup added /\ Owners(c)' = Owners(c)
<1>1. added \in SUBSET User /\ \A v \in added : participant[c][v] = Out
  BY DEF Participants
<1>2. participant'[c] = AddedRow(c, added) /\ rows[c] \in Nat
  BY <1>1, AddedTyped, RowWritten, RowFields
<1>3. QED
  BY <1>1, <1>2 DEF Participants, Owners, AddedRow, Out

LEMMA RemovedPeople ==
    ASSUME TypeOK, NEW c \in Conversation, NEW u \in User,
           participant' = [participant EXCEPT ![c] = RemovedRow(c, u)]
    PROVE  Participants(c)' = Participants(c) \ {u} /\ Owners(c)' = Owners(c) \ {u}
<1>1. participant'[c] = RemovedRow(c, u)
  BY RowsTyped, RowWritten
<1>2. QED
  BY <1>1 DEF Participants, Owners, RemovedRow, Out

LEMMA RolePeople ==
    ASSUME TypeOK, NEW c \in Conversation, NEW u \in Participants(c), NEW role \in Role,
           participant' = [participant EXCEPT ![c] = RoleRow(c, u, role)]
    PROVE  /\ Participants(c)' = Participants(c)
           /\ role = "OWNER" => u \in Owners(c)'
           /\ Owners(c)' \ {u} = Owners(c) \ {u}
<1>1. u \in User
  BY DEF Participants
<1>2. participant'[c] = RoleRow(c, u, role)
  BY <1>1, RowsTyped, RowWritten
<1>3. \A v \in User : participant'[c][v] =
          IF v = u THEN [role |-> role, row |-> participant[c][u].row] ELSE participant[c][v]
  BY <1>2 DEF RoleRow
<1>4. participant'[c][u] # Out /\ participant[c][u] # Out /\ participant'[c][u].role = role
  BY <1>1, <1>3 DEF Participants, Out, Role
<1>5. Participants(c)' = Participants(c)
  BY <1>1, <1>3, <1>4 DEF Participants
<1>6. /\ role = "OWNER" => u \in Owners(c)'
      /\ Owners(c)' \ {u} = Owners(c) \ {u}
  BY <1>1, <1>3, <1>4 DEF Owners
<1>7. QED
  BY <1>5, <1>6
-----------------------------------------------------------------------------
(* Whatever the interleaving                                               *)

LEMMA OwnersOf ==
    \A c \in Conversation : \A u \in Participants(c) \ Owners(c) :
        u \in User /\ participant[c][u].role # "OWNER"
BY DEF Participants, Owners

LEMMA OwnersComeByMembership ==
    TypeOK /\ NobodyThere /\ [Next]_vars => OwnersByMembership \/ UNCHANGED vars
<1>. SUFFICES ASSUME TypeOK, NobodyThere, NEW w \in Worker, Looks(w) \/ Writes(w),
                     NEW c \in Conversation, NEW u \in Participants(c) \ Owners(c),
                     participant'[c][u].role = "OWNER"
              PROVE  txn[w].op = "updateRole" /\ txn[w].row = participant[c][u].row
  BY NextSteps DEF OwnersByMembership
<1>1. u \in User /\ participant[c][u].role # "OWNER"
  BY OwnersOf
<1>2. participant'[c] # participant[c]
  BY <1>1
<1>3. c \in Live
  BY DEF NobodyThere
<1>4. ~Looks(w)
  BY <1>2, LooksKeep DEF Tables
<1>5. ASSUME NEW d \in Conversation,
             CommitCreateDirect(w, d) \/ CreateGroup(w, d) \/ CommitCreateSupport(w, d)
      PROVE  FALSE
  <2>1. \E row : participant' = [participant EXCEPT ![d] = row]
    BY <1>5 DEF CommitCreateDirect, CreateGroup, CommitCreateSupport, Create, Add
  <2>2. d \notin Live
    BY <1>5, Makes DEF Made
  <2>3. QED
    BY <1>2, <1>3, <2>1, <2>2 DEF TypeOK
<1>. DEFINE d == txn[w].conversation
<1>6. ASSUME CommitDelete(w)
      PROVE  FALSE
  <2>1. participant' = [participant EXCEPT ![d] = [v \in User |-> Out]]
    BY <1>6 DEF CommitDelete
  <2>2. c = d
    BY <1>2, <2>1 DEF TypeOK
  <2>3. participant'[c][u] = Out
    BY <1>1, <2>1, <2>2 DEF TypeOK
  <2>4. QED
    BY <2>3 DEF Out
<1>7. ASSUME CommitLeaveOrRemove(w)
      PROVE  FALSE
  <2>1. /\ participant' = [participant EXCEPT ![d] = RemovedRow(d, txn[w].user)]
        /\ txn[w].user \in User
    BY <1>7, Changes DEF Participants
  <2>2. c = d
    BY <1>2, <2>1 DEF TypeOK
  <2>3. Owners(c)' = Owners(c) \ {txn[w].user}
    BY <2>1, <2>2, RemovedPeople
  <2>4. QED
    BY <1>1, <2>3 DEF Owners
<1>8. ASSUME NEW added \in SUBSET (User \ Participants(d)), d \in Conversation, Added(d, added)
      PROVE  FALSE
  <2>1. participant' = [participant EXCEPT ![d] = AddedRow(d, added)]
    BY <1>8 DEF Added
  <2>2. c = d
    BY <1>2, <2>1 DEF TypeOK
  <2>3. Owners(c)' = Owners(c)
    BY <1>8, <2>1, <2>2, AddedPeople
  <2>4. QED
    BY <1>1, <2>3 DEF Owners
<1>9. ~CommitAdd(w)
  <2>. SUFFICES ASSUME CommitAdd(w) PROVE FALSE
    OBVIOUS
  <2>1. /\ d \in Live /\ txn[w].added \subseteq Collaborator
        /\ Added(d, txn[w].added \ Participants(d))
    BY Changes
  <2>2. txn[w].added \ Participants(d) \in SUBSET (User \ Participants(d))
    BY <2>1 DEF User
  <2>3. QED
    BY <1>8, <2>1, <2>2 DEF Live
<1>10. ~CommitAssign(w)
  <2>. SUFFICES ASSUME CommitAssign(w) PROVE FALSE
    OBVIOUS
  <2>1. /\ d \in Live /\ txn[w].user \in Agent
        /\ \/ UNCHANGED participant
           \/ txn[w].user \notin Participants(d) /\ Added(d, {txn[w].user})
    BY Changes
  <2>2. QED
    BY <1>2, <1>8, <2>1 DEF Live, User
<1>11. CommitUpdateRole(w)
  BY <1>4, <1>5, <1>6, <1>7, <1>9, <1>10 DEF Writes
<1>12. /\ d \in Conversation /\ txn[w].user \in Participants(d) /\ txn[w].role \in Role
       /\ txn[w].row = participant[d][txn[w].user].row
       /\ participant' = [participant EXCEPT ![d] = RoleRow(d, txn[w].user, txn[w].role)]
  BY <1>11, Changes DEF Live
<1>13. c = d
  BY <1>2, <1>12 DEF TypeOK
<1>14. Owners(c)' \ {txn[w].user} = Owners(c) \ {txn[w].user}
  BY <1>12, <1>13, RolePeople
<1>15. u = txn[w].user
  BY <1>1, <1>14 DEF Owners
<1>16. QED
  BY <1>11, <1>12, <1>13, <1>15 DEF CommitUpdateRole

\* A request makes an owner of the membership it found, and of no later one of
\* the same user (chat.service.ts:1071-1074).
THEOREM OwnersAreMembers == Spec => OwnerByMembership
<1>1. Spec => [](TypeOK /\ Alone /\ NobodyThere)
  BY InitTyped, NextTyped, PTL DEF Spec
<1>2. TypeOK /\ NobodyThere /\ [Next]_vars => [OwnersByMembership]_vars
  BY OwnersComeByMembership
<1>3. Spec => [][OwnersByMembership]_vars
  BY <1>1, <1>2, PTL DEF Spec
<1>4. QED
  BY <1>3, PTL DEF OwnerByMembership
-----------------------------------------------------------------------------
(* When requests do not overlap                                            *)

\* What each conversation promises of its own participants.
GroupFine(c) ==
    c \in OfType("GROUP") =>
        /\ Cardinality(Participants(c)) >= 2
        /\ c \notin departed => Owners(c) # {}

SupportFine(c) ==
    c \in OfType("SUPPORT") =>
        /\ conversation[c].createdBy \in Participants(c)
        /\ Participants(c) \cap Agent = conversation[c].assignedTo

\* What two conversations promise of each other.
Differ(c, d) ==
    c # d =>
        /\ c \in OfType("DIRECT") /\ d \in OfType("DIRECT") => Participants(c) # Participants(d)
        /\ c \in OfType("SUPPORT") /\ d \in OfType("SUPPORT") =>
               conversation[c].createdBy # conversation[d].createdBy

Sound ==
    /\ \A c \in Conversation : GroupFine(c) /\ SupportFine(c)
    /\ \A c, d \in Conversation : Differ(c, d)

\* What a request in flight has found is still so.
Founded(w) ==
    LET t == txn[w]
        c == txn[w].conversation IN
    /\ t.op = "createDirect" => t.user # t.other /\ ExistingDirect(t.user, t.other) = {}
    /\ t.op = "createSupport" => \A d \in OfType("SUPPORT") : t.user \notin Participants(d)
    /\ t.op \in {"leave", "remove"} =>
           c \in OfType("GROUP") /\ t.user \in Participants(c) /\ MayLoseOne(c)
    /\ t.op = "add" => c \in OfType("GROUP")
    /\ t.op = "updateRole" =>
           c \in OfType("GROUP") /\ t.user \in Participants(c) /\ MayBecome(c, t.user, t.role)
    /\ t.op = "assign" =>
           c \in OfType("SUPPORT") /\ MayAssign(c, t.user)
           /\ (t.already <=> t.user \in Participants(c))

Serial == ~overlapped => Sound /\ \A w \in Worker : Founded(w)

LEMMA FewPeople ==
    ASSUME NEW S, IsFiniteSet(S), NEW u
    PROVE  /\ Cardinality(S) \in Nat
           /\ u \in S => Cardinality(S \ {u}) = Cardinality(S) - 1
           /\ u \notin S => Cardinality(S \cup {u}) = Cardinality(S) + 1
           /\ Cardinality(S) > 1 => S \ {u} # {}
           /\ \A v \in S : u \in S /\ u # v => Cardinality(S) >= 2
<1>1. Cardinality(S) \in Nat
  BY FS_CardinalityType
<1>2. u \in S => Cardinality(S \ {u}) = Cardinality(S) - 1
  BY FS_RemoveElement
<1>3. u \notin S => Cardinality(S \cup {u}) = Cardinality(S) + 1
  BY FS_AddElement
<1>4. Cardinality(S) > 1 => S \ {u} # {}
  <2>1. CASE u \in S
    BY <1>1, <1>2, <2>1, FS_EmptySet
  <2>2. CASE u \notin S
    BY <2>2, FS_EmptySet
  <2>3. QED
    BY <2>1, <2>2
<1>5. ASSUME NEW v \in S, u \in S, u # v
      PROVE  Cardinality(S) >= 2
  <2>1. IsFiniteSet(S \ {u}) /\ S \ {u} # {}
    BY <1>5, FS_RemoveElement
  <2>2. Cardinality(S \ {u}) \in Nat /\ Cardinality(S \ {u}) # 0
    BY <2>1, FS_CardinalityType, FS_EmptySet
  <2>3. QED
    BY <1>1, <1>2, <1>5, <2>2
<1>6. QED
  BY <1>1, <1>2, <1>3, <1>4, <1>5

\* A step that writes one conversation leaves what the others promise.
LEMMA OthersStay ==
    ASSUME TypeOK, Sound, NEW c \in Conversation,
           \A d \in Conversation \ {c} :
               /\ conversation'[d] = conversation[d]
               /\ participant'[d] = participant[d]
               /\ d \in departed' <=> d \in departed
    PROVE  /\ \A d \in Conversation \ {c} : \A type : d \in OfType(type)' <=> d \in OfType(type)
           /\ \A d \in Conversation \ {c} :
                 /\ Participants(d)' = Participants(d)
                 /\ Owners(d)' = Owners(d)
                 /\ conversation'[d] = conversation[d]
           /\ \A d \in Conversation \ {c} : GroupFine(d)' /\ SupportFine(d)'
           /\ \A d, e \in Conversation \ {c} : Differ(d, e)'
<1>1. \A d \in Conversation \ {c} : \A type : d \in OfType(type)' <=> d \in OfType(type)
  BY DEF OfType, Live
<1>2. \A d \in Conversation \ {c} :
          /\ Participants(d)' = Participants(d)
          /\ Owners(d)' = Owners(d)
          /\ conversation'[d] = conversation[d]
  BY DEF Participants, Owners
<1>3. \A d \in Conversation \ {c} : GroupFine(d)' /\ SupportFine(d)'
  BY <1>1, <1>2 DEF Sound, GroupFine, SupportFine
<1>4. \A d, e \in Conversation \ {c} : Differ(d, e)'
  BY <1>1, <1>2 DEF Sound, Differ
<1>5. QED
  BY <1>1, <1>2, <1>3, <1>4

\* To keep the promises it is enough that the conversation written keeps its own.
LEMMA SoundStays ==
    ASSUME TypeOK, Sound, NEW c \in Conversation,
           \A d \in Conversation \ {c} :
               /\ conversation'[d] = conversation[d]
               /\ participant'[d] = participant[d]
               /\ d \in departed' <=> d \in departed,
           GroupFine(c)', SupportFine(c)',
           \A d \in Conversation : Differ(c, d)'
    PROVE  Sound'
<1>1. /\ \A d \in Conversation \ {c} : GroupFine(d)' /\ SupportFine(d)'
      /\ \A d, e \in Conversation \ {c} : Differ(d, e)'
  BY OthersStay
<1>2. ASSUME NEW d \in Conversation, NEW e \in Conversation
      PROVE  Differ(d, e)'
  <2>1. CASE d # c /\ e # c
    BY <1>1, <2>1
  <2>2. CASE d = c
    BY <2>2
  <2>3. CASE e = c
    <3>1. Differ(c, d)'
      OBVIOUS
    <3>2. QED
      BY <2>3, <3>1 DEF Differ
  <2>4. QED
    BY <2>1, <2>2, <2>3
<1>3. QED
  BY <1>1, <1>2 DEF Sound

\* A new conversation.
LEMMA MadeSound ==
    ASSUME TypeOK, NobodyThere, Sound, NEW c \in Conversation, NEW u \in User,
           NEW others \in SUBSET User, NEW type \in {"DIRECT", "GROUP", "SUPPORT"},
           Made(c, type, u, others),
           type = "DIRECT" => \A d \in OfType("DIRECT") : Participants(d) # others \cup {u},
           type = "GROUP" => \E v \in others : v # u,
           type = "SUPPORT" =>
               /\ u \in Collaborator /\ others = {}
               /\ \A d \in OfType("SUPPORT") : u \notin Participants(d)
    PROVE  Sound'
<1>1. Participants(c)' = others \cup {u} /\ Owners(c)' = {u}
  BY CreatedPeople DEF Made
<1>2. \A d \in Conversation \ {c} :
          /\ conversation'[d] = conversation[d]
          /\ participant'[d] = participant[d]
          /\ d \in departed' <=> d \in departed
  BY DEF Made, TypeOK
<1>3. conversation'[c].type = type /\ conversation'[c].createdBy = u
      /\ conversation'[c].assignedTo = {}
  <2>. DEFINE made == [type |-> type, createdBy |-> u, assignedTo |-> {}]
  <2>1. conversation'[c] = made
    BY DEF Made, TypeOK
  <2>2. QED
    BY <2>1
<1>4. \A kind : c \in OfType(kind)' <=> kind = type
  BY <1>3 DEF OfType, Live
<1>5. GroupFine(c)'
  <2>1. ASSUME type = "GROUP"
        PROVE  Cardinality(Participants(c)') >= 2
    <3>1. PICK v \in others : v # u
      BY <2>1
    <3>2. v \in Participants(c)' /\ u \in Participants(c)' /\ IsFiniteSet(Participants(c)')
      BY <1>1, PeopleFinite, FS_Subset
    <3>3. QED
      BY <3>1, <3>2, FewPeople
  <2>2. QED
    BY <1>1, <1>4, <2>1 DEF GroupFine
<1>6. SupportFine(c)'
  <2>1. type = "SUPPORT" => Participants(c)' \cap Agent = {}
    BY <1>1, ConstantsOK
  <2>2. QED
    BY <1>1, <1>3, <1>4, <2>1 DEF SupportFine
<1>7. /\ \A d \in Conversation \ {c} : \A kind : d \in OfType(kind)' <=> d \in OfType(kind)
      /\ \A d \in Conversation \ {c} :
            /\ Participants(d)' = Participants(d)
            /\ conversation'[d] = conversation[d]
  BY <1>2, OthersStay
<1>8. ASSUME NEW d \in Conversation \ {c}
      PROVE  Differ(c, d)'
  <2>1. ASSUME type = "SUPPORT", d \in OfType("SUPPORT")
        PROVE  conversation[d].createdBy # u
    BY <2>1 DEF Sound, SupportFine
  <2>2. QED
    BY <1>1, <1>3, <1>4, <1>7, <2>1 DEF Differ
<1>9. \A d \in Conversation : Differ(c, d)'
  BY <1>8 DEF Differ
<1>10. QED
  BY <1>2, <1>5, <1>6, <1>9, SoundStays

\* A group, or a conversation that is no longer there.
LEMMA GroupSound ==
    ASSUME TypeOK, Sound, NEW c \in Conversation,
           \A d \in Conversation \ {c} :
               /\ conversation'[d] = conversation[d]
               /\ participant'[d] = participant[d]
               /\ d \in departed' <=> d \in departed,
           conversation'[c].type \in {"GROUP", "DELETED"},
           GroupFine(c)'
    PROVE  Sound'
<1>1. c \notin OfType("DIRECT")' /\ c \notin OfType("SUPPORT")'
  BY DEF OfType, Live
<1>2. SupportFine(c)' /\ \A d \in Conversation : Differ(c, d)'
  BY <1>1 DEF SupportFine, Differ
<1>3. QED
  BY <1>2, SoundStays

LEMMA WritesSound ==
    ASSUME TypeOK, NobodyThere, Sound, NEW w \in Worker, Writes(w), Founded(w)
    PROVE  Sound'
<1>1. Collaborator \subseteq User /\ Agent \subseteq User /\ Live \subseteq Conversation
  BY DEF User, Live
<1>. PICK c, u : c = txn[w].conversation /\ u = txn[w].user
  OBVIOUS
<1>2. ASSUME NEW d \in Conversation, CommitCreateDirect(w, d)
      PROVE  Sound'
  <2>1. /\ u \in User /\ {txn[w].other} \in SUBSET User
        /\ Made(d, "DIRECT", u, {txn[w].other})
    BY <1>2, Makes
  <2>2. ExistingDirect(u, txn[w].other) = {}
    BY <1>2 DEF CommitCreateDirect, Founded
  <2>3. \A e \in OfType("DIRECT") : Participants(e) # {txn[w].other} \cup {u}
    BY <2>2 DEF ExistingDirect
  <2>4. QED
    BY <2>1, <2>3, MadeSound
<1>3. ASSUME NEW d \in Conversation, CreateGroup(w, d)
      PROVE  Sound'
  <2>1. PICK v \in Collaborator : \E others \in SUBSET (Collaborator \ {v}) :
            others # {} /\ Made(d, "GROUP", v, others)
    BY <1>3, Makes
  <2>2. PICK others \in SUBSET (Collaborator \ {v}) : others # {} /\ Made(d, "GROUP", v, others)
    BY <2>1
  <2>3. others \in SUBSET User /\ v \in User /\ \E x \in others : x # v
    BY <1>1, <2>2
  <2>4. QED
    BY <2>2, <2>3, MadeSound
<1>4. ASSUME NEW d \in Conversation, CommitCreateSupport(w, d)
      PROVE  Sound'
  <2>1. u \in Collaborator /\ Made(d, "SUPPORT", u, {})
    BY <1>4, Makes
  <2>2. \A e \in OfType("SUPPORT") : u \notin Participants(e)
    BY <1>4 DEF CommitCreateSupport, Founded
  <2>3. QED
    BY <1>1, <2>1, <2>2, MadeSound
<1>5. CASE CommitDelete(w)
  <2>1. c \in Conversation
    BY <1>1, <1>5, Changes
  <2>2. /\ \A d \in Conversation \ {c} :
               /\ conversation'[d] = conversation[d]
               /\ participant'[d] = participant[d]
               /\ d \in departed' <=> d \in departed
        /\ conversation'[c] = Deleted
    BY <1>5, <2>1 DEF CommitDelete, TypeOK
  <2>3. conversation'[c].type = "DELETED" /\ c \notin OfType("GROUP")'
    BY <2>2 DEF Deleted, OfType, Live
  <2>4. QED
    BY <2>1, <2>2, <2>3, GroupSound DEF GroupFine
<1>6. CASE CommitLeaveOrRemove(w)
  <2>1. /\ c \in Conversation /\ u \in User
        /\ participant' = [participant EXCEPT ![c] = RemovedRow(c, u)]
        /\ UNCHANGED <<conversation, rows>>
        /\ departed' = IF u \in Owners(c) THEN departed \cup {c} ELSE departed
    BY <1>1, <1>6, Changes DEF Participants, CommitLeaveOrRemove
  <2>2. c \in OfType("GROUP") /\ u \in Participants(c) /\ MayLoseOne(c)
    BY <1>6 DEF CommitLeaveOrRemove, Founded
  <2>3. /\ \A d \in Conversation \ {c} :
               /\ conversation'[d] = conversation[d]
               /\ participant'[d] = participant[d]
               /\ d \in departed' <=> d \in departed
        /\ conversation'[c].type = "GROUP"
    BY <2>1, <2>2 DEF TypeOK, OfType
  <2>4. Participants(c)' = Participants(c) \ {u} /\ Owners(c)' = Owners(c) \ {u}
    BY <2>1, RemovedPeople
  <2>5. Cardinality(Participants(c)') >= 2
    BY <2>2, <2>4, PeopleFinite, FewPeople DEF MayLoseOne
  <2>6. c \notin departed' => Owners(c)' # {}
    BY <2>1, <2>2, <2>4 DEF Sound, GroupFine
  <2>7. QED
    BY <2>1, <2>3, <2>5, <2>6, GroupSound DEF GroupFine
<1>7. CASE CommitAdd(w)
  <2>. DEFINE added == txn[w].added \ Participants(c)
  <2>1. /\ c \in Conversation /\ added \in SUBSET (User \ Participants(c))
        /\ participant' = [participant EXCEPT ![c] = AddedRow(c, added)]
        /\ UNCHANGED <<conversation, departed>>
    BY <1>1, <1>7, Changes DEF Added
  <2>2. c \in OfType("GROUP")
    BY <1>7 DEF CommitAdd, Founded
  <2>3. /\ \A d \in Conversation \ {c} :
               /\ conversation'[d] = conversation[d]
               /\ participant'[d] = participant[d]
               /\ d \in departed' <=> d \in departed
        /\ conversation'[c].type = "GROUP"
    BY <2>1, <2>2 DEF TypeOK, OfType
  <2>4. Participants(c)' = Participants(c) \cup added /\ Owners(c)' = Owners(c)
    BY <2>1, AddedPeople
  <2>5. Cardinality(Participants(c)) >= 2 /\ (c \notin departed => Owners(c) # {})
    BY <2>1, <2>2 DEF Sound, GroupFine
  <2>6. Cardinality(Participants(c)') >= 2
    <3>1. /\ Participants(c) \subseteq Participants(c)'
          /\ IsFiniteSet(Participants(c)) /\ IsFiniteSet(Participants(c)')
      BY <2>4, PeopleFinite, FS_Subset DEF Participants
    <3>2. /\ Cardinality(Participants(c)) \in Nat /\ Cardinality(Participants(c)') \in Nat
          /\ Cardinality(Participants(c)) <= Cardinality(Participants(c)')
      BY <3>1, FS_Subset, FS_CardinalityType
    <3>3. QED
      BY <2>5, <3>2
  <2>7. c \notin departed' => Owners(c)' # {}
    BY <2>1, <2>4, <2>5
  <2>8. QED
    BY <2>1, <2>3, <2>6, <2>7, GroupSound DEF GroupFine
<1>8. CASE CommitUpdateRole(w)
  <2>. DEFINE role == txn[w].role
  <2>1. /\ c \in Conversation /\ u \in Participants(c) /\ role \in Role
        /\ participant' = [participant EXCEPT ![c] = RoleRow(c, u, role)]
        /\ UNCHANGED <<conversation, rows, departed>>
    BY <1>1, <1>8, Changes
  <2>2. c \in OfType("GROUP") /\ MayBecome(c, u, role)
    BY <1>8 DEF CommitUpdateRole, Founded
  <2>3. /\ \A d \in Conversation \ {c} :
               /\ conversation'[d] = conversation[d]
               /\ participant'[d] = participant[d]
               /\ d \in departed' <=> d \in departed
        /\ conversation'[c].type = "GROUP"
    BY <2>1, <2>2 DEF TypeOK, OfType
  <2>4. /\ Participants(c)' = Participants(c)
        /\ role = "OWNER" => u \in Owners(c)'
        /\ Owners(c)' \ {u} = Owners(c) \ {u}
    BY <2>1, RolePeople
  <2>5. Cardinality(Participants(c)) >= 2 /\ (c \notin departed => Owners(c) # {})
    BY <2>1, <2>2 DEF Sound, GroupFine
  <2>6. ASSUME c \notin departed
        PROVE  Owners(c)' # {}
    <3>1. CASE role = "OWNER"
      BY <2>4, <3>1
    <3>2. CASE u \notin Owners(c)
      BY <2>4, <2>5, <2>6, <3>2
    <3>3. CASE role = "MEMBER" /\ u \in Owners(c)
      <4>1. Cardinality(Owners(c)) > 1
        BY <2>2, <3>3 DEF MayBecome
      <4>2. Owners(c) \ {u} # {}
        BY <4>1, PeopleFinite, FewPeople
      <4>3. QED
        BY <2>4, <4>2
    <3>4. QED
      BY <2>1, <3>1, <3>2, <3>3 DEF Role
  <2>7. QED
    BY <2>1, <2>3, <2>4, <2>5, <2>6, GroupSound DEF GroupFine
<1>9. CASE CommitAssign(w)
  <2>1. /\ c \in Conversation /\ u \in Agent
        /\ conversation' = [conversation EXCEPT ![c] = AssignedRow(c, u)]
        /\ \/ txn[w].already /\ UNCHANGED <<participant, rows>>
           \/ ~txn[w].already /\ u \notin Participants(c) /\ Added(c, {u})
        /\ UNCHANGED departed
    BY <1>1, <1>9, Changes
  <2>2. /\ c \in OfType("SUPPORT") /\ conversation[c].assignedTo \subseteq {u}
        /\ txn[w].already <=> u \in Participants(c)
    BY <1>9 DEF CommitAssign, Founded, MayAssign
  <2>3. \A d \in Conversation \ {c} :
            /\ conversation'[d] = conversation[d]
            /\ participant'[d] = participant[d]
            /\ d \in departed' <=> d \in departed
    BY <2>1 DEF TypeOK, Added
  <2>4. conversation'[c] = AssignedRow(c, u)
    BY <2>1 DEF TypeOK
  <2>5. /\ conversation'[c].type = "SUPPORT" /\ conversation'[c].assignedTo = {u}
        /\ conversation'[c].createdBy = conversation[c].createdBy
    BY <2>2, <2>4 DEF AssignedRow, OfType
  <2>6. Participants(c)' = Participants(c) \cup {u}
    <3>1. CASE txn[w].already
      BY <2>1, <2>2, <3>1 DEF Participants
    <3>2. CASE ~txn[w].already
      <4>1. participant' = [participant EXCEPT ![c] = AddedRow(c, {u})]
            /\ {u} \in SUBSET (User \ Participants(c))
        BY <1>1, <2>1, <3>2 DEF Added
      <4>2. QED
        BY <2>1, <4>1, AddedPeople
    <3>3. QED
      BY <3>1, <3>2
  <2>7. /\ conversation[c].createdBy \in Participants(c)
        /\ Participants(c) \cap Agent = conversation[c].assignedTo
    BY <2>1, <2>2 DEF Sound, SupportFine
  <2>8. SupportFine(c)'
    BY <2>1, <2>2, <2>5, <2>6, <2>7 DEF SupportFine
  <2>9. c \in OfType("SUPPORT")' /\ c \notin OfType("GROUP")' /\ c \notin OfType("DIRECT")'
    BY <2>1, <2>5 DEF OfType, Live
  <2>10. \A d \in Conversation : Differ(c, d)'
    <3>1. \A d \in Conversation \ {c} : d \in OfType("SUPPORT")' =>
              d \in OfType("SUPPORT") /\ conversation'[d] = conversation[d]
      BY <2>3 DEF OfType, Live
    <3>2. QED
      BY <2>1, <2>2, <2>5, <2>9, <3>1 DEF Sound, Differ
  <2>11. QED
    BY <2>1, <2>3, <2>8, <2>9, <2>10, SoundStays DEF GroupFine
<1>10. QED
  BY <1>2, <1>3, <1>4, <1>5, <1>6, <1>7, <1>8, <1>9 DEF Writes

\* What is found when a request begins.
LEMMA LooksFounded ==
    ASSUME TypeOK, Alone, NEW w \in Worker, Looks(w), ~overlapped'
    PROVE  \A v \in Worker : Founded(v)'
<1>1. UNCHANGED Tables
  BY LooksKeep
<1>2. \A d : \A type : /\ (d \in OfType(type))' <=> d \in OfType(type)
                      /\ Participants(d)' = Participants(d)
                      /\ Owners(d)' = Owners(d)
  BY <1>1 DEF Tables, OfType, Live, Participants, Owners
<1>3. \A v \in Worker \ {w} : txn'[v].op = "idle"
  <2>1. CASE txn[w] # Idle /\ Done(w)
    <3>1. \A v \in Worker \ {w} : txn[v] = Idle /\ txn'[v] = txn[v]
      BY <2>1 DEF Done, Continue, Alone, TypeOK
    <3>2. QED
      BY <3>1 DEF Idle
  <2>2. CASE \E t \in Txn : Begin(w, t)
    BY <2>2, After
  <2>3. QED
    BY <2>1, <2>2, LooksKeep
<1>4. \A v \in Worker \ {w} : Founded(v)'
  BY <1>3 DEF Founded
<1>5. Founded(w)'
  <2>1. CASE Abort(w)
    BY <2>1, After DEF Abort, Founded
  <2>2. CASE ReadCreateDirect(w)
    <3>1. PICK peers \in {Collaborator, Agent} : \E u, v \in peers :
              /\ u # v
              /\ ExistingDirect(u, v) = {}
              /\ Begin(w, [op |-> "createDirect", user |-> u, other |-> v])
      BY <2>2 DEF ReadCreateDirect
    <3>2. PICK u \in peers, v \in peers :
              /\ u # v
              /\ ExistingDirect(u, v) = {}
              /\ Begin(w, [op |-> "createDirect", user |-> u, other |-> v])
      BY <3>1
    <3>3. txn'[w] = [op |-> "createDirect", user |-> u, other |-> v]
      BY <3>2, After
    <3>4. ExistingDirect(u, v)' = {}
      BY <1>2, <3>2 DEF ExistingDirect
    <3>5. QED
      BY <3>2, <3>3, <3>4 DEF Founded
  <2>3. CASE \E u \in Collaborator : ReadCreateSupport(w, u)
    <3>1. PICK u \in Collaborator : ReadCreateSupport(w, u)
      BY <2>3
    <3>2. txn'[w] = [op |-> "createSupport", user |-> u]
      BY <3>1, After DEF ReadCreateSupport
    <3>3. \A d \in OfType("SUPPORT") : u \notin Participants(d)
      BY <3>1 DEF ReadCreateSupport
    <3>4. QED
      BY <1>2, <3>2, <3>3 DEF Founded
  <2>4. ASSUME NEW c \in Conversation, ReadDelete(w, c)
        PROVE  Founded(w)'
    <3>1. txn'[w] = [op |-> "delete", conversation |-> c]
      BY <2>4, After DEF ReadDelete
    <3>2. QED
      BY <3>1 DEF Founded
  <2>5. ASSUME NEW c \in Conversation, ReadLeaveOrRemove(w, c)
        PROVE  Founded(w)'
    <3>1. PICK u \in Participants(c), v \in Participants(c) :
              Begin(w, [op |-> IF u = v THEN "leave" ELSE "remove", conversation |-> c,
                        user |-> v, row |-> participant[c][v].row])
      BY <2>5 DEF ReadLeaveOrRemove
    <3>2. txn'[w] = [op |-> IF u = v THEN "leave" ELSE "remove", conversation |-> c,
                     user |-> v, row |-> participant[c][v].row]
      BY <3>1, After
    <3>3. c \in OfType("GROUP")' /\ v \in Participants(c)' /\ MayLoseOne(c)'
      BY <1>2, <2>5 DEF ReadLeaveOrRemove, MayLoseOne
    <3>4. /\ txn'[w].op \in {"leave", "remove"}
          /\ txn'[w].conversation = c /\ txn'[w].user = v
      BY <3>2
    <3>5. QED
      BY <3>3, <3>4 DEF Founded
  <2>6. ASSUME NEW c \in Conversation, ReadAdd(w, c)
        PROVE  Founded(w)'
    <3>1. PICK added : Begin(w, [op |-> "add", conversation |-> c, added |-> added])
      BY <2>6 DEF ReadAdd
    <3>2. txn'[w] = [op |-> "add", conversation |-> c, added |-> added]
      BY <3>1, After
    <3>3. c \in OfType("GROUP")'
      BY <1>2, <2>6 DEF ReadAdd
    <3>4. QED
      BY <3>2, <3>3 DEF Founded
  <2>7. ASSUME NEW c \in Conversation, ReadUpdateRole(w, c)
        PROVE  Founded(w)'
    <3>1. PICK u \in Participants(c), role \in Role :
              /\ MayBecome(c, u, role)
              /\ Begin(w, [op |-> "updateRole", conversation |-> c, user |-> u,
                           row |-> participant[c][u].row, role |-> role])
      BY <2>7 DEF ReadUpdateRole
    <3>2. txn'[w] = [op |-> "updateRole", conversation |-> c, user |-> u,
                     row |-> participant[c][u].row, role |-> role]
      BY <3>1, After
    <3>3. c \in OfType("GROUP")' /\ u \in Participants(c)' /\ MayBecome(c, u, role)'
      BY <1>2, <2>7, <3>1 DEF ReadUpdateRole, MayBecome
    <3>4. /\ txn'[w].op = "updateRole" /\ txn'[w].conversation = c
          /\ txn'[w].user = u /\ txn'[w].role = role
      BY <3>2
    <3>5. QED
      BY <3>3, <3>4 DEF Founded, MayBecome
  <2>8. ASSUME NEW c \in Conversation, NEW a \in Agent, ReadAssign(w, c, a)
        PROVE  Founded(w)'
    <3>1. txn'[w] = [op |-> "assign", conversation |-> c, user |-> a,
                     already |-> a \in Participants(c)]
      BY <2>8, After DEF ReadAssign
    <3>2. /\ c \in OfType("SUPPORT")' /\ conversation' = conversation
          /\ conversation[c].assignedTo \subseteq {a}
      BY <1>1, <1>2, <2>8 DEF ReadAssign, MayAssign, Tables
    <3>3. /\ txn'[w].op = "assign" /\ txn'[w].conversation = c /\ txn'[w].user = a
          /\ txn'[w].already = (a \in Participants(c))
      BY <3>1
    <3>4. txn'[w].already <=> a \in Participants(c)'
      BY <1>2, <3>3
    <3>5. QED
      BY <3>2, <3>3, <3>4 DEF Founded, MayAssign
  <2>9. QED
    BY <2>1, <2>2, <2>3, <2>4, <2>5, <2>6, <2>7, <2>8 DEF Looks
<1>6. QED
  BY <1>4, <1>5

Inv == TypeOK /\ Alone /\ NobodyThere /\ Serial

LEMMA InitInv == Init => Inv
<1>. SUFFICES ASSUME Init PROVE Inv
  OBVIOUS
<1>1. Live = {} /\ \A c \in Conversation : \A type : c \notin OfType(type)
  BY DEF Init, Live, OfType, NoConversation
<1>2. Sound
  BY <1>1 DEF Sound, GroupFine, SupportFine, Differ
<1>3. \A w \in Worker : txn[w].op = "idle"
  BY DEF Init, NoRequests, Idle
<1>4. QED
  BY <1>2, <1>3, InitTyped DEF Inv, Serial, Founded

LEMMA NextInv == Inv /\ [Next]_vars => Inv'
<1>. SUFFICES ASSUME Inv, [Next]_vars, ~overlapped'
              PROVE  Sound' /\ \A w \in Worker : Founded(w)'
  BY NextTyped DEF Inv, Serial
<1>. USE DEF Inv
<1>1. CASE UNCHANGED vars
  <2>1. UNCHANGED <<conversation, participant, departed, txn, overlapped>>
    BY <1>1 DEF vars
  <2>2. Sound'
    <3>1. Sound
      BY <2>1 DEF Serial
    <3>2. QED
      BY <2>1, <3>1 DEF Sound, GroupFine, SupportFine, Differ, OfType, Live, Participants, Owners
  <2>3. \A w \in Worker : Founded(w)
    BY <2>1 DEF Serial
  <2>4. \A c : \A type : /\ c \in OfType(type)' <=> c \in OfType(type)
                        /\ Participants(c)' = Participants(c)
                        /\ Owners(c)' = Owners(c)
    BY <2>1 DEF OfType, Live, Participants, Owners
  <2>5. \A u, v : ExistingDirect(u, v)' = ExistingDirect(u, v)
    BY <2>4 DEF ExistingDirect
  <2>6. \A w \in Worker : Founded(w)'
    BY <2>1, <2>3, <2>4, <2>5 DEF Founded, MayLoseOne, MayBecome, MayAssign
  <2>7. QED
    BY <2>2, <2>6
<1>2. ASSUME NEW w \in Worker, Looks(w)
      PROVE  Sound' /\ \A v \in Worker : Founded(v)'
  <2>1. ~overlapped
    BY <1>2, LooksKeep, After
  <2>2. Sound'
    BY <1>2, <2>1, LooksKeep DEF Tables, Serial, Sound, GroupFine, SupportFine, Differ, OfType,
                                Live, Participants, Owners
  <2>3. QED
    BY <1>2, <2>2, LooksFounded
<1>3. ASSUME NEW w \in Worker, Writes(w)
      PROVE  Sound' /\ \A v \in Worker : Founded(v)'
  <2>1. ~overlapped /\ \A v \in Worker : txn'[v].op = "idle"
    <3>1. CASE AtOnce(w)
      BY <3>1, After
    <3>2. CASE txn[w] # Idle /\ Done(w)
      <4>1. ~overlapped /\ txn'[w].op = "idle"
        BY <3>2, After
      <4>2. \A v \in Worker \ {w} : txn[v] = Idle /\ txn'[v] = txn[v]
        BY <3>2, <4>1 DEF Done, Continue, Alone, TypeOK
      <4>3. QED
        BY <4>1, <4>2 DEF Idle
    <3>3. QED
      BY <1>3, <3>1, <3>2, WritesRequests
  <2>2. Sound'
    BY <1>3, <2>1, WritesSound DEF Serial
  <2>3. QED
    BY <2>1, <2>2 DEF Founded
<1>4. QED
  BY <1>1, <1>2, <1>3, NextSteps

LEMMA Always == Spec => []Inv
BY InitInv, NextInv, PTL DEF Spec

\* Without overlapping requests, a group keeps two participants and an owner unless
\* one left; and always, nobody owns by an earlier membership.
THEOREM GroupsStay == Spec => GroupsKept
<1>1. Inv => GroupKept
  BY DEF Inv, Serial, Sound, GroupFine, GroupKept, OfType, Live
<1>2. QED
  BY <1>1, Always, OwnersAreMembers, PTL DEF GroupsKept

\* Without overlapping requests, the same two users never have two direct
\* conversations, and a collaborator never has two support chats.
THEOREM OneEach == Spec => []OneConversation
<1>1. Inv => OneConversation
  BY DEF Inv, Serial, Sound, Differ, OneConversation, OfType, Live
<1>2. QED
  BY <1>1, Always, PTL

\* Without overlapping requests, the agents in a support chat are the assigned one.
THEOREM AgentAssigned == Spec => []OneAgent
<1>1. Inv => OneAgent
  BY DEF Inv, Serial, Sound, SupportFine, OneAgent, OfType, Live
<1>2. QED
  BY <1>1, Always, PTL
=============================================================================
