------------------------------- MODULE Messages -------------------------------
(***************************************************************************)
(* The messages of one conversation (chat.service.ts): sending with its    *)
(* mentions, editing, deleting, pinning, reactions, and the retention      *)
(* policy that erases old messages when somebody opens the chat.           *)
(*                                                                         *)
(* Every handler reads the message and asks whether the user takes part in *)
(* statements of their own; what it then writes are single columns, so a   *)
(* stale request changes no more than what it is about.  Editing does not  *)
(* ask who takes part.  The retention policy runs at most once in its      *)
(* interval for each process: the time of the last run is memory, set      *)
(* before the run.                                                         *)
(*                                                                         *)
(* Who takes part changes as in Chat; here it just changes.  Texts are     *)
(* what was written or the notice of the policy; keys of devices, replies  *)
(* and what the sockets tell are left out.                                 *)
(***************************************************************************)
EXTENDS Naturals, FiniteSets, Requests

CONSTANTS
    User, NoUser,  \* those who may take part; the null of pinnedById
    Message        \* bound: messages ever sent

\* Assumed by the module that checks this one.
ConstantsOK == NoUser \notin User

VARIABLES
    participant,  \* chat_participants of the conversation
    message,      \* chat_messages
    reaction,     \* chat_message_reactions: who reacted, with one emoji
    mention,      \* chat_message_mentions
    applied,      \* the policy was applied within its interval, as the process knows
    erased        \* history: messages the policy has deleted

vars == <<participant, message, reaction, mention, applied, erased, txn, overlapped>>
-----------------------------------------------------------------------------
None == [status |-> "NONE"]
MessageRow ==
    {None} \cup [status : {"SENT"}, senderId : User, body : {"text", "notice"},
                 deleted : BOOLEAN, pinnedBy : User \cup {NoUser},
                 old : BOOLEAN]  \* beyond CHAT_RETENTION_DAYS

Txn ==
    {Idle}
    \cup [op : {"send"}, step : {"joined"}, user : User]
    \cup [op : {"send"}, step : {"resolved"}, user : User, mentions : SUBSET User]
    \cup [op : {"edit"}, user : User, message : Message]
    \cup [op : {"delete", "react"}, step : {"read", "joined"}, user : User, message : Message]
    \cup [op : {"react"}, step : {"found"}, user : User, message : Message, had : BOOLEAN]
    \cup [op : {"pin"}, step : {"read", "joined"}, user : User, message : Message,
          pinned : BOOLEAN]
    \cup [op : {"retain"}]

TypeOK ==
    /\ participant \subseteq User
    /\ message \in [Message -> MessageRow]
    /\ reaction \in [Message -> SUBSET User]
    /\ mention \in [Message -> SUBSET User]
    /\ applied \in BOOLEAN
    /\ erased \subseteq Message
    /\ overlapped \in BOOLEAN
    /\ txn \in [Worker -> Txn]

Init ==
    /\ participant = User
    /\ message = [x \in Message |-> None]
    /\ reaction = [x \in Message |-> {}]
    /\ mention = [x \in Message |-> {}]
    /\ applied = FALSE
    /\ erased = {}
    /\ NoRequests

Sent == {x \in Message : message[x] # None}
Policy == <<applied, erased>>
Tables == <<participant, message, reaction, mention, Policy>>

Abort(w) ==
    /\ txn[w] # Idle
    /\ Done(w)
    /\ UNCHANGED Tables

\* Somebody joins or leaves: addParticipants, removeParticipant, leaveGroup.
ChangeParticipants(w, u) ==
    /\ AtOnce(w)
    /\ participant' = IF u \in participant THEN participant \ {u} ELSE participant \cup {u}
    /\ UNCHANGED <<message, reaction, mention, Policy>>

\* (mutant) whoever once wrote there still takes part.
TakesPartAsAuthor(u) == u \in participant \/ \E x \in Sent : message[x].senderId = u

\* ensureParticipant
TakesPart(u) == u \in participant

\* The second statement of those who read the message first.
Join(w) ==
    LET r == txn[w] IN
    /\ r.op \in {"delete", "react", "pin"} /\ r.step = "read"
    /\ TakesPart(r.user)
    /\ Continue(w, [r EXCEPT !.step = "joined"])
    /\ UNCHANGED Tables
-----------------------------------------------------------------------------
(* Messages                                                                *)

ReadSend(w, u) ==
    /\ TakesPart(u)
    /\ Begin(w, [op |-> "send", step |-> "joined", user |-> u])
    /\ UNCHANGED Tables

\* (mutant) whoever works at the club may be mentioned.
MentionableAll == User

Mentionable == participant

\* The names in the body are looked up among those who take part now.
ResolveMentions(w) ==
    LET r == txn[w] IN
    /\ r.op = "send" /\ r.step = "joined"
    /\ \E us \in SUBSET Mentionable :
          Continue(w, [op |-> "send", step |-> "resolved", user |-> r.user, mentions |-> us])
    /\ UNCHANGED Tables

CommitSend(w) ==
    LET r == txn[w] IN
    /\ r.op = "send" /\ r.step = "resolved"
    /\ \E x \in Message \ Sent :
          /\ message' = [message EXCEPT ![x] =
                 [status |-> "SENT", senderId |-> r.user, body |-> "text", deleted |-> FALSE,
                  pinnedBy |-> NoUser, old |-> FALSE]]
          /\ mention' = [mention EXCEPT ![x] = r.mentions]
    /\ Done(w)
    /\ UNCHANGED <<participant, reaction, Policy>>

\* (mutant) messages that were deleted may be edited.
MayEditDeleted(u, x) == x \in Sent /\ message[x].senderId = u

MayEdit(u, x) == x \in Sent /\ message[x].senderId = u /\ ~message[x].deleted

ReadEdit(w, u, x) ==
    /\ MayEdit(u, x)
    /\ Begin(w, [op |-> "edit", user |-> u, message |-> x])
    /\ UNCHANGED Tables

\* (mutant) the edited message is written as it was read.
CommitEditWhole(w) ==
    LET r == txn[w] IN
    /\ r.op = "edit"
    /\ message' = [message EXCEPT ![r.message].body = "text", ![r.message].deleted = FALSE]
    /\ Done(w)
    /\ UNCHANGED <<participant, reaction, mention, Policy>>

CommitEdit(w) ==
    LET r == txn[w] IN
    /\ r.op = "edit"
    /\ message' = [message EXCEPT ![r.message].body = "text"]
    /\ Done(w)
    /\ UNCHANGED <<participant, reaction, mention, Policy>>

\* Authors and those with chat.manage, which anybody may have.
ReadDelete(w, u, x) ==
    /\ x \in Sent
    /\ Begin(w, [op |-> "delete", step |-> "read", user |-> u, message |-> x])
    /\ UNCHANGED Tables

\* The text stays, and so does its pin.
CommitDelete(w) ==
    LET r == txn[w] IN
    /\ r.op = "delete" /\ r.step = "joined"
    /\ message' = [message EXCEPT ![r.message].deleted = TRUE]
    /\ Done(w)
    /\ UNCHANGED <<participant, reaction, mention, Policy>>
-----------------------------------------------------------------------------
(* Pins and reactions                                                      *)

\* (mutant) any message may be pinned.
PinnableAny(x) == x \in Sent

Pinnable(x) == x \in Sent /\ ~message[x].deleted

ReadPin(w, u, x) ==
    /\ Pinnable(x)
    /\ Begin(w, [op |-> "pin", step |-> "read", user |-> u, message |-> x,
                 pinned |-> message[x].pinnedBy # NoUser])
    /\ UNCHANGED Tables

CommitPin(w) ==
    LET r == txn[w] IN
    /\ r.op = "pin" /\ r.step = "joined"
    /\ message' = [message EXCEPT
           ![r.message].pinnedBy = IF r.pinned THEN NoUser ELSE r.user]
    /\ Done(w)
    /\ UNCHANGED <<participant, reaction, mention, Policy>>

ReadReact(w, u, x) ==
    /\ x \in Sent
    /\ Begin(w, [op |-> "react", step |-> "read", user |-> u, message |-> x])
    /\ UNCHANGED Tables

FindReaction(w) ==
    LET r == txn[w] IN
    /\ r.op = "react" /\ r.step = "joined"
    /\ Continue(w, [op |-> "react", step |-> "found", user |-> r.user, message |-> r.message,
                    had |-> r.user \in reaction[r.message]])
    /\ UNCHANGED Tables

\* The row must still be there to be deleted, or still be missing to be created.
CommitReact(w) ==
    LET r == txn[w] IN
    /\ r.op = "react" /\ r.step = "found"
    /\ r.had = (r.user \in reaction[r.message])
    /\ reaction' = [reaction EXCEPT
           ![r.message] = IF r.had THEN @ \ {r.user} ELSE @ \cup {r.user}]
    /\ Done(w)
    /\ UNCHANGED <<participant, message, mention, Policy>>
-----------------------------------------------------------------------------
(* The retention policy, when a list of conversations or messages is read  *)

\* CHAT_RETENTION_DAYS pass.
GrowOld(x) ==
    /\ x \in Sent
    /\ ~message[x].old
    /\ message' = [message EXCEPT ![x].old = TRUE]
    /\ UNCHANGED <<participant, reaction, mention, Policy, txn, overlapped>>

\* The interval passes, or the process starts again and has forgotten.
Forget ==
    /\ applied
    /\ applied' = FALSE
    /\ UNCHANGED <<participant, message, reaction, mention, erased, txn, overlapped>>

ReadRetention(w) ==
    /\ ~applied
    /\ applied' = TRUE
    /\ Begin(w, [op |-> "retain"])
    /\ UNCHANGED <<participant, message, reaction, mention, erased>>

Expired == {x \in Sent : message[x].old /\ ~message[x].deleted}

ApplyRetention(w) ==
    /\ txn[w].op = "retain"
    /\ message' = [x \in Message |->
           IF x \in Expired THEN [message[x] EXCEPT !.deleted = TRUE, !.body = "notice"]
           ELSE message[x]]
    /\ erased' = erased \cup Expired
    /\ Done(w)
    /\ UNCHANGED <<participant, reaction, mention, applied>>
-----------------------------------------------------------------------------
Next ==
    \/ \E w \in Worker :
          \/ Abort(w)
          \/ \E u \in User :
                \/ ChangeParticipants(w, u)
                \/ ReadSend(w, u)
                \/ \E x \in Message :
                      \/ ReadEdit(w, u, x)
                      \/ ReadDelete(w, u, x)
                      \/ ReadPin(w, u, x)
                      \/ ReadReact(w, u, x)
          \/ Join(w)
          \/ ResolveMentions(w)
          \/ CommitSend(w)
          \/ CommitEdit(w)
          \/ CommitDelete(w)
          \/ CommitPin(w)
          \/ FindReaction(w)
          \/ CommitReact(w)
          \/ ReadRetention(w)
          \/ ApplyRetention(w)
    \/ \E x \in Message : GrowOld(x)
    \/ Forget

Spec == Init /\ [][Next]_vars
-----------------------------------------------------------------------------
(* Whatever the interleaving                                               *)

\* A deleted message never comes back, nor does it change its author, although
\* requests that found it before still write to it (chat.service.ts:1169-1174, 1223-1227).
Deleting ==
    \A x \in Sent :
        /\ message'[x].senderId = message[x].senderId
        /\ message[x].deleted => message'[x].deleted

DeletedForGood == [][Deleting]_vars

-----------------------------------------------------------------------------
(* When requests do not overlap                                            *)

\* The text of a message that the policy has erased stays erased
\* (chat.service.ts:1160-1167, 1521-1534).
ErasedStaysErased == ~overlapped => \A x \in erased : message[x].body = "notice"

Writes(w) ==
    /\ txn[w].op \in {"send", "delete", "pin", "react"}
    /\ txn'[w] = Idle
    /\ <<message, reaction, mention>>' # <<message, reaction, mention>>

\* Who sends, deletes, pins or reacts takes part, and so do those who are mentioned;
\* editing is left out, which does not ask (chat.service.ts:566-576, 1108, 1216, 1719).
WritingAsParticipant ==
    \A w \in Worker :
        Writes(w) /\ ~overlapped' =>
            /\ txn[w].user \in participant
            /\ \A x \in Message : mention'[x] \ mention[x] \subseteq participant

ParticipantsOnly == [][WritingAsParticipant]_vars

\* A message that is deleted is pinned by nobody any more (chat.service.ts:1102-1107).
Pinning ==
    \A x \in Sent :
        ~overlapped' /\ message[x].deleted => message'[x].pinnedBy = message[x].pinnedBy

DeletedNotPinned == [][Pinning]_vars

\* What was deleted or erased is not brought back by those who found it before
\* (chat.service.ts:1102-1107, 1160-1174, 1521-1534).
DeletionStands == []ErasedStaysErased /\ DeletedForGood /\ DeletedNotPinned
=============================================================================
