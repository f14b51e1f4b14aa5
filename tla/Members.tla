------------------------------- MODULE Members -------------------------------
(***************************************************************************)
(* The members of a club, their state and their photo (members.service.ts) *)
(* and the incidents noted about them.                                     *)
(*                                                                         *)
(* The row of a member and the file of the photo are in two stores: the    *)
(* database and a directory or bucket (storage.service.ts).  An upload     *)
(* stores the new file, deletes the old one, and only then changes the row *)
(* in a transaction, which is refused if the member was deleted meanwhile. *)
(* A failure in between leaves files that no row names, or a row that      *)
(* names a file that is gone.  removePhoto never touches the file.         *)
(* updatePhoto does the same with a key the client sends: it deletes the   *)
(* old file by the key as it came, and writes the key without its spaces.  *)
(*                                                                         *)
(* Numbers and documents are unique by constraints of the database, on top *)
(* of the checks before the transaction; the other data of a member is     *)
(* written by one statement and read by no handler here.                   *)
(***************************************************************************)
EXTENDS Naturals, FiniteSets, Requests

CONSTANTS
    Member,     \* bound: members ever registered
    Key, NoKey, \* bound: files ever stored; the null of photoStorageKey
    Incident,   \* bound: incidents ever noted
    AskedStatus \* values of dto.status for a member

\* Assumed by the module that checks this one.
ConstantsOK ==
    /\ NoKey \notin Key
    /\ AskedStatus \subseteq {"PENDING", "ACTIVE", "SUSPENDED", "BANNED", "INACTIVE", "DELETED"}

VARIABLES
    member,    \* members: status and photoStorageKey
    incident,  \* member_incidents
    file,      \* keys of the files that are stored
    used,      \* history: keys of the files that were ever stored
    given,     \* history: keys a client sent to updatePhoto
    lost,      \* history: keys deleted by requests that did not replace them
    leftover   \* history: files left behind: removed, not deleted, not written

vars == <<member, incident, file, used, given, lost, leftover, txn, overlapped>>
-----------------------------------------------------------------------------
MemberStatus == {"PENDING", "ACTIVE", "SUSPENDED", "BANNED", "INACTIVE", "DELETED"}
NoMember == [status |-> "NONE"]
MemberRow == {NoMember} \cup [status : MemberStatus, photo : Key \cup {NoKey}]
IncidentStatus == {"NONE", "OPEN", "UNDER_REVIEW", "RESOLVED", "DISMISSED"}
Decided == {"RESOLVED", "DISMISSED"}

Txn ==
    {Idle}
    \cup [op : {"status"}, member : Member, status : MemberStatus]
    \cup [op : {"photo"}, step : {"read", "stored", "deleted"}, member : Member,
          old : Key \cup {NoKey}, new : Key \cup {NoKey}, gone : BOOLEAN]
    \cup [op : {"remove"}, member : Member]
    \cup [op : {"note"}, member : Member]
    \cup [op : {"resolve"}, incident : Incident, status : IncidentStatus]

TypeOK ==
    /\ member \in [Member -> MemberRow]
    /\ incident \in [Incident -> IncidentStatus]
    /\ file \subseteq used
    /\ used \subseteq Key
    /\ given \subseteq Key
    /\ lost \subseteq Key
    /\ leftover \subseteq Key
    /\ overlapped \in BOOLEAN
    /\ txn \in [Worker -> Txn]

Init ==
    /\ member = [m \in Member |-> NoMember]
    /\ incident = [i \in Incident |-> "NONE"]
    /\ file = {}
    /\ used = {}
    /\ given = {}
    /\ lost = {}
    /\ leftover = {}
    /\ NoRequests

\* findMemberForAudit, ensureMemberExists
Found(m) == member[m].status \notin {"NONE", "DELETED"}

\* What a request that stops leaves behind: its upload, and the file it deleted.
Abort(w) ==
    /\ txn[w] # Idle
    /\ IF txn[w].op = "photo" /\ txn[w].step # "read"
       THEN /\ leftover' = leftover \cup ({txn[w].new} \cap file)
            /\ lost' = IF txn[w].gone THEN lost \cup {txn[w].old} ELSE lost
       ELSE UNCHANGED <<lost, leftover>>
    /\ Done(w)
    /\ UNCHANGED <<member, incident, file, used, given>>
-----------------------------------------------------------------------------
(* Members                                                                 *)

\* create, and a row of importFromCsv.
Register(w, m) ==
    /\ AtOnce(w)
    /\ member[m] = NoMember
    /\ \E s \in {"ACTIVE", "PENDING"} :
          member' = [member EXCEPT ![m] = [status |-> s, photo |-> NoKey]]
    /\ UNCHANGED <<incident, file, used, given, lost, leftover>>

ReadStatus(w, m) ==
    /\ Found(m)
    /\ \E s \in AskedStatus : Begin(w, [op |-> "status", member |-> m, status |-> s])
    /\ UNCHANGED <<member, incident, file, used, given, lost, leftover>>

\* (mutant) the row is written whatever has become of it.
CommitStatusAnyway(w) ==
    /\ txn[w].op = "status"
    /\ LET m == txn[w].member
       IN  member' = [member EXCEPT ![m] = [status |-> txn[w].status, photo |-> @.photo]]
    /\ Done(w)
    /\ UNCHANGED <<incident, file, used, given, lost, leftover>>

CommitStatus(w) ==
    /\ txn[w].op = "status"
    /\ LET m == txn[w].member
       IN  /\ Found(m)
           /\ member' = [member EXCEPT ![m] = [status |-> txn[w].status, photo |-> @.photo]]
    /\ Done(w)
    /\ UNCHANGED <<incident, file, used, given, lost, leftover>>
-----------------------------------------------------------------------------
(* Photos                                                                  *)

\* (mutant) the name of a file does not depend on when it was stored.
NewKeysAny == Key

\* The name of a file carries the time and random digits.
NewKeys == Key \ (used \cup given)

ReadUpload(w, m) ==
    /\ Found(m)
    /\ Begin(w, [op |-> "photo", step |-> "read", member |-> m, old |-> member[m].photo,
                 new |-> NoKey, gone |-> FALSE])
    /\ UNCHANGED <<member, incident, file, used, given, lost, leftover>>

\* storageService.uploadFile
Store(w) ==
    /\ txn[w].op = "photo" /\ txn[w].step = "read"
    /\ \E k \in NewKeys :
          /\ file' = file \cup {k}
          /\ used' = used \cup {k}
          /\ Continue(w, [txn[w] EXCEPT !.step = "stored", !.new = k])
    /\ UNCHANGED <<member, incident, given, lost, leftover>>

\* A photoStorageKey as a client sends it: a key or none, alone or among spaces.
SentKey == [key : Key \cup {NoKey}, spaces : BOOLEAN]

\* What the row gets; NoKey leaves the column as it is.
clean(sent) == sent.key

\* The old file is deleted for a text that is not empty and is not its key.
Replaces(sent, old) == (sent.key # NoKey \/ sent.spaces) /\ sent # [key |-> old, spaces |-> FALSE]

\* updatePhoto, without a key or with one that, the client says, is stored already.
ReadUpdatePhoto(w, m) ==
    /\ Found(m)
    /\ \E sent \in SentKey :
          /\ Begin(w, [op |-> "photo", step |-> "stored", member |-> m,
                       old |-> IF Replaces(sent, member[m].photo) THEN member[m].photo ELSE NoKey,
                       new |-> clean(sent), gone |-> FALSE])
          /\ given' = given \cup ({clean(sent)} \ {NoKey})
    /\ UNCHANGED <<member, incident, file, used, lost, leftover>>

\* (mutant) the old file is not deleted.
DeleteNothing(w) ==
    /\ txn[w].op = "photo" /\ txn[w].step = "stored"
    /\ Continue(w, [txn[w] EXCEPT !.step = "deleted"])
    /\ UNCHANGED <<member, incident, file, used, given, lost, leftover>>

\* storageService.deleteFile of the key that was read; an error is only logged.
DeleteOld(w) ==
    /\ txn[w].op = "photo" /\ txn[w].step = "stored"
    /\ \/ /\ file' = file \ {txn[w].old}
          /\ Continue(w, [txn[w] EXCEPT !.step = "deleted", !.gone = txn[w].old # NoKey])
          /\ UNCHANGED leftover
       \/ /\ txn[w].old # NoKey
          /\ leftover' = leftover \cup ({txn[w].old} \cap file)
          /\ Continue(w, [txn[w] EXCEPT !.step = "deleted"])
          /\ UNCHANGED file
    /\ UNCHANGED <<member, incident, used, given, lost>>

\* The transaction of uploadPhoto and updatePhoto; one that finds the member deleted
\* is refused, which Abort allows.
CommitPhoto(w) ==
    /\ txn[w].op = "photo" /\ txn[w].step = "deleted"
    /\ LET m == txn[w].member
           k == txn[w].new
       IN  /\ Found(m)
           /\ IF k = NoKey
              THEN /\ lost' = IF txn[w].gone THEN lost \cup {txn[w].old} ELSE lost
                   /\ UNCHANGED member
              ELSE /\ member' = [member EXCEPT ![m] = [status |-> @.status, photo |-> k]]
                   /\ UNCHANGED lost
    /\ Done(w)
    /\ UNCHANGED <<incident, file, used, given, leftover>>

ReadRemove(w, m) ==
    /\ Found(m)
    /\ Begin(w, [op |-> "remove", member |-> m])
    /\ UNCHANGED <<member, incident, file, used, given, lost, leftover>>

CommitRemove(w) ==
    /\ txn[w].op = "remove"
    /\ LET m == txn[w].member
       IN  /\ Found(m)
           /\ leftover' = leftover \cup ({member[m].photo} \cap file)
           /\ member' = [member EXCEPT ![m] = [status |-> @.status, photo |-> NoKey]]
    /\ Done(w)
    /\ UNCHANGED <<incident, file, used, given, lost>>
-----------------------------------------------------------------------------
(* Incidents                                                               *)

ReadNote(w, m) ==
    /\ Found(m)
    /\ Begin(w, [op |-> "note", member |-> m])
    /\ UNCHANGED <<member, incident, file, used, given, lost, leftover>>

CommitNote(w) ==
    /\ txn[w].op = "note"
    /\ \E i \in Incident :
          /\ incident[i] = "NONE"
          /\ incident' = [incident EXCEPT ![i] = "OPEN"]
    /\ Done(w)
    /\ UNCHANGED <<member, file, used, given, lost, leftover>>

\* (mutant) only an incident that was resolved is final.
MayResolveDismissed(i) == incident[i] \notin {"NONE", "RESOLVED"}

MayResolve(i) == incident[i] \notin {"NONE"} \cup Decided

ReadResolve(w, i) ==
    /\ MayResolve(i)
    /\ \E s \in IncidentStatus \ {"NONE"} :
          Begin(w, [op |-> "resolve", incident |-> i, status |-> s])
    /\ UNCHANGED <<member, incident, file, used, given, lost, leftover>>

CommitResolve(w) ==
    /\ txn[w].op = "resolve"
    /\ incident' = [incident EXCEPT ![txn[w].incident] = txn[w].status]
    /\ Done(w)
    /\ UNCHANGED <<member, file, used, given, lost, leftover>>
-----------------------------------------------------------------------------
Next ==
    \E w \in Worker :
        \/ Abort(w)
        \/ \E m \in Member :
              \/ Register(w, m)
              \/ ReadStatus(w, m)
              \/ ReadUpload(w, m)
              \/ ReadUpdatePhoto(w, m)
              \/ ReadRemove(w, m)
              \/ ReadNote(w, m)
        \/ CommitStatus(w)
        \/ Store(w)
        \/ DeleteOld(w)
        \/ CommitPhoto(w)
        \/ CommitRemove(w)
        \/ CommitNote(w)
        \/ \E i \in Incident : ReadResolve(w, i)
        \/ CommitResolve(w)

Spec == Init /\ [][Next]_vars
-----------------------------------------------------------------------------
Replacing(k) == \E w \in Worker : txn[w].op = "photo" /\ txn[w].gone /\ txn[w].old = k

Photos == {member[m].photo : m \in {m \in Member : member[m] # NoMember}} \ {NoKey}

\* Whatever requests overlap, the photo a row names is stored, except while a request
\* is about to replace it, after one that deleted it and then failed or had only spaces to
\* write, and where a client sent the key itself (members.service.ts:697-733, 761-803).
PhotoThere == \A k \in Photos \ given : k \in file \/ Replacing(k) \/ k \in lost

\* When requests do not overlap, a file is somebody's photo or on its way to be, unless
\* it was left behind on purpose or by a failure (members.service.ts:772-790, 831-842).
FilesAccounted ==
    ~overlapped =>
        \A k \in file \ given :
            \/ k \in Photos \/ k \in leftover
            \/ \E w \in Worker : txn[w].op = "photo" /\ txn[w].new = k

\* A member that was deleted stays as it is, also for the requests that found it
\* before (members.service.ts:606-625, 792-803).
KeepingDeleted == \A m \in Member : member[m].status = "DELETED" => member'[m] = member[m]

DeletedIsFinal == [][KeepingDeleted]_vars

\* When requests do not overlap, an incident is decided once
\* (members.service.ts:992-1012).
KeepingDecided ==
    \A i \in Incident :
        ~overlapped /\ incident[i] \in Decided => incident'[i] = incident[i]

DecidedOnce == [][KeepingDecided]_vars

\* Rows and files agree, in both directions (members.service.ts:769-800).
PhotosKept == PhotoThere /\ FilesAccounted

\* When requests do not overlap, what was decided of a member or of an incident stands
\* (members.service.ts:604-636, 1000-1010).
DecisionsStand == DeletedIsFinal /\ DecidedOnce
=============================================================================
