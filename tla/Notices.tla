------------------------------- MODULE Notices -------------------------------
(***************************************************************************)
(* The internal notices of a club (notifications.service.ts).  A request   *)
(* that lists or counts them first brings them up to date, and the pages   *)
(* ask every two minutes: a condition that holds (a product that runs out, *)
(* a debt, a drawer left open) has an open notice as long as it holds, and *)
(* an event (waste, a difference of cash) has one notice for good.  An     *)
(* event is there to be noticed while the queries of a sync find it: not   *)
(* when the sale was cancelled, the threshold for waste was raised or the  *)
(* 30 days they look back have passed.                                     *)
(*                                                                         *)
(* The database has no key that keeps two notices apart.  A server does it *)
(* with a cache of five minutes and, among all servers, with a lock of 30  *)
(* seconds that nobody releases: it ends by itself, whether or not the one *)
(* who took it has ended.  A sync is many statements, not a transaction.   *)
(*                                                                         *)
(* A request that finds the cache of its server fresh only reads, and is   *)
(* not seen here.  Types, recipients and entities of a notice are its key. *)
(***************************************************************************)
EXTENDS Naturals, FiniteSets, Requests

CONSTANTS
    Server,     \* processes of the API
    Condition,  \* keys of the dynamic types
    Event,      \* keys of the other types
    Notice,     \* bound: notices ever created
    MaxMoves,   \* bound: changes of the club and writes of users
    MaxFailures \* bound: requests that fail

\* Assumed by the module that checks this one.
ConstantsOK == MaxMoves \in Nat /\ MaxFailures \in Nat /\ Condition \cap Event = {}

VARIABLES
    holds,      \* conditions and events that the queries of a sync would find now
    notice,     \* internal_notifications
    fresh,      \* syncCache: servers that have synced within SYNC_TTL_MS
    lock,       \* the key notifications:sync of Redis
    lapsed,     \* history: the lock ended while a sync was running
    reopened,   \* history: notices that a user has opened again
    moves,      \* history: see MaxMoves
    failures    \* history: see MaxFailures

vars == <<holds, notice, fresh, lock, lapsed, reopened, moves, failures, txn, overlapped>>
-----------------------------------------------------------------------------
OpenStatus == {"UNREAD", "READ", "IN_REVIEW"}
Status == OpenStatus \cup {"RESOLVED", "ARCHIVED"}
NoNotice == [status |-> "NONE"]
NoticeRow == {NoNotice} \cup [status : Status, key : Condition \cup Event]

Txn ==
    {Idle}
    \cup [op : {"write"}, notice : Notice, status : Status]
    \cup [op : {"sync"}, step : {"asked"}, server : Server]
    \cup [op : {"sync"}, step : {"read"}, left : SUBSET {"open", "holds"},
          open : SUBSET Notice, holds : SUBSET (Condition \cup Event)]
    \cup [op : {"sync"}, step : {"raise"}, todo : SUBSET Condition,
          open : SUBSET Notice, holds : SUBSET (Condition \cup Event)]
    \cup [op : {"sync"}, step : {"close"}, holds : SUBSET (Condition \cup Event)]
    \cup [op : {"sync"}, step : {"file"}, todo : SUBSET Event]

TypeOK ==
    /\ holds \subseteq Condition \cup Event
    /\ notice \in [Notice -> NoticeRow]
    /\ fresh \subseteq Server
    /\ lock \in BOOLEAN
    /\ lapsed \in BOOLEAN
    /\ reopened \subseteq Notice
    /\ moves \in 0..MaxMoves
    /\ failures \in 0..MaxFailures
    /\ overlapped \in BOOLEAN
    /\ txn \in [Worker -> Txn]

Init ==
    /\ holds = {}
    /\ notice = [n \in Notice |-> NoNotice]
    /\ fresh = {}
    /\ lock = FALSE
    /\ lapsed = FALSE
    /\ reopened = {}
    /\ moves = 0
    /\ failures = 0
    /\ NoRequests

Rows == {n \in Notice : notice[n] # NoNotice}
Open == {n \in Notice : notice[n].status \in OpenStatus}
KeysOf(ns) == {notice[n].key : n \in ns}

\* What a sync goes on to do after the lock.
Syncing(w) == txn[w].op = "sync" /\ txn[w].step # "asked"

Move == moves < MaxMoves /\ moves' = moves + 1 /\ UNCHANGED failures
-----------------------------------------------------------------------------
(* The club, the users and what fails                                      *)

Change(k) ==
    /\ Move
    /\ holds' = IF k \in holds THEN holds \ {k} ELSE holds \cup {k}
    /\ UNCHANGED <<notice, fresh, lock, lapsed, reopened, txn, overlapped>>

\* markRead, markInReview, resolve, archive: the notice is read first, and
\* markRead decides on what it has read.
ReadWrite(w, n) ==
    /\ Move
    /\ n \in Rows
    /\ \E s \in {IF notice[n].status = "UNREAD" THEN "READ" ELSE notice[n].status,
                 "IN_REVIEW", "RESOLVED", "ARCHIVED"} :
          Begin(w, [op |-> "write", notice |-> n, status |-> s])
    /\ UNCHANGED <<holds, notice, fresh, lock, lapsed, reopened>>

CommitWrite(w) ==
    /\ txn[w].op = "write"
    /\ LET n == txn[w].notice
           s == txn[w].status
       IN  /\ notice' = [notice EXCEPT ![n] = [status |-> s, key |-> @.key]]
           /\ reopened' = IF n \notin Open /\ s \in OpenStatus THEN reopened \cup {n} ELSE reopened
    /\ Done(w)
    /\ UNCHANGED <<holds, fresh, lock, lapsed, moves, failures>>

MarkAllRead(w) ==
    /\ Move
    /\ AtOnce(w)
    /\ notice' = [n \in Notice |->
                    IF notice[n].status = "UNREAD"
                    THEN [status |-> "READ", key |-> notice[n].key] ELSE notice[n]]
    /\ UNCHANGED <<holds, fresh, lock, lapsed, reopened>>

\* A statement fails, or the server stops: what it has written stays.
Abort(w) ==
    /\ failures < MaxFailures
    /\ failures' = failures + 1
    /\ txn[w] # Idle
    /\ Done(w)
    /\ UNCHANGED <<holds, notice, fresh, lock, lapsed, reopened, moves>>

\* Five minutes have passed, or the server was started again.
ExpireCache(s) ==
    /\ s \in fresh
    /\ fresh' = fresh \ {s}
    /\ UNCHANGED <<holds, notice, lock, lapsed, reopened, moves, failures, txn, overlapped>>

\* (mutant) the lock is set without a time limit.
ExpireLockNever == FALSE

\* 30 seconds have passed.
ExpireLock ==
    /\ lock
    /\ lock' = FALSE
    /\ lapsed' = (lapsed \/ \E w \in Worker : Syncing(w))
    /\ UNCHANGED <<holds, notice, fresh, reopened, moves, failures, txn, overlapped>>
-----------------------------------------------------------------------------
(* syncTenantNotifications                                                 *)

\* A page asks for the notices or for their number.
ReadSync(w, s) ==
    /\ s \notin fresh
    /\ Begin(w, [op |-> "sync", step |-> "asked", server |-> s])
    /\ UNCHANGED <<holds, notice, fresh, lock, lapsed, reopened, moves, failures>>

NotAcquired(w) ==
    /\ txn[w].op = "sync" /\ txn[w].step = "asked"
    /\ lock
    /\ Done(w)
    /\ UNCHANGED <<holds, notice, fresh, lock, lapsed, reopened, moves, failures>>

Acquire(w) ==
    /\ txn[w].op = "sync" /\ txn[w].step = "asked"
    /\ ~lock
    /\ lock' = TRUE
    /\ fresh' = fresh \cup {txn[w].server}
    /\ Continue(w, [op |-> "sync", step |-> "read", left |-> {"open", "holds"},
                    open |-> {}, holds |-> {}])
    /\ UNCHANGED <<holds, notice, lapsed, reopened, moves, failures>>

\* (mutant) a notice that somebody looks into is not among the open ones.
OpenNoticesNotInReview == {n \in Open : notice[n].status # "IN_REVIEW"}

OpenNotices == Open

\* The queries of the Promise.all are answered in any order.
Read(w, part) ==
    /\ txn[w].op = "sync" /\ txn[w].step = "read" /\ part \in txn[w].left
    /\ LET read ==
             IF part = "open"
             THEN [txn[w] EXCEPT !.left = @ \ {part}, !.open = OpenNotices]
             ELSE [txn[w] EXCEPT !.left = @ \ {part}, !.holds = holds]
       IN  Continue(w, IF read.left # {} THEN read
                       ELSE [op |-> "sync", step |-> "raise", open |-> read.open,
                             holds |-> read.holds,
                             todo |-> (read.holds \cap Condition) \ KeysOf(read.open)])
    /\ UNCHANGED <<holds, notice, fresh, lock, lapsed, reopened, moves, failures>>

\* Which id a row gets makes no difference.
Create(k) ==
    LET free == Notice \ Rows
    IN  /\ free # {}
        /\ notice' = [notice EXCEPT ![CHOOSE n \in free : TRUE] =
                                      [status |-> "UNREAD", key |-> k]]

\* ensureOpenNotification, for one condition after the other.
Raise(w) ==
    /\ txn[w].op = "sync" /\ txn[w].step = "raise"
    /\ \E k \in txn[w].todo :
          /\ Create(k)
          /\ Continue(w, [txn[w] EXCEPT !.todo = @ \ {k}])
    /\ UNCHANGED <<holds, fresh, lock, lapsed, reopened, moves, failures>>

Stale(open, active) == {n \in open : notice[n].key \in Condition \ active}

\* (mutant) the sync returns when there is nothing to resolve.
ResolveOrReturn(w) ==
    /\ txn[w].op = "sync" /\ txn[w].step = "raise" /\ txn[w].todo = {}
    /\ notice' = [n \in Notice |->
                    IF n \in Stale(txn[w].open, txn[w].holds)
                    THEN [status |-> "RESOLVED", key |-> notice[n].key] ELSE notice[n]]
    /\ IF Stale(txn[w].open, txn[w].holds) = {}
       THEN Done(w)
       ELSE Continue(w, [op |-> "sync", step |-> "close", holds |-> txn[w].holds])
    /\ UNCHANGED <<holds, fresh, lock, lapsed, reopened, moves, failures>>

\* resolveInactiveDynamicNotifications, whatever their status has become.
Resolve(w) ==
    /\ txn[w].op = "sync" /\ txn[w].step = "raise" /\ txn[w].todo = {}
    /\ notice' = [n \in Notice |->
                    IF n \in Stale(txn[w].open, txn[w].holds)
                    THEN [status |-> "RESOLVED", key |-> notice[n].key] ELSE notice[n]]
    /\ Continue(w, [op |-> "sync", step |-> "close", holds |-> txn[w].holds])
    /\ UNCHANGED <<holds, fresh, lock, lapsed, reopened, moves, failures>>

\* (mutant) events whose notice is closed are filed again.
ExistingOpen == KeysOf(Open) \cap Event

\* existingEventKeys
Existing == KeysOf(Rows) \cap Event

ReadExisting(w) ==
    /\ txn[w].op = "sync" /\ txn[w].step = "close"
    /\ Continue(w, [op |-> "sync", step |-> "file",
                    todo |-> (txn[w].holds \cap Event) \ Existing])
    /\ UNCHANGED <<holds, notice, fresh, lock, lapsed, reopened, moves, failures>>

File(w) ==
    /\ txn[w].op = "sync" /\ txn[w].step = "file"
    /\ \E k \in txn[w].todo :
          /\ Create(k)
          /\ Continue(w, [txn[w] EXCEPT !.todo = @ \ {k}])
    /\ UNCHANGED <<holds, fresh, lock, lapsed, reopened, moves, failures>>

\* The request goes on to read what it was asked for.
EndSync(w) ==
    /\ txn[w].op = "sync" /\ txn[w].step = "file" /\ txn[w].todo = {}
    /\ Done(w)
    /\ UNCHANGED <<holds, notice, fresh, lock, lapsed, reopened, moves, failures>>
-----------------------------------------------------------------------------
Step(w) ==
    \/ CommitWrite(w)
    \/ NotAcquired(w)
    \/ Acquire(w)
    \/ \E part \in {"open", "holds"} : Read(w, part)
    \/ Raise(w)
    \/ Resolve(w)
    \/ ReadExisting(w)
    \/ File(w)
    \/ EndSync(w)

Next ==
    \/ \E k \in Condition \cup Event : Change(k)
    \/ \E s \in Server : ExpireCache(s)
    \/ ExpireLock
    \/ \E w \in Worker :
          \/ \E n \in Notice : ReadWrite(w, n)
          \/ MarkAllRead(w)
          \/ Abort(w)
          \/ \E s \in Server : ReadSync(w, s)
          \/ Step(w)

Spec == Init /\ [][Next]_vars

\* A request that does not fail is answered, time passes, and a page that is open
\* asks again: every 120 seconds (useNotifications.ts), of any server.
Fairness ==
    /\ \A w \in Worker : WF_vars(Step(w))
    /\ \A s \in Server : WF_vars(ExpireCache(s))
    /\ WF_vars(ExpireLock)
    /\ WF_vars(\E w \in Worker, s \in Server : ReadSync(w, s))

FairSpec == Spec /\ Fairness
-----------------------------------------------------------------------------
\* Whatever requests overlap, on one server or on several, a key has one open notice
\* at most, unless a sync outlived the lock or a user opened an old notice again
\* (notifications.service.ts:241-245, 846-871).
NoticeOnce ==
    ~lapsed => \A n, m \in Open \ reopened : notice[n].key = notice[m].key => n = m

\* An event is notified once, also after its notice was closed, unless a sync
\* outlived the lock (notifications.service.ts:642-677).
EventOnce ==
    ~lapsed => \A n, m \in Rows :
                  notice[n].key \in Event /\ notice[n].key = notice[m].key => n = m

\* A condition that holds for good has an open notice in the end, and one that has
\* ended for good has none, although syncs fail half-way, outlive the lock, or work
\* through what they read long ago (notifications.service.ts:241-640, 806-844).
Settles ==
    \A k \in Condition :
        /\ <>[](k \in holds) => <>[](k \in KeysOf(Open))
        /\ <>[](k \notin holds) => <>[](k \notin KeysOf(Open))

\* An event is notified in the end, unless it is no longer to be found by then: its sale
\* was cancelled, say, before a sync had filed it (notifications.service.ts:304-378, 642-803).
EventNoticed == \A k \in Event : (k \in holds) ~> (k \notin holds \/ k \in KeysOf(Rows))

\* One notice for each condition and event, whatever overlaps
\* (notifications.service.ts:241-245).
NoticedOnce == NoticeOnce /\ EventOnce

\* In the end the notices say what is the case (notifications.service.ts:241-803).
Settled == Settles /\ EventNoticed
=============================================================================
