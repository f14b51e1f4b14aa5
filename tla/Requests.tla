------------------------------- MODULE Requests ------------------------------
(***************************************************************************)
(* The requests in flight.  The API is one Node process on a PostgreSQL    *)
(* database at READ COMMITTED: a handler awaits its queries one by one,    *)
(* and between two of them the handlers of other requests run.             *)
(*                                                                         *)
(* A worker is a request: it begins with what it has read, keeps it in     *)
(* txn, and is done when it has answered.  A handler of one statement      *)
(* (or of one transaction that reads what it writes under its own locks)   *)
(* takes one step and is never seen in txn.                                *)
(***************************************************************************)
EXTENDS InFlight

VARIABLE overlapped     \* history: a request began while another was in flight

Idle == [op |-> "idle"]

NoRequests == txn = [w \in Worker |-> Idle] /\ overlapped = FALSE

Overlap(w) == overlapped' = (overlapped \/ \E v \in Worker \ {w} : txn[v] # Idle)

Begin(w, t) ==
    /\ txn[w] = Idle
    /\ txn' = [txn EXCEPT ![w] = t]
    /\ Overlap(w)

\* The request goes on with what it has read since.
Continue(w, t) == txn' = [txn EXCEPT ![w] = t] /\ UNCHANGED overlapped

Done(w) == Continue(w, Idle)

AtOnce(w) ==
    /\ txn[w] = Idle
    /\ UNCHANGED txn
    /\ Overlap(w)
=============================================================================
