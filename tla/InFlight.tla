------------------------------ MODULE InFlight -------------------------------
(***************************************************************************)
(* The requests in flight, as the components share them; Requests also     *)
(* remembers whether they overlapped.                                      *)
(***************************************************************************)
CONSTANT Worker     \* requests that can be in flight at once

VARIABLE txn        \* what the request of each worker has read
=============================================================================
