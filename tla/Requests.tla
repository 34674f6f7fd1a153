------------------------------ MODULE Requests ------------------------------
(***************************************************************************)
(* What the models of single records share: requests that are served at    *)
(* the same time.  A request is a record whose field "at" says which of    *)
(* its accesses to the database or to Redis comes next; everything up to   *)
(* there has been decided with what was read before.                       *)
(***************************************************************************)
EXTENDS Naturals, FiniteSets

CONSTANTS
    Sessions        \* the requests that may be in flight at once

Idle == [at |-> "idle"]

\* The request of session s goes on to its next access, or it ends.
Goes(requests, s, step) == [requests EXCEPT ![s].at = step]
Ends(requests, s)       == [requests EXCEPT ![s] = Idle]

\* Nothing else is going on about x, for a field that holds the x of a request.
AloneOn(requests, field, x) ==
    \A s \in Sessions : requests[s] # Idle => requests[s][field] # x

=============================================================================
