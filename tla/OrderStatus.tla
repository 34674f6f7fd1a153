---------------------------- MODULE OrderStatus ----------------------------
(***************************************************************************)
(* The status vocabulary of orders and delivery assignments, and the guard *)
(* table that app/models/order.py gives for order transitions.  A model of *)
(* a component extends this module for the words and says itself where the *)
(* code consults the table: most handlers do not.                          *)
(***************************************************************************)

\* Not a status of the code: the order or assignment row does not exist yet.
NoRow == "NO_ROW"

OrderStatuses ==
    {"PLACED", "CONFIRMED", "PREPARING", "READY_FOR_PICKUP",
     "OUT_FOR_DELIVERY", "DELIVERED", "CANCELLED", "FAILED"}

TerminalOrderStatuses == {"DELIVERED", "CANCELLED", "FAILED"}

\* VALID_TRANSITIONS, read only by the status webhook.
ValidTransitions ==
    [ PLACED           |-> {"CONFIRMED", "CANCELLED", "FAILED"},
      CONFIRMED        |-> {"PREPARING", "OUT_FOR_DELIVERY", "CANCELLED"},
      PREPARING        |-> {"READY_FOR_PICKUP"},
      READY_FOR_PICKUP |-> {"OUT_FOR_DELIVERY"},
      OUT_FOR_DELIVERY |-> {"DELIVERED", "FAILED"},
      DELIVERED        |-> {},
      CANCELLED        |-> {},
      FAILED           |-> {} ]

\* Mutant: the customer may cancel what is already on its way.
UserCancellable_OnTheWay == {"PLACED", "CONFIRMED", "OUT_FOR_DELIVERY"}

\* USER_CANCELLABLE_STATUSES, read only by the customer's cancel request.
UserCancellable == {"PLACED", "CONFIRMED"}

AssignmentStatuses ==
    {"ASSIGNED", "ACCEPTED", "REJECTED", "TIMED_OUT", "REACHED_RESTAURANT",
     "PICKED_UP", "REACHED_CUSTOMER", "DELIVERED", "FAILED"}

\* The assignment statuses that make a partner busy for the dispatch query.
ActiveAssignment ==
    {"ASSIGNED", "ACCEPTED", "REACHED_RESTAURANT", "PICKED_UP",
     "REACHED_CUSTOMER"}

\* The assignment statuses after which _do_assign looks for another partner.
ReassignableAssignment == {"REJECTED", "TIMED_OUT", "FAILED"}

\* The row of order_responses: the restaurant's one recorded answer.
ResponseActions == {"ACCEPTED", "REJECTED"}
============================================================================
