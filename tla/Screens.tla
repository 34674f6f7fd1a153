------------------------------ MODULE Screens ------------------------------
(***************************************************************************)
(* What the clients are shown of the state of Dispatch: the restaurant's   *)
(* live list, the partner's active assignment, and the order lists of the  *)
(* Flutter adapter with its own words for an order's status.  These are    *)
(* queries: they change nothing and each reads one committed state.        *)
(***************************************************************************)
EXTENDS Dispatch

\* The adapter's word for a status ...
Word ==
    [ PLACED           |-> "received",
      CONFIRMED        |-> "confirmed",
      PREPARING        |-> "preparing",
      READY_FOR_PICKUP |-> "pickup_ready",
      OUT_FOR_DELIVERY |-> "delivering",
      DELIVERED        |-> "delivered",
      CANCELLED        |-> "cancelled",
      FAILED           |-> "cancelled" ]

\* ... and the status it filters by when it is given a word: not the inverse.
StatusOfWord ==
    [ received     |-> "PLACED",
      confirmed    |-> "CONFIRMED",
      preparing    |-> "CONFIRMED",
      pickup_ready |-> "READY_FOR_PICKUP",
      delivering   |-> "OUT_FOR_DELIVERY",
      delivered    |-> "DELIVERED",
      cancelled    |-> "CANCELLED" ]

\* Mutant: an order that waits for its partner drops off the live list.
LiveOrders_Unready ==
    {o \in Orders : order[o] \in {"PLACED", "CONFIRMED", "PREPARING"}}

\* The restaurant's live list: the union of the four columns it is shown in.
LiveOrders ==
    {o \in Orders :
        order[o] \in {"PLACED", "CONFIRMED", "PREPARING", "READY_FOR_PICKUP"}}

\* The active assignments of a partner.  The query takes one row, whichever
\* comes first, so the app shows all of a partner's work only if there is one.
ActiveAssignments(p) ==
    {o \in Orders : asgPartner[o] = p /\ asgStatus[o] \in ActiveAssignment}

\* The restaurant's orders in the adapter, filtered by a word.
RestaurantOrders(word) == {o \in Orders : order[o] = StatusOfWord[word]}

\* The adapter's list of orders that wait for a partner: ready, and either not
\* offered to anyone or in any assignment status but ACCEPTED.
WaitingForAgent ==
    {o \in RestaurantOrders("pickup_ready") :
        asgStatus[o] = NoRow \/ asgStatus[o] # "ACCEPTED"}

\* An order is under way until it is delivered, cancelled or failed.
UnderWay(o) == order[o] \notin TerminalOrderStatuses \cup {NoRow}

\* No order under way drops off every screen: it is on the restaurant's live
\* list, or it is the one active assignment of its partner; and no order that
\* has left the restaurant is listed as waiting for a partner.  The lists are
\* queries over two tables that different handlers write.
NoOrderIsLost ==
    \A o \in Orders :
        /\ UnderWay(o) => \/ o \in LiveOrders
                          \/ ActiveAssignments(asgPartner[o]) = {o}
        /\ o \in WaitingForAgent =>
              asgStatus[o] \notin {"PICKED_UP", "REACHED_CUSTOMER", "DELIVERED"}
        /\ UnderWay(o) /\ o \notin LiveOrders =>
              o \in RestaurantOrders(Word[order[o]])
=============================================================================
