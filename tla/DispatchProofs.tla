--------------------------- MODULE DispatchProofs ---------------------------
(***************************************************************************)
(* Proofs about Dispatch for any sets of orders, partners and sessions,    *)
(* any number of faults, with and without the webhook.                     *)
(*                                                                         *)
(* The inductive invariant has two layers.  SessionsShaped says what an    *)
(* in-flight session can look like: which operation may hold which pending *)
(* write, and where it may stand.  On top of it, one invariant for each    *)
(* property relates sessions and background tasks to the rows they will    *)
(* overwrite.                                                              *)
(*                                                                         *)
(* The second half is about handlers that do not overlap (at most one      *)
(* session) and about Screens: there the rows of an order agree.           *)
(***************************************************************************)
EXTENDS Screens, TLAPS

-----------------------------------------------------------------------------
(* The inductive invariant *)

AnswerOps == {"accept_order", "reject_order"}

AssignmentOps ==
    {"do_assign", "handle_timeout", "accept_assignment", "reject_assignment",
     "reached_restaurant", "picked_up", "reached_customer", "deliver",
     "fail_delivery"}

\* Which operation holds which pending writes, and where it may stand.
Shaped(w) ==
    /\ w.at = "read_response" => w.op \in AnswerOps
    /\ w.at \in {"check_offer", "take_offer"} => w.op = "accept_assignment"
    /\ w.at \in {"store_offer", "arm_timer"} => w.op = "do_assign"
    /\ w.setResponse # Keep => w.op \in AnswerOps
    /\ w.setAsg # Keep => w.op \in AssignmentOps
    /\ w.setAsg = "ASSIGNED" => w.op = "do_assign"
    /\ w.setAsg = "DELIVERED" => w.op = "deliver"
    /\ w.setAsg = "FAILED" => w.op = "fail_delivery"
    /\ w.op = "do_assign" => /\ w.at \in {"commit", "store_offer", "arm_timer"}
                             /\ w.setAsg = "ASSIGNED"
                             /\ w.p \in Partners
    /\ w.op = "handle_timeout" => w.at = "commit" /\ w.setAsg = "TIMED_OUT"

ShapedWork == {w \in Work : Shaped(w)}

SessionsShaped == sess \in [Sessions -> ShapedWork \cup {Idle}]

\* A row of delivery_assignments has a partner, and whoever works on an
\* assignment has seen its row.
AssignmentRows ==
    /\ \A o \in Orders : asgStatus[o] # NoRow => asgPartner[o] \in Partners
    /\ \A s \in Sessions :
          sess[s] # Idle /\ sess[s].op \in AssignmentOps \ {"do_assign"}
          => asgStatus[sess[s].o] # NoRow

\* Everything that concerns an assignment concerns an answered order; an
\* accept that found an answer does not insert one.
AnsweredFirst ==
    /\ \A o \in Orders :
          asgStatus[o] # NoRow \/ assignTasks[o] > 0 => response[o] # NoRow
    /\ \A s \in Sessions : sess[s] # Idle =>
          /\ sess[s].op \in AssignmentOps => response[sess[s].o] # NoRow
          /\ /\ sess[s].op = "accept_order"
             /\ sess[s].at = "commit"
             /\ sess[s].setResponse = Keep
             => response[sess[s].o] # NoRow

DispatchInv ==
    /\ TypeOK
    /\ SessionsShaped
    /\ AssignmentRows
    /\ AnsweredFirst
    /\ FinishedMeansPaid
    /\ OfferIsWatched

-----------------------------------------------------------------------------
(* What a session looks like when it starts *)

\* A session that has read its order and holds no write yet.
LEMMA StartedFields ==
    ASSUME TypeOK, NEW op \in Operations, NEW o \in Orders,
           NEW phase \in Phases
    PROVE  /\ Started(op, o, phase) \in Work
           /\ Started(op, o, phase).op = op
           /\ Started(op, o, phase).at = phase
           /\ Started(op, o, phase).o = o
           /\ Started(op, o, phase).p = asgPartner[o]
           /\ Started(op, o, phase).setOrder = Keep
           /\ Started(op, o, phase).setAsg = Keep
           /\ Started(op, o, phase).setResponse = Keep
  BY DEF Started, Work, TypeOK

\* A session that will write the order's status only.
LEMMA OrderWriteFields ==
    ASSUME TypeOK, NEW op \in Operations, NEW o \in Orders,
           NEW new \in OrderStatuses
    PROVE  /\ OrderWrite(op, o, new) \in Work
           /\ OrderWrite(op, o, new).op = op
           /\ OrderWrite(op, o, new).at = "commit"
           /\ OrderWrite(op, o, new).o = o
           /\ OrderWrite(op, o, new).setAsg = Keep
           /\ OrderWrite(op, o, new).setResponse = Keep
  BY DEF OrderWrite, Write, Started, Work, Phases, TypeOK

\* A session that will write the assignment's status only.
LEMMA AsgWriteFields ==
    ASSUME TypeOK, NEW op \in Operations, NEW o \in Orders,
           NEW new \in AssignmentStatuses
    PROVE  /\ AsgWrite(op, o, new) \in Work
           /\ AsgWrite(op, o, new).op = op
           /\ AsgWrite(op, o, new).at = "commit"
           /\ AsgWrite(op, o, new).o = o
           /\ AsgWrite(op, o, new).setAsg = Write(asgStatus[o], new)
           /\ AsgWrite(op, o, new).setResponse = Keep
  BY DEF AsgWrite, Write, Started, Work, Phases, TypeOK

\* A session that will write both, as the partner's pick-up and delivery do.
LEMMA DeliveryWriteFields ==
    ASSUME TypeOK, NEW op \in Operations, NEW o \in Orders,
           NEW newAsg \in AssignmentStatuses, NEW newOrder \in OrderStatuses
    PROVE  /\ DeliveryWrite(op, o, newAsg, newOrder) \in Work
           /\ DeliveryWrite(op, o, newAsg, newOrder).op = op
           /\ DeliveryWrite(op, o, newAsg, newOrder).at = "commit"
           /\ DeliveryWrite(op, o, newAsg, newOrder).o = o
           /\ DeliveryWrite(op, o, newAsg, newOrder).setAsg
                 = Write(asgStatus[o], newAsg)
           /\ DeliveryWrite(op, o, newAsg, newOrder).setResponse = Keep
  BY DEF DeliveryWrite, AsgWrite, Write, Started, Work, Phases, TypeOK

\* Every request and task puts a shaped session into its slot.
LEMMA StartedShaped ==
    ASSUME TypeOK, NEW o \in Orders
    PROVE  /\ \A op \in AnswerOps :
                 Started(op, o, "read_response") \in ShapedWork
           /\ Started("accept_assignment", o, "check_offer") \in ShapedWork
  <1>1. ASSUME NEW op \in AnswerOps
        PROVE  Started(op, o, "read_response") \in ShapedWork
    <2>1. op \in Operations /\ "read_response" \in Phases
      BY DEF AnswerOps, Operations, Phases
    <2>2. QED
      BY <2>1, StartedFields
      DEF AnswerOps, AssignmentOps, ShapedWork, Shaped, Keep
  <1>2. Started("accept_assignment", o, "check_offer") \in ShapedWork
    <2>1. "accept_assignment" \in Operations /\ "check_offer" \in Phases
      BY DEF Operations, Phases
    <2>2. QED
      BY <2>1, StartedFields
      DEF AnswerOps, AssignmentOps, ShapedWork, Shaped, Keep
  <1>3. QED
    BY <1>1, <1>2

OrderOps ==
    {"mark_preparing", "mark_ready", "cancel_order", "update_status",
     "fail_order"}

\* A session of the restaurant, the customer, the webhook or the failing task
\* writes the order's status and nothing of the assignment.
LEMMA OrderWriteShaped ==
    ASSUME TypeOK, NEW op \in OrderOps, NEW o \in Orders,
           NEW new \in OrderStatuses
    PROVE  OrderWrite(op, o, new) \in ShapedWork
  <1>1. op \in Operations
    BY DEF OrderOps, Operations
  <1>2. QED
    BY <1>1, OrderWriteFields
    DEF OrderOps, AnswerOps, AssignmentOps, ShapedWork, Shaped, Keep

\* A session of the partner that writes one assignment status.
LEMMA AsgWriteShaped ==
    ASSUME TypeOK, NEW o \in Orders
    PROVE  /\ AsgWrite("reject_assignment", o, "REJECTED") \in ShapedWork
           /\ AsgWrite("reached_restaurant", o, "REACHED_RESTAURANT")
                 \in ShapedWork
           /\ AsgWrite("reached_customer", o, "REACHED_CUSTOMER")
                 \in ShapedWork
  BY AsgWriteFields
  DEF AnswerOps, AssignmentOps, Operations, AssignmentStatuses, ShapedWork,
      Shaped, Keep, Write

\* A session of the partner that writes both rows.
LEMMA DeliveryWriteShaped ==
    ASSUME TypeOK, NEW o \in Orders
    PROVE  /\ DeliveryWrite("picked_up", o, "PICKED_UP", "OUT_FOR_DELIVERY")
                 \in ShapedWork
           /\ DeliveryWrite("deliver", o, "DELIVERED", "DELIVERED")
                 \in ShapedWork
           /\ DeliveryWrite("fail_delivery", o, "FAILED", "FAILED")
                 \in ShapedWork
  <1>1. ASSUME NEW op \in AssignmentOps \ {"do_assign", "handle_timeout"},
               NEW newAsg \in AssignmentStatuses,
               NEW newOrder \in OrderStatuses,
               newAsg # "ASSIGNED",
               newAsg = "DELIVERED" => op = "deliver",
               newAsg = "FAILED" => op = "fail_delivery"
        PROVE  DeliveryWrite(op, o, newAsg, newOrder) \in ShapedWork
    <2> DEFINE w == DeliveryWrite(op, o, newAsg, newOrder)
    <2>1. op \in Operations
      BY DEF AssignmentOps, Operations
    <2>2. /\ w \in Work
          /\ w.op = op /\ w.at = "commit"
          /\ w.setAsg \in {newAsg, Keep}
          /\ w.setResponse = Keep
      BY <2>1, DeliveryWriteFields DEF Write
    <2> HIDE DEF w
    <2>3. Shaped(w)
      BY <1>1, <2>2 DEF Shaped, AssignmentOps, Keep
    <2>4. QED
      BY <2>2, <2>3 DEF ShapedWork, w
  <1>2. /\ {"picked_up", "deliver", "fail_delivery"}
             \subseteq AssignmentOps \ {"do_assign", "handle_timeout"}
        /\ {"PICKED_UP", "DELIVERED", "FAILED"} \subseteq AssignmentStatuses
        /\ {"OUT_FOR_DELIVERY", "DELIVERED", "FAILED"} \subseteq OrderStatuses
    BY DEF AssignmentOps, AssignmentStatuses, OrderStatuses
  <1>3. QED
    BY <1>1, <1>2

\* The timeout of an offer it read as ASSIGNED will write TIMED_OUT.
LEMMA TimeoutShaped ==
    ASSUME TypeOK, NEW o \in Orders, NEW more \in BOOLEAN,
           asgStatus[o] = "ASSIGNED"
    PROVE  [AsgWrite("handle_timeout", o, "TIMED_OUT") EXCEPT !.more = more]
             \in ShapedWork
  BY DEF AsgWrite, Started, Write, Work, ShapedWork, Shaped, Phases, Operations,
         AnswerOps, AssignmentOps, AssignmentStatuses, Keep, TypeOK

\* The session of a reassignment holds the partner it chose.
LEMMA AssignShaped ==
    ASSUME TypeOK, NEW o \in Orders, NEW p \in Partners, NEW more \in BOOLEAN
    PROVE  [Started("do_assign", o, "commit") EXCEPT
               !.p = p, !.setAsg = "ASSIGNED", !.more = more] \in ShapedWork
  BY DEF Started, Work, ShapedWork, Shaped, Phases, Operations, AnswerOps,
         AssignmentOps, AssignmentStatuses, Keep, TypeOK

-----------------------------------------------------------------------------
(* Type correctness and the shape of sessions *)

\* The initial rows, keys and tasks have their types; every slot is idle.
LEMMA InitTyped == Init => TypeOK /\ SessionsShaped
  BY ConstantsAssumption DEF Init, TypeOK, SessionsShaped

\* A slot is emptied, or filled with a shaped session.
LEMMA SlotTyped ==
    ASSUME SessionsShaped, NEW s \in Sessions, NEW w \in ShapedWork \cup {Idle},
           sess' = [sess EXCEPT ![s] = w]
    PROVE  SessionsShaped' /\ sess' \in [Sessions -> Work \cup {Idle}]
  BY DEF SessionsShaped, ShapedWork

\* A session that is anywhere but idle is a shaped one.
LEMMA BusySession ==
    ASSUME SessionsShaped, NEW s \in Sessions, sess[s].at \in Phases
    PROVE  /\ sess[s] \in ShapedWork
           /\ sess[s] \in Work
           /\ Shaped(sess[s])
           /\ sess[s] # Idle
  BY DEF SessionsShaped, ShapedWork, Idle, Phases

\* A request that only reads: it fills an idle slot with a shaped session of
\* its order and changes nothing else.
OnlyBegins(s, o) ==
    /\ \E w \in ShapedWork :
          /\ Begin(s, w)
          /\ w.o = o
          /\ w.op \in AssignmentOps => asgStatus[o] # NoRow
          /\ w.op \notin {"do_assign", "handle_timeout"}
          /\ w.at = "commit" => w.op \notin AnswerOps
    /\ UNCHANGED <<db, redis, tasks, faults>>

ReadingRequest(s, o) ==
    \/ AcceptOrder(s, o) \/ RejectOrder(s, o)
    \/ MarkPreparing(s, o) \/ MarkReady(s, o)
    \/ CancelOrder(s, o) \/ UpdateStatus(s, o)
    \/ AcceptAssignment(s, o)
    \/ ReachedRestaurant(s, o) \/ PickedUp(s, o) \/ ReachedCustomer(s, o)
    \/ Deliver(s, o) \/ FailDelivery(s, o)

\* Every request but reject_assignment only reads before its transaction ends.
LEMMA RequestOnlyBegins ==
    ASSUME TypeOK, NEW s \in Sessions, NEW o \in Orders, ReadingRequest(s, o)
    PROVE  OnlyBegins(s, o)
  <1> USE DEF OnlyBegins, AnswerOps, AssignmentOps, Operations, Phases
  <1>1. CASE AcceptOrder(s, o)
    <2> DEFINE w == Started("accept_order", o, "read_response")
    <2>1. w \in ShapedWork /\ w.o = o /\ w.op = "accept_order"
      BY StartedShaped, StartedFields
    <2>2. w.at = "commit" => w.op \notin AnswerOps
      BY <2>1, StartedFields
    <2> HIDE DEF w
    <2>3. Begin(s, w) /\ UNCHANGED <<db, redis, tasks, faults>>
      BY <1>1 DEF AcceptOrder, w
    <2>4. w.op \in AssignmentOps => asgStatus[o] # NoRow
      BY <1>1, <2>1 DEF AcceptOrder, NoRow
    <2>5. QED
      BY <2>1, <2>2, <2>3, <2>4
  <1>2. CASE RejectOrder(s, o)
    <2> DEFINE w == Started("reject_order", o, "read_response")
    <2>1. w \in ShapedWork /\ w.o = o /\ w.op = "reject_order"
      BY StartedShaped, StartedFields
    <2>2. w.at = "commit" => w.op \notin AnswerOps
      BY <2>1, StartedFields
    <2> HIDE DEF w
    <2>3. Begin(s, w) /\ UNCHANGED <<db, redis, tasks, faults>>
      BY <1>2 DEF RejectOrder, w
    <2>4. w.op \in AssignmentOps => asgStatus[o] # NoRow
      BY <1>2, <2>1 DEF RejectOrder, NoRow
    <2>5. QED
      BY <2>1, <2>2, <2>3, <2>4
  <1>3. CASE MarkPreparing(s, o)
    <2> DEFINE w == OrderWrite("mark_preparing", o, "PREPARING")
    <2>1. w \in ShapedWork /\ w.o = o /\ w.op = "mark_preparing"
      BY OrderWriteShaped, OrderWriteFields DEF OrderOps, OrderStatuses
    <2>2. w.at = "commit" => w.op \notin AnswerOps
      BY <2>1, OrderWriteFields DEF OrderOps, OrderStatuses
    <2> HIDE DEF w
    <2>3. Begin(s, w) /\ UNCHANGED <<db, redis, tasks, faults>>
      BY <1>3 DEF MarkPreparing, w
    <2>4. w.op \in AssignmentOps => asgStatus[o] # NoRow
      BY <1>3, <2>1 DEF MarkPreparing, NoRow
    <2>5. QED
      BY <2>1, <2>2, <2>3, <2>4
  <1>4. CASE MarkReady(s, o)
    <2> DEFINE w == OrderWrite("mark_ready", o, "READY_FOR_PICKUP")
    <2>1. w \in ShapedWork /\ w.o = o /\ w.op = "mark_ready"
      BY OrderWriteShaped, OrderWriteFields DEF OrderOps, OrderStatuses
    <2>2. w.at = "commit" => w.op \notin AnswerOps
      BY <2>1, OrderWriteFields DEF OrderOps, OrderStatuses
    <2> HIDE DEF w
    <2>3. Begin(s, w) /\ UNCHANGED <<db, redis, tasks, faults>>
      BY <1>4 DEF MarkReady, w
    <2>4. w.op \in AssignmentOps => asgStatus[o] # NoRow
      BY <1>4, <2>1 DEF MarkReady, NoRow
    <2>5. QED
      BY <2>1, <2>2, <2>3, <2>4
  <1>5. CASE CancelOrder(s, o)
    <2> DEFINE w == OrderWrite("cancel_order", o, "CANCELLED")
    <2>1. w \in ShapedWork /\ w.o = o /\ w.op = "cancel_order"
      BY OrderWriteShaped, OrderWriteFields DEF OrderOps, OrderStatuses
    <2>2. w.at = "commit" => w.op \notin AnswerOps
      BY <2>1, OrderWriteFields DEF OrderOps, OrderStatuses
    <2> HIDE DEF w
    <2>3. Begin(s, w) /\ UNCHANGED <<db, redis, tasks, faults>>
      BY <1>5 DEF CancelOrder, w
    <2>4. w.op \in AssignmentOps => asgStatus[o] # NoRow
      BY <1>5, <2>1 DEF CancelOrder, NoRow
    <2>5. QED
      BY <2>1, <2>2, <2>3, <2>4
  <1>6. CASE AcceptAssignment(s, o)
    <2> DEFINE w == Started("accept_assignment", o, "check_offer")
    <2>1. w \in ShapedWork /\ w.o = o /\ w.op = "accept_assignment"
      BY StartedShaped, StartedFields DEF NoRow
    <2>2. w.at = "commit" => w.op \notin AnswerOps
      BY <2>1, StartedFields DEF NoRow
    <2> HIDE DEF w
    <2>3. Begin(s, w) /\ UNCHANGED <<db, redis, tasks, faults>>
      BY <1>6 DEF AcceptAssignment, w
    <2>4. w.op \in AssignmentOps => asgStatus[o] # NoRow
      BY <1>6, <2>1 DEF AcceptAssignment, NoRow
    <2>5. QED
      BY <2>1, <2>2, <2>3, <2>4
  <1>7. CASE ReachedRestaurant(s, o)
    <2> DEFINE w == AsgWrite("reached_restaurant", o, "REACHED_RESTAURANT")
    <2>1. w \in ShapedWork /\ w.o = o /\ w.op = "reached_restaurant"
      BY AsgWriteShaped, AsgWriteFields DEF AssignmentStatuses, NoRow
    <2>2. w.at = "commit" => w.op \notin AnswerOps
      BY <2>1, AsgWriteFields DEF AssignmentStatuses, NoRow
    <2> HIDE DEF w
    <2>3. Begin(s, w) /\ UNCHANGED <<db, redis, tasks, faults>>
      BY <1>7 DEF ReachedRestaurant, w
    <2>4. w.op \in AssignmentOps => asgStatus[o] # NoRow
      BY <1>7, <2>1 DEF ReachedRestaurant, NoRow
    <2>5. QED
      BY <2>1, <2>2, <2>3, <2>4
  <1>8. CASE PickedUp(s, o)
    <2> DEFINE w == DeliveryWrite("picked_up", o, "PICKED_UP", "OUT_FOR_DELIVERY")
    <2>1. w \in ShapedWork /\ w.o = o /\ w.op = "picked_up"
      BY DeliveryWriteShaped, DeliveryWriteFields
      DEF AssignmentStatuses, OrderStatuses, NoRow
    <2>2. w.at = "commit" => w.op \notin AnswerOps
      BY <2>1, DeliveryWriteFields DEF AssignmentStatuses, OrderStatuses, NoRow
    <2> HIDE DEF w
    <2>3. Begin(s, w) /\ UNCHANGED <<db, redis, tasks, faults>>
      BY <1>8 DEF PickedUp, w
    <2>4. w.op \in AssignmentOps => asgStatus[o] # NoRow
      BY <1>8, <2>1 DEF PickedUp, NoRow
    <2>5. QED
      BY <2>1, <2>2, <2>3, <2>4
  <1>9. CASE ReachedCustomer(s, o)
    <2> DEFINE w == AsgWrite("reached_customer", o, "REACHED_CUSTOMER")
    <2>1. w \in ShapedWork /\ w.o = o /\ w.op = "reached_customer"
      BY AsgWriteShaped, AsgWriteFields DEF AssignmentStatuses, NoRow
    <2>2. w.at = "commit" => w.op \notin AnswerOps
      BY <2>1, AsgWriteFields DEF AssignmentStatuses, NoRow
    <2> HIDE DEF w
    <2>3. Begin(s, w) /\ UNCHANGED <<db, redis, tasks, faults>>
      BY <1>9 DEF ReachedCustomer, w
    <2>4. w.op \in AssignmentOps => asgStatus[o] # NoRow
      BY <1>9, <2>1 DEF ReachedCustomer, NoRow
    <2>5. QED
      BY <2>1, <2>2, <2>3, <2>4
  <1>10. CASE Deliver(s, o)
    <2> DEFINE w == DeliveryWrite("deliver", o, "DELIVERED", "DELIVERED")
    <2>1. w \in ShapedWork /\ w.o = o /\ w.op = "deliver"
      BY DeliveryWriteShaped, DeliveryWriteFields
      DEF AssignmentStatuses, OrderStatuses, NoRow
    <2>2. w.at = "commit" => w.op \notin AnswerOps
      BY <2>1, DeliveryWriteFields DEF AssignmentStatuses, OrderStatuses, NoRow
    <2> HIDE DEF w
    <2>3. Begin(s, w) /\ UNCHANGED <<db, redis, tasks, faults>>
      BY <1>10 DEF Deliver, w
    <2>4. w.op \in AssignmentOps => asgStatus[o] # NoRow
      BY <1>10, <2>1 DEF Deliver, NoRow
    <2>5. QED
      BY <2>1, <2>2, <2>3, <2>4
  <1>11. CASE FailDelivery(s, o)
    <2> DEFINE w == DeliveryWrite("fail_delivery", o, "FAILED", "FAILED")
    <2>1. w \in ShapedWork /\ w.o = o /\ w.op = "fail_delivery"
      BY DeliveryWriteShaped, DeliveryWriteFields
      DEF AssignmentStatuses, OrderStatuses, NoRow
    <2>2. w.at = "commit" => w.op \notin AnswerOps
      BY <2>1, DeliveryWriteFields DEF AssignmentStatuses, OrderStatuses, NoRow
    <2> HIDE DEF w
    <2>3. Begin(s, w) /\ UNCHANGED <<db, redis, tasks, faults>>
      BY <1>11 DEF FailDelivery, w
    <2>4. w.op \in AssignmentOps => asgStatus[o] # NoRow
      BY <1>11, <2>1 DEF FailDelivery, NoRow
    <2>5. QED
      BY <2>1, <2>2, <2>3, <2>4
  <1>12. CASE UpdateStatus(s, o)
    <2>1. PICK new \in ValidTransitions[order[o]] :
              Begin(s, OrderWrite("update_status", o, new))
      BY <1>12 DEF UpdateStatus
    <2>2. new \in OrderStatuses
      BY <1>12, <2>1
      DEF UpdateStatus, ValidTransitions, OrderStatuses, NoRow, TypeOK
    <2> DEFINE w == OrderWrite("update_status", o, new)
    <2>3. w \in ShapedWork /\ w.o = o /\ w.op = "update_status"
      BY <2>2, OrderWriteShaped, OrderWriteFields DEF OrderOps
    <2> HIDE DEF w
    <2>4. Begin(s, w) /\ UNCHANGED <<db, redis, tasks, faults>>
      BY <1>12, <2>1 DEF UpdateStatus, w
    <2>5. QED
      BY <2>3, <2>4
  <1>13. QED
    BY <1>1, <1>2, <1>3, <1>4, <1>5, <1>6, <1>7, <1>8, <1>9, <1>10, <1>11, <1>12
    DEF ReadingRequest

\* One step keeps the types and the shape of sessions.
LEMMA TypedStep ==
    ASSUME TypeOK, SessionsShaped, AssignmentRows, [Next]_vars
    PROVE  TypeOK' /\ SessionsShaped'
  <1> USE DEF db, redis, tasks
  <1>1. ASSUME NEW o \in Orders, PlaceOrder(o)
        PROVE  TypeOK' /\ SessionsShaped'
    BY <1>1 DEF PlaceOrder, TypeOK, SessionsShaped, OrderStatuses
  <1>2. ASSUME NEW os \in SUBSET Orders, PlaceOrdersForCart(os)
        PROVE  TypeOK' /\ SessionsShaped'
    BY <1>2 DEF PlaceOrdersForCart, TypeOK, SessionsShaped, OrderStatuses
  <1>3. ASSUME NEW s \in Sessions, NEW o \in Orders, ReadingRequest(s, o)
        PROVE  TypeOK' /\ SessionsShaped'
    <2>1. PICK w \in ShapedWork : Begin(s, w)
      BY <1>3, RequestOnlyBegins DEF OnlyBegins
    <2>2. UNCHANGED <<db, redis, tasks, faults>>
      BY <1>3, RequestOnlyBegins DEF OnlyBegins
    <2>3. SessionsShaped' /\ sess' \in [Sessions -> Work \cup {Idle}]
      BY <2>1, SlotTyped DEF Begin
    <2>4. QED
      BY <2>2, <2>3 DEF TypeOK
  <1>4. ASSUME NEW s \in Sessions, NEW o \in Orders, RejectAssignment(s, o)
        PROVE  TypeOK' /\ SessionsShaped'
    <2>1. SessionsShaped' /\ sess' \in [Sessions -> Work \cup {Idle}]
      BY <1>4, AsgWriteShaped, SlotTyped DEF RejectAssignment, Begin
    <2>2. assignTasks' \in [Orders -> Nat]
      BY <1>4 DEF RejectAssignment, TypeOK
    <2>3. offerKeys' \subseteq Partners
      BY <1>4 DEF RejectAssignment, TypeOK
    <2>4. asgPartner[o] \in Partners
      BY <1>4 DEF RejectAssignment, AssignmentRows, NoRow
    <2>5. rejected' \in [Orders -> SUBSET Partners]
      BY <1>4, <2>4 DEF RejectAssignment, TypeOK
    <2>6. QED
      BY <1>4, <2>1, <2>2, <2>3, <2>5 DEF RejectAssignment, TypeOK
  <1>5. ASSUME NEW s \in Sessions, NEW o \in Orders, AutoReject(s, o)
        PROVE  TypeOK' /\ SessionsShaped'
    <2>1. CASE order[o] = "PLACED"
      <3>1. SessionsShaped' /\ sess' \in [Sessions -> Work \cup {Idle}]
        BY <1>5, <2>1, StartedShaped, SlotTyped
        DEF AutoReject, Begin, AnswerOps
      <3>2. QED
        BY <1>5, <3>1 DEF AutoReject, TypeOK
    <2>2. CASE order[o] # "PLACED"
      BY <1>5, <2>2 DEF AutoReject, TypeOK, SessionsShaped
    <2>3. QED
      BY <2>1, <2>2
  <1>6. ASSUME NEW s \in Sessions, NEW o \in Orders, DoAssign(s, o)
        PROVE  TypeOK' /\ SessionsShaped'
    <2>1. assignTasks' \in [Orders -> Nat]
      <3>1. /\ assignTasks[o] > 0
            /\ assignTasks' = [assignTasks EXCEPT ![o] = @ - 1]
        BY <1>6 DEF DoAssign
      <3>2. assignTasks \in [Orders -> Nat]
        BY DEF TypeOK
      <3>3. assignTasks[o] - 1 \in Nat
        BY <3>1, <3>2
      <3>4. QED
        BY <3>1, <3>2, <3>3
    <2>2. unassigned' \subseteq Orders
      BY <1>6 DEF DoAssign, TypeOK
    <2>3. SessionsShaped' /\ sess' \in [Sessions -> Work \cup {Idle}]
      <3>1. CASE UNCHANGED sess
        BY <3>1 DEF TypeOK, SessionsShaped
      <3>2. CASE \E p \in Eligible(o) : \E more \in BOOLEAN :
                    Begin(s, [Started("do_assign", o, "commit") EXCEPT
                                !.p = p, !.setAsg = "ASSIGNED", !.more = more])
        BY <3>2, AssignShaped, SlotTyped DEF Begin, Eligible
      <3>3. QED
        BY <1>6, <3>1, <3>2 DEF DoAssign
    <2>4. QED
      BY <1>6, <2>1, <2>2, <2>3 DEF DoAssign, TypeOK
  <1>7. ASSUME NEW s \in Sessions, NEW o \in Orders, HandleTimeout(s, o)
        PROVE  TypeOK' /\ SessionsShaped'
    <2>1. offerTimer' \in [Orders -> {"off", "more", "last"}]
      BY <1>7 DEF HandleTimeout, TypeOK
    <2>2. CASE asgStatus[o] = "ASSIGNED"
      <3>1. SessionsShaped' /\ sess' \in [Sessions -> Work \cup {Idle}]
        BY <1>7, <2>2, TimeoutShaped, SlotTyped DEF HandleTimeout, Begin
      <3>2. rejected' \in [Orders -> SUBSET Partners]
        BY <1>7, <2>2 DEF HandleTimeout, TypeOK, AssignmentRows, NoRow
      <3>3. QED
        BY <1>7, <2>1, <3>1, <3>2 DEF HandleTimeout, TypeOK
    <2>3. CASE asgStatus[o] # "ASSIGNED"
      BY <1>7, <2>1, <2>3 DEF HandleTimeout, TypeOK, SessionsShaped
    <2>4. QED
      BY <2>2, <2>3
  <1>8. ASSUME NEW s \in Sessions, NEW o \in Orders, FailOrder(s, o)
        PROVE  TypeOK' /\ SessionsShaped'
    <2>1. SessionsShaped' /\ sess' \in [Sessions -> Work \cup {Idle}]
      <3>1. CASE UNCHANGED sess
        BY <3>1 DEF TypeOK, SessionsShaped
      <3>2. CASE Begin(s, OrderWrite("fail_order", o, "FAILED"))
        BY <3>2, OrderWriteShaped, SlotTyped DEF Begin, OrderOps, OrderStatuses
      <3>3. QED
        BY <1>8, <3>1, <3>2 DEF FailOrder
    <2>2. QED
      BY <1>8, <2>1 DEF FailOrder, TypeOK
  <1>9. ASSUME NEW s \in Sessions, ReadResponse(s)
        PROVE  TypeOK' /\ SessionsShaped'
    <2> DEFINE w == [sess[s] EXCEPT
                       !.at = "commit",
                       !.setOrder = IF sess[s].op = "accept_order"
                                    THEN "CONFIRMED" ELSE "CANCELLED",
                       !.setResponse = IF response[sess[s].o] = NoRow
                                       THEN Answer(sess[s].op) ELSE Keep]
    <2>1. sess[s] \in Work /\ Shaped(sess[s]) /\ sess[s].at = "read_response"
      BY <1>9, BusySession DEF ReadResponse, Phases
    <2>2. w \in ShapedWork
      <3>1. sess[s].op \in AnswerOps
        BY <2>1 DEF Shaped
      <3>2. /\ Answer(sess[s].op) \in ResponseActions
            /\ {"CONFIRMED", "CANCELLED"} \subseteq OrderStatuses
            /\ "commit" \in Phases
        BY DEF Answer, ResponseActions, OrderStatuses, Phases
      <3>3. w \in Work
        BY <2>1, <3>2 DEF Work
      <3>4. w.at = "commit" /\ w.op = sess[s].op /\ w.setAsg = sess[s].setAsg
        BY <2>1 DEF Work
      <3> HIDE DEF w
      <3>5. Shaped(w)
        BY <2>1, <3>1, <3>4 DEF Shaped, AnswerOps
      <3>6. QED
        BY <3>3, <3>5 DEF ShapedWork
    <2>3. sess' = [sess EXCEPT ![s] = w]
      BY <1>9 DEF ReadResponse, SessionsShaped
    <2> HIDE DEF w
    <2>4. SessionsShaped' /\ sess' \in [Sessions -> Work \cup {Idle}]
      BY <2>2, <2>3, SlotTyped
    <2>5. QED
      BY <1>9, <2>4 DEF ReadResponse, TypeOK
  <1>10. ASSUME NEW s \in Sessions, TakeOffer(s)
         PROVE  TypeOK' /\ SessionsShaped'
    <2> DEFINE w == [sess[s] EXCEPT !.at = "commit", !.setAsg = "ACCEPTED"]
    <2>1. sess[s] \in Work /\ Shaped(sess[s]) /\ sess[s].at = "take_offer"
      BY <1>10, BusySession DEF TakeOffer, Phases
    <2>2. w \in ShapedWork
      BY <2>1 DEF Work, ShapedWork, Shaped, AnswerOps, AssignmentOps,
                  AssignmentStatuses, Phases, Keep
    <2>3. sess' = [sess EXCEPT ![s] = w]
      BY <1>10 DEF TakeOffer, SessionsShaped
    <2> HIDE DEF w
    <2>4. SessionsShaped' /\ sess' \in [Sessions -> Work \cup {Idle}]
      BY <2>2, <2>3, SlotTyped
    <2>5. QED
      BY <1>10, <2>4 DEF TakeOffer, TypeOK
  <1>10a. ASSUME NEW s \in Sessions, CheckOffer(s)
         PROVE  TypeOK' /\ SessionsShaped'
    <2> DEFINE w == [sess[s] EXCEPT !.at = "take_offer"]
    <2>1. sess[s] \in Work /\ Shaped(sess[s]) /\ sess[s].at = "check_offer"
      BY <1>10a, BusySession DEF CheckOffer, Phases
    <2>2. w \in ShapedWork
      BY <2>1 DEF Work, ShapedWork, Shaped, Phases
    <2>3. \/ sess' = [sess EXCEPT ![s] = w]
          \/ sess' = [sess EXCEPT ![s] = Idle]
      BY <1>10a DEF CheckOffer
    <2> HIDE DEF w
    <2>4. SessionsShaped' /\ sess' \in [Sessions -> Work \cup {Idle}]
      BY <2>2, <2>3, SlotTyped
    <2>5. QED
      BY <1>10a, <2>4 DEF CheckOffer, TypeOK
  <1>11. ASSUME NEW s \in Sessions, StoreOffer(s)
         PROVE  TypeOK' /\ SessionsShaped'
    <2> DEFINE w == [sess[s] EXCEPT !.at = "arm_timer"]
    <2>1. sess[s] \in Work /\ Shaped(sess[s]) /\ sess[s].at = "store_offer"
      BY <1>11, BusySession DEF StoreOffer, Phases
    <2>2. w \in ShapedWork
      BY <2>1 DEF Work, ShapedWork, Shaped, Phases
    <2>3. sess' = [sess EXCEPT ![s] = w]
      BY <1>11 DEF StoreOffer, SessionsShaped
    <2> HIDE DEF w
    <2>4. SessionsShaped' /\ sess' \in [Sessions -> Work \cup {Idle}]
      BY <2>2, <2>3, SlotTyped
    <2>5. sess[s].p \in Partners
      BY <2>1 DEF Shaped
    <2>6. QED
      BY <1>11, <2>4, <2>5 DEF StoreOffer, TypeOK
  <1>12. ASSUME NEW s \in Sessions, ArmTimer(s)
         PROVE  TypeOK' /\ SessionsShaped'
    <2>1. SessionsShaped' /\ sess' \in [Sessions -> Work \cup {Idle}]
      BY <1>12, SlotTyped DEF ArmTimer
    <2>2. offerTimer' \in [Orders -> {"off", "more", "last"}]
      BY <1>12 DEF ArmTimer, TypeOK
    <2>3. QED
      BY <1>12, <2>1, <2>2 DEF ArmTimer, TypeOK
  <1>13. ASSUME NEW s \in Sessions, Commit(s)
         PROVE  TypeOK' /\ SessionsShaped'
    <2> DEFINE w == sess[s]
    <2>1. w \in Work /\ Shaped(w) /\ w.at = "commit"
      BY <1>13, BusySession DEF Commit, Phases
    <2>2. SessionsShaped' /\ sess' \in [Sessions -> Work \cup {Idle}]
      <3>1. [w EXCEPT !.at = "store_offer"] \in Work
        BY <2>1 DEF Work, Phases
      <3>2. w.op = "do_assign" => Shaped([w EXCEPT !.at = "store_offer"])
        BY <2>1 DEF Work, Shaped
      <3>3. QED
        BY <1>13, <3>1, <3>2, SlotTyped DEF Commit, AfterCommit, ShapedWork
    <2>3. assignTasks' \in [Orders -> Nat] /\ failTasks' \subseteq Orders
      BY <1>13, <2>1 DEF Commit, AfterCommit, TypeOK, Work
    <2>4. order' \in [Orders -> OrderStatuses \cup {NoRow}]
      BY <1>13, <2>1 DEF Commit, Updated, TypeOK, Work
    <2>5. response' \in [Orders -> ResponseActions \cup {NoRow}]
      BY <1>13, <2>1 DEF Commit, Updated, TypeOK, Work
    <2>6. asgStatus' \in [Orders -> AssignmentStatuses \cup {NoRow}]
      BY <1>13, <2>1 DEF Commit, Updated, TypeOK, Work
    <2>7. asgPartner' \in [Orders -> Partners \cup {NoPartner}]
      BY <1>13, <2>1 DEF Commit, TypeOK, Work
    <2>8. otpUsed' \in [Orders -> BOOLEAN] /\ earnings' \in [Orders -> Nat]
      BY <1>13, <2>1 DEF Commit, TypeOK, Work
    <2>9. QED
      BY <1>13, <2>2, <2>3, <2>4, <2>5, <2>6, <2>7, <2>8
      DEF Commit, AfterCommit, TypeOK
  <1>14. ASSUME NEW s \in Sessions, Rollback(s) \/ Abort(s)
         PROVE  TypeOK' /\ SessionsShaped'
    <2>1. SessionsShaped' /\ sess' \in [Sessions -> Work \cup {Idle}]
      BY <1>14, SlotTyped DEF Rollback, Abort
    <2>2. QED
      BY <1>14, <2>1 DEF Rollback, Abort, TypeOK
  <1>15. CASE Restart
    BY <1>15 DEF Restart, TypeOK, SessionsShaped
  <1>16. CASE Expiry
    BY <1>16 DEF Expiry, ExpireOffer, ExpireRejected, ExpireUnassigned, TypeOK,
                 SessionsShaped
  <1>17. CASE UNCHANGED vars
    BY <1>17 DEF vars, TypeOK, SessionsShaped
  <1>18. QED
    BY <1>1, <1>2, <1>3, <1>4, <1>5, <1>6, <1>7, <1>8, <1>9, <1>10, <1>11,
       <1>12, <1>13, <1>14, <1>15, <1>16, <1>17, <1>10a
    DEF Next, Placement, Requests, ReadingRequest, BackgroundTasks, Continue,
        Faults

-----------------------------------------------------------------------------
(* What the steps have in common, for the invariants about rows *)

\* What a session that has just been opened can be.
Opened(w, o) ==
    /\ w.o = o
    /\ w.op \in AssignmentOps \ {"do_assign"} => asgStatus[o] # NoRow
    /\ w.op = "do_assign" => assignTasks[o] > 0
    /\ w.at = "commit" => w.op \notin AnswerOps

\* A step that opens at most one session and touches no row.
Opens(s, o) ==
    /\ UNCHANGED db
    /\ \/ UNCHANGED sess
       \/ \E w \in ShapedWork : Begin(s, w) /\ Opened(w, o)
    /\ \A x \in Orders :
          assignTasks'[x] > 0 => assignTasks[x] > 0 \/ asgStatus[x] # NoRow

BackgroundStart(s, o) ==
    \/ RejectAssignment(s, o) \/ AutoReject(s, o) \/ DoAssign(s, o)
    \/ HandleTimeout(s, o) \/ FailOrder(s, o)

\* Requests and tasks that start a handler open a session.
LEMMA StartOpens ==
    ASSUME TypeOK, SessionsShaped, NEW s \in Sessions, NEW o \in Orders,
           ReadingRequest(s, o) \/ BackgroundStart(s, o)
    PROVE  Opens(s, o)
  <1>1. CASE ReadingRequest(s, o)
    BY <1>1, RequestOnlyBegins DEF OnlyBegins, Opens, Opened, tasks
  <1>2. CASE RejectAssignment(s, o)
    <2> DEFINE w == AsgWrite("reject_assignment", o, "REJECTED")
    <2>1. /\ w \in ShapedWork
          /\ w.o = o /\ w.op = "reject_assignment"
      BY AsgWriteShaped, AsgWriteFields DEF Operations, AssignmentStatuses
    <2>2. Begin(s, w) /\ asgStatus[o] = "ASSIGNED" /\ UNCHANGED db
      BY <1>2 DEF RejectAssignment
    <2> HIDE DEF w
    <2>3. Opened(w, o)
      BY <2>1, <2>2 DEF Opened, AnswerOps, NoRow
    <2>4. \A x \in Orders :
            assignTasks'[x] > 0 => assignTasks[x] > 0 \/ asgStatus[x] # NoRow
      BY <1>2, <2>2 DEF RejectAssignment, TypeOK, NoRow
    <2>5. QED
      BY <2>1, <2>2, <2>3, <2>4 DEF Opens
  <1>3. CASE AutoReject(s, o)
    <2> DEFINE w == Started("reject_order", o, "read_response")
    <2>1. /\ w \in ShapedWork
          /\ w.o = o /\ w.op = "reject_order" /\ w.at = "read_response"
      BY StartedShaped, StartedFields DEF AnswerOps, Operations, Phases
    <2>2. /\ UNCHANGED sess \/ Begin(s, w)
          /\ UNCHANGED db /\ UNCHANGED assignTasks
      BY <1>3 DEF AutoReject
    <2> HIDE DEF w
    <2>3. Opened(w, o)
      BY <2>1 DEF Opened, AssignmentOps
    <2>4. QED
      BY <2>1, <2>2, <2>3 DEF Opens
  <1>4. CASE DoAssign(s, o)
    <2>1. UNCHANGED db /\ assignTasks[o] > 0
      BY <1>4 DEF DoAssign
    <2>2. \A x \in Orders : assignTasks'[x] > 0 => assignTasks[x] > 0
      BY <1>4 DEF DoAssign, TypeOK
    <2>3. ASSUME NEW p \in Eligible(o), NEW more \in BOOLEAN,
                 Begin(s, [Started("do_assign", o, "commit") EXCEPT
                             !.p = p, !.setAsg = "ASSIGNED", !.more = more])
          PROVE  \E w \in ShapedWork : Begin(s, w) /\ Opened(w, o)
      <3> DEFINE w == [Started("do_assign", o, "commit") EXCEPT
                         !.p = p, !.setAsg = "ASSIGNED", !.more = more]
      <3>1. w \in ShapedWork
        BY AssignShaped DEF Eligible
      <3>2. w.o = o /\ w.op = "do_assign"
        BY DEF Started
      <3> HIDE DEF w
      <3>3. Opened(w, o)
        BY <2>1, <3>2 DEF Opened, AnswerOps
      <3>4. QED
        BY <2>3, <3>1, <3>3 DEF w
    <2>4. UNCHANGED sess \/ \E w \in ShapedWork : Begin(s, w) /\ Opened(w, o)
      BY <1>4, <2>3 DEF DoAssign
    <2>5. QED
      BY <2>1, <2>2, <2>4 DEF Opens
  <1>5. CASE HandleTimeout(s, o)
    <2> DEFINE w == [AsgWrite("handle_timeout", o, "TIMED_OUT") EXCEPT
                       !.more = (offerTimer[o] = "more")]
    <2>1. /\ \/ UNCHANGED sess
             \/ asgStatus[o] = "ASSIGNED" /\ Begin(s, w)
          /\ UNCHANGED db /\ UNCHANGED assignTasks
      BY <1>5 DEF HandleTimeout
    <2>2. CASE UNCHANGED sess
      BY <2>1, <2>2 DEF Opens
    <2>3. CASE asgStatus[o] = "ASSIGNED" /\ Begin(s, w)
      <3>1. w \in ShapedWork
        BY <2>3, TimeoutShaped
      <3>2. w.o = o /\ w.op = "handle_timeout"
        BY DEF AsgWrite, Started
      <3> HIDE DEF w
      <3>3. Opened(w, o)
        BY <2>3, <3>2 DEF Opened, AnswerOps, NoRow
      <3>4. QED
        BY <2>1, <2>3, <3>1, <3>3 DEF Opens
    <2>4. QED
      BY <2>1, <2>2, <2>3
  <1>6. CASE FailOrder(s, o)
    <2> DEFINE w == OrderWrite("fail_order", o, "FAILED")
    <2>1. /\ w \in ShapedWork
          /\ w.o = o /\ w.op = "fail_order"
      BY OrderWriteShaped, OrderWriteFields
      DEF OrderOps, Operations, OrderStatuses
    <2>2. /\ UNCHANGED sess \/ Begin(s, w)
          /\ UNCHANGED db /\ UNCHANGED assignTasks
      BY <1>6 DEF FailOrder
    <2> HIDE DEF w
    <2>3. Opened(w, o)
      BY <2>1 DEF Opened, AssignmentOps, AnswerOps
    <2>4. QED
      BY <2>1, <2>2, <2>3 DEF Opens
  <1>7. QED
    BY <1>1, <1>2, <1>3, <1>4, <1>5, <1>6 DEF BackgroundStart

\* A step that neither opens a session nor commits one leaves the rows of the
\* assignment alone and keeps the operation and order of every session that
\* it does not end.
Passes ==
    /\ UNCHANGED <<response, asgStatus, asgPartner, otpUsed, earnings>>
    /\ \A x \in Orders : assignTasks'[x] > 0 => assignTasks[x] > 0
    /\ \A t \in Sessions : sess'[t] # Idle =>
          /\ sess[t] # Idle
          /\ sess'[t].op = sess[t].op
          /\ sess'[t].o = sess[t].o
          /\ \/ sess'[t] = sess[t]
             \/ sess'[t].op # "accept_order"
             \/ sess'[t].setResponse = Keep => response[sess[t].o] # NoRow

\* Every step opens a session, commits one, or passes the rows by.
LEMMA NextKinds ==
    ASSUME TypeOK, SessionsShaped, [Next]_vars
    PROVE  \/ \E s \in Sessions : \E o \in Orders : Opens(s, o)
           \/ \E s \in Sessions : Commit(s)
           \/ Passes
  <1> USE DEF db, redis, tasks
  <1>1. CASE Placement \/ Expiry \/ UNCHANGED vars
    BY <1>1 DEF Placement, PlaceOrder, PlaceOrdersForCart, Expiry, ExpireOffer,
                ExpireRejected, ExpireUnassigned, vars, Passes
  <1>2. ASSUME NEW s \in Sessions, Requests(s) \/ BackgroundTasks(s)
        PROVE  \E o \in Orders : Opens(s, o)
    BY <1>2, StartOpens DEF Requests, BackgroundTasks, ReadingRequest,
                            BackgroundStart
  <1>3. ASSUME NEW s \in Sessions, ReadResponse(s)
        PROVE  Passes
    <2>1. sess[s] \in Work /\ sess[s] # Idle
      BY <1>3, BusySession DEF ReadResponse, Phases
    <2>2. \A t \in Sessions \ {s} : sess'[t] = sess[t]
      BY <1>3 DEF ReadResponse, SessionsShaped
    <2>3. /\ sess'[s].op = sess[s].op
          /\ sess'[s].o = sess[s].o
          /\ sess'[s].setResponse = IF response[sess[s].o] = NoRow
                                    THEN Answer(sess[s].op) ELSE Keep
      BY <1>3, <2>1 DEF ReadResponse, SessionsShaped, Work
    <2>4. Answer(sess[s].op) # Keep
      BY DEF Answer, Keep
    <2>5. QED
      BY <1>3, <2>1, <2>2, <2>3, <2>4 DEF ReadResponse, Passes
  <1>3a. ASSUME NEW s \in Sessions, CheckOffer(s)
        PROVE  Passes
    <2>1. /\ sess[s] \in Work /\ sess[s] # Idle
          /\ sess[s].op = "accept_assignment"
      BY <1>3a, BusySession DEF CheckOffer, Phases, Shaped
    <2>2. \A t \in Sessions \ {s} : sess'[t] = sess[t]
      BY <1>3a DEF CheckOffer, SessionsShaped
    <2>3. sess'[s] \in {Idle, [sess[s] EXCEPT !.at = "take_offer"]}
      BY <1>3a DEF CheckOffer, SessionsShaped
    <2>4. sess'[s] # Idle => sess'[s].op = sess[s].op /\ sess'[s].o = sess[s].o
      BY <2>1, <2>3 DEF Work
    <2>5. QED
      BY <1>3a, <2>1, <2>2, <2>4 DEF CheckOffer, Passes
  <1>4. ASSUME NEW s \in Sessions, TakeOffer(s) \/ StoreOffer(s)
        PROVE  Passes
    <2>1. /\ sess[s] \in Work /\ sess[s] # Idle
          /\ sess[s].op # "accept_order"
      BY <1>4, BusySession DEF TakeOffer, StoreOffer, Phases, Shaped
    <2>2. \A t \in Sessions \ {s} : sess'[t] = sess[t]
      BY <1>4 DEF TakeOffer, StoreOffer, SessionsShaped
    <2>3. sess'[s].op = sess[s].op /\ sess'[s].o = sess[s].o
      BY <1>4, <2>1 DEF TakeOffer, StoreOffer, SessionsShaped, Work
    <2>4. QED
      BY <1>4, <2>1, <2>2, <2>3 DEF TakeOffer, StoreOffer, Passes
  <1>5. ASSUME NEW s \in Sessions, ArmTimer(s) \/ Rollback(s) \/ Abort(s)
        PROVE  Passes
    <2>1. \A t \in Sessions \ {s} : sess'[t] = sess[t]
      BY <1>5 DEF ArmTimer, Rollback, Abort, SessionsShaped
    <2>2. sess'[s] = Idle
      BY <1>5 DEF ArmTimer, Rollback, Abort, SessionsShaped
    <2>3. QED
      BY <1>5, <2>1, <2>2 DEF ArmTimer, Rollback, Abort, Passes
  <1>6. CASE Restart
    BY <1>6 DEF Restart, Passes, TypeOK
  <1>7. QED
    BY <1>1, <1>2, <1>3, <1>4, <1>5, <1>6, <1>3a DEF Next, Continue, Faults

-----------------------------------------------------------------------------
(* What a commit does to the rows *)

\* Only the session's own order changes, a row never disappears, and only
\* do_assign has steps left after its commit.
LEMMA CommitFacts ==
    ASSUME TypeOK, SessionsShaped, NEW s \in Sessions, Commit(s)
    PROVE  /\ sess[s] \in Work
           /\ Shaped(sess[s])
           /\ sess[s] # Idle
           /\ ~Conflict(sess[s])
           /\ sess[s].o \in Orders
           /\ \A x \in Orders \ {sess[s].o} :
                 /\ response'[x] = response[x]
                 /\ asgStatus'[x] = asgStatus[x]
                 /\ asgPartner'[x] = asgPartner[x]
                 /\ otpUsed'[x] = otpUsed[x]
                 /\ earnings'[x] = earnings[x]
                 /\ assignTasks'[x] = assignTasks[x]
           /\ response'[sess[s].o]
                 = Updated(response[sess[s].o], sess[s].setResponse)
           /\ asgStatus'[sess[s].o]
                 = Updated(asgStatus[sess[s].o], sess[s].setAsg)
           /\ response[sess[s].o] # NoRow => response'[sess[s].o] # NoRow
           /\ asgStatus[sess[s].o] # NoRow => asgStatus'[sess[s].o] # NoRow
           /\ \A t \in Sessions \ {s} : sess'[t] = sess[t]
           /\ sess[s].op # "do_assign" => sess'[s] = Idle
           /\ sess[s].op = "do_assign" =>
                 /\ sess'[s] # Idle
                 /\ sess'[s].op = "do_assign"
                 /\ sess'[s].at = "store_offer"
                 /\ sess'[s].o = sess[s].o
  <1> DEFINE w == sess[s]
  <1>1. w \in Work /\ Shaped(w) /\ w # Idle
    BY BusySession DEF Commit, Phases
  <1>2. w.o \in Orders /\ ~Conflict(w)
    BY <1>1 DEF Commit, Work
  <1>3. \A x \in Orders \ {w.o} :
          /\ response'[x] = response[x]
          /\ asgStatus'[x] = asgStatus[x]
          /\ asgPartner'[x] = asgPartner[x]
          /\ otpUsed'[x] = otpUsed[x]
          /\ earnings'[x] = earnings[x]
          /\ assignTasks'[x] = assignTasks[x]
    BY <1>2 DEF Commit, AfterCommit, TypeOK
  <1>4. /\ response'[w.o] = Updated(response[w.o], w.setResponse)
        /\ asgStatus'[w.o] = Updated(asgStatus[w.o], w.setAsg)
    BY <1>2 DEF Commit, TypeOK
  <1>5. /\ response[w.o] # NoRow => response'[w.o] # NoRow
        /\ asgStatus[w.o] # NoRow => asgStatus'[w.o] # NoRow
    BY <1>1, <1>4
    DEF Updated, Work, ResponseActions, AssignmentStatuses, NoRow, Keep
  <1>6. \A t \in Sessions \ {s} : sess'[t] = sess[t]
    BY DEF Commit, AfterCommit, SessionsShaped
  <1>7. w.op # "do_assign" => sess'[s] = Idle
    BY DEF Commit, AfterCommit, SessionsShaped
  <1>8. ASSUME w.op = "do_assign"
        PROVE  /\ sess'[s] # Idle
               /\ sess'[s].op = "do_assign"
               /\ sess'[s].at = "store_offer"
               /\ sess'[s].o = w.o
    <2>1. sess'[s] = [w EXCEPT !.at = "store_offer"]
      BY <1>8 DEF Commit, AfterCommit, SessionsShaped
    <2>2. QED
      BY <1>1, <1>8, <2>1 DEF Work, Idle
  <1>9. QED
    BY <1>1, <1>2, <1>3, <1>4, <1>5, <1>6, <1>7, <1>8

-----------------------------------------------------------------------------
(* Every step preserves the invariants about rows *)

\* AssignmentRows is kept: a row comes from do_assign, with its partner.
LEMMA RowsStep ==
    ASSUME TypeOK, SessionsShaped, AssignmentRows, [Next]_vars
    PROVE  AssignmentRows'
  <1>1. ASSUME NEW s \in Sessions, NEW o \in Orders, Opens(s, o)
        PROVE  AssignmentRows'
    BY <1>1 DEF Opens, Opened, Begin, db, SessionsShaped, AssignmentRows
  <1>2. ASSUME NEW s \in Sessions, Commit(s)
        PROVE  AssignmentRows'
    <2> DEFINE w == sess[s]
    <2>1. w.op = "do_assign" => asgStatus[w.o] = NoRow /\ w.p \in Partners
      BY <1>2, CommitFacts DEF Conflict, Shaped
    <2>2. asgPartner'[w.o] = IF w.op = "do_assign" THEN w.p ELSE asgPartner[w.o]
      BY <1>2, CommitFacts DEF Commit, TypeOK
    <2>3. ASSUME asgStatus'[w.o] # NoRow
          PROVE  asgPartner'[w.o] \in Partners
      <3>1. CASE asgStatus[w.o] # NoRow
        BY <1>2, <2>1, <2>2, <3>1, CommitFacts DEF AssignmentRows
      <3>2. CASE asgStatus[w.o] = NoRow
        <4>1. w.setAsg # Keep
          BY <1>2, <2>3, <3>2, CommitFacts DEF Updated
        <4>2. w.op \in AssignmentOps
          BY <1>2, <4>1, CommitFacts DEF Shaped
        <4>3. w.op = "do_assign"
          BY <1>2, <3>2, <4>2, CommitFacts DEF AssignmentRows
        <4>4. QED
          BY <2>1, <2>2, <4>3
      <3>3. QED
        BY <3>1, <3>2
    <2>4. \A x \in Orders : asgStatus'[x] # NoRow => asgPartner'[x] \in Partners
      BY <1>2, <2>3, CommitFacts DEF AssignmentRows
    <2>5. \A x \in Orders : asgStatus[x] # NoRow => asgStatus'[x] # NoRow
      BY <1>2, CommitFacts
    <2>6. \A t \in Sessions :
            sess'[t] # Idle /\ sess'[t].op \in AssignmentOps \ {"do_assign"}
            => asgStatus'[sess'[t].o] # NoRow
      <3>1. ASSUME NEW t \in Sessions, sess[t] # Idle
            PROVE  sess[t].o \in Orders
        BY <3>1 DEF SessionsShaped, ShapedWork, Work
      <3>2. QED
        BY <1>2, <2>5, <3>1, CommitFacts DEF AssignmentRows
    <2>7. QED
      BY <2>4, <2>6 DEF AssignmentRows
  <1>3. CASE Passes
    BY <1>3 DEF Passes, AssignmentRows
  <1>4. QED
    BY <1>1, <1>2, <1>3, NextKinds

\* AnsweredFirst is kept: accept_order commits the answer before it starts the
\* dispatch task, and every later dispatch starts from an assignment row.
LEMMA AnsweredStep ==
    ASSUME TypeOK, SessionsShaped, AssignmentRows, AnsweredFirst, [Next]_vars
    PROVE  AnsweredFirst'
  <1>1. ASSUME NEW s \in Sessions, NEW o \in Orders, Opens(s, o)
        PROVE  AnsweredFirst'
    <2>1. \A x \in Orders :
            asgStatus'[x] # NoRow \/ assignTasks'[x] > 0 => response'[x] # NoRow
      BY <1>1 DEF Opens, db, AnsweredFirst
    <2>2. UNCHANGED response
      BY <1>1 DEF Opens, db
    <2>3. ASSUME NEW w \in ShapedWork, Begin(s, w), Opened(w, o)
          PROVE  AnsweredFirst'
      <3>1. w.op \in AssignmentOps => response[w.o] # NoRow
        BY <2>3 DEF Opened, AnsweredFirst
      <3>2. sess'[s] = w /\ \A t \in Sessions \ {s} : sess'[t] = sess[t]
        BY <2>3 DEF Begin, SessionsShaped
      <3>3. w.at = "commit" => w.op # "accept_order"
        BY <2>3 DEF Opened, AnswerOps
      <3>4. QED
        BY <2>1, <2>2, <3>1, <3>2, <3>3 DEF AnsweredFirst
    <2>4. CASE UNCHANGED sess
      BY <2>1, <2>2, <2>4 DEF AnsweredFirst
    <2>5. QED
      BY <1>1, <2>3, <2>4 DEF Opens
  <1>2. ASSUME NEW s \in Sessions, Commit(s)
        PROVE  AnsweredFirst'
    <2> DEFINE w == sess[s]
    <2>1. \A x \in Orders : response[x] # NoRow => response'[x] # NoRow
      BY <1>2, CommitFacts
    <2>2. asgStatus'[w.o] # NoRow => response'[w.o] # NoRow
      <3>1. asgStatus[w.o] # NoRow \/ w.setAsg = Keep
              \/ w.op \in AssignmentOps
        BY <1>2, CommitFacts DEF Shaped
      <3>2. QED
        BY <1>2, <2>1, <3>1, CommitFacts DEF AnsweredFirst, Updated
    <2>3. assignTasks'[w.o] > 0 => response'[w.o] # NoRow
      <3>1. CASE w.op = "accept_order"
        <4>1. CASE w.setResponse = Keep
          BY <1>2, <2>1, <3>1, <4>1, CommitFacts DEF AnsweredFirst, Commit
        <4>2. CASE w.setResponse # Keep
          BY <1>2, <4>2, CommitFacts
          DEF Updated, Work, ResponseActions, NoRow, Keep
        <4>3. QED
          BY <4>1, <4>2
      <3>2. CASE w.op = "handle_timeout"
        BY <1>2, <2>1, <3>2, CommitFacts DEF AnsweredFirst, AssignmentOps
      <3>3. CASE w.op \notin {"accept_order", "handle_timeout"}
        BY <1>2, <2>1, <3>3, CommitFacts DEF AnsweredFirst, Commit, AfterCommit
      <3>4. QED
        BY <3>1, <3>2, <3>3
    <2>4. \A x \in Orders :
            asgStatus'[x] # NoRow \/ assignTasks'[x] > 0 => response'[x] # NoRow
      BY <1>2, <2>2, <2>3, CommitFacts DEF AnsweredFirst
    <2>5. ASSUME NEW t \in Sessions \ {s}, sess'[t] # Idle
          PROVE  /\ sess'[t].op \in AssignmentOps => response'[sess'[t].o] # NoRow
                 /\ /\ sess'[t].op = "accept_order"
                    /\ sess'[t].at = "commit"
                    /\ sess'[t].setResponse = Keep
                    => response'[sess'[t].o] # NoRow
      <3>1. sess'[t] = sess[t]
        BY <1>2, CommitFacts
      <3>2. sess[t].o \in Orders
        BY <2>5, <3>1 DEF SessionsShaped, ShapedWork, Work
      <3>3. QED
        BY <2>1, <2>5, <3>1, <3>2 DEF AnsweredFirst
    <2>6. ASSUME sess'[s] # Idle
          PROVE  /\ sess'[s].op = "do_assign"
                 /\ response'[sess'[s].o] # NoRow
      BY <1>2, <2>1, <2>6, CommitFacts DEF AnsweredFirst, AssignmentOps
    <2>7. QED
      BY <2>4, <2>5, <2>6 DEF AnsweredFirst
  <1>3. CASE Passes
    <2>1. \A x \in Orders :
            asgStatus'[x] # NoRow \/ assignTasks'[x] > 0 => response'[x] # NoRow
      BY <1>3 DEF Passes, AnsweredFirst
    <2>2. ASSUME NEW t \in Sessions, sess'[t] # Idle
          PROVE  /\ sess'[t].op \in AssignmentOps => response'[sess'[t].o] # NoRow
                 /\ /\ sess'[t].op = "accept_order"
                    /\ sess'[t].at = "commit"
                    /\ sess'[t].setResponse = Keep
                    => response'[sess'[t].o] # NoRow
      BY <1>3, <2>2 DEF Passes, AnsweredFirst
    <2>3. QED
      BY <2>1, <2>2 DEF AnsweredFirst
  <1>4. QED
    BY <1>1, <1>2, <1>3, NextKinds

\* FinishedMeansPaid is kept: only deliver and fail_delivery write the final
\* statuses, and nothing takes an earning or a used code back.
LEMMA PaidStep ==
    ASSUME TypeOK, SessionsShaped, FinishedMeansPaid, [Next]_vars
    PROVE  FinishedMeansPaid'
  <1>1. ASSUME NEW s \in Sessions, NEW o \in Orders, Opens(s, o)
        PROVE  FinishedMeansPaid'
    BY <1>1 DEF Opens, db, FinishedMeansPaid
  <1>2. ASSUME NEW s \in Sessions, Commit(s)
        PROVE  FinishedMeansPaid'
    <2> DEFINE w == sess[s]
    <2>1. /\ earnings[w.o] > 0 => earnings'[w.o] > 0
          /\ w.op \in PaidOperations => earnings'[w.o] > 0
      <3>1. /\ earnings[w.o] \in Nat
            /\ earnings'[w.o] = IF w.op \in PaidOperations
                                THEN earnings[w.o] + 1 ELSE earnings[w.o]
        BY <1>2, CommitFacts DEF Commit, TypeOK
      <3>2. QED
        BY <3>1
    <2>2. otpUsed'[w.o] = (otpUsed[w.o] \/ w.op = "deliver")
      BY <1>2, CommitFacts DEF Commit, TypeOK
    <2>3. asgStatus'[w.o] \in {asgStatus[w.o], w.setAsg}
      BY <1>2, CommitFacts DEF Updated
    <2>4. CASE asgStatus'[w.o] = asgStatus[w.o]
      <3>1. otpUsed[w.o] => otpUsed'[w.o]
        BY <2>2, Zenon
      <3>2. QED
        BY <1>2, <2>1, <2>4, <3>1, CommitFacts DEF FinishedMeansPaid
    <2>5. CASE asgStatus'[w.o] # asgStatus[w.o]
      <3>1. /\ asgStatus'[w.o] = "DELIVERED" => w.op = "deliver"
            /\ asgStatus'[w.o] = "FAILED" => w.op = "fail_delivery"
        BY <1>2, <2>3, <2>5, CommitFacts DEF Shaped
      <3>2. asgStatus'[w.o] = "DELIVERED" => otpUsed'[w.o]
        BY <2>2, <3>1, Zenon
      <3>3. asgStatus'[w.o] \in {"DELIVERED", "FAILED"} => earnings'[w.o] > 0
        BY <2>1, <3>1 DEF PaidOperations
      <3>4. QED
        BY <1>2, <3>2, <3>3, CommitFacts DEF FinishedMeansPaid
    <2>6. QED
      BY <2>4, <2>5
  <1>3. CASE Passes
    BY <1>3 DEF Passes, FinishedMeansPaid
  <1>4. QED
    BY <1>1, <1>2, <1>3, NextKinds

\* A step offers an order once and never to a second partner.
LEMMA OfferStep ==
    ASSUME TypeOK, SessionsShaped, [Next]_vars, NEW o \in Orders,
           asgStatus[o] # NoRow
    PROVE  /\ asgPartner'[o] = asgPartner[o]
           /\ asgStatus'[o] = "ASSIGNED" => asgStatus[o] = "ASSIGNED"
  <1>1. ASSUME NEW s \in Sessions, NEW x \in Orders, Opens(s, x)
        PROVE  UNCHANGED <<asgStatus, asgPartner>>
    BY <1>1 DEF Opens, db
  <1>2. ASSUME NEW s \in Sessions, Commit(s), sess[s].o = o
        PROVE  /\ asgPartner'[o] = asgPartner[o]
               /\ asgStatus'[o] = "ASSIGNED" => asgStatus[o] = "ASSIGNED"
    <2>1. sess[s].op # "do_assign"
      BY <1>2, CommitFacts DEF Conflict
    <2>2. sess[s].setAsg # "ASSIGNED"
      BY <1>2, <2>1, CommitFacts DEF Shaped
    <2>3. asgPartner'[o] = asgPartner[o]
      BY <1>2, <2>1 DEF Commit, TypeOK
    <2>4. QED
      BY <1>2, <2>2, <2>3, CommitFacts DEF Updated
  <1>3. ASSUME NEW s \in Sessions, Commit(s), sess[s].o # o
        PROVE  UNCHANGED <<asgStatus[o], asgPartner[o]>>
    BY <1>3, CommitFacts
  <1>4. CASE Passes
    BY <1>4 DEF Passes
  <1>5. QED
    BY <1>1, <1>2, <1>3, <1>4, NextKinds

-----------------------------------------------------------------------------
(* An unanswered offer stays watched while nothing fails *)

\* What OfferIsWatched says of one order.
Watched(o) ==
    \/ offerTimer[o] # "off"
    \/ \E s \in Sessions :
           \/ Running(s, "do_assign", o)
              /\ sess[s].at \in {"store_offer", "arm_timer"}
           \/ Running(s, "handle_timeout", o)

\* The steps a session that is in flight can take, or be given by a fault.
Moves(s) ==
    ReadResponse(s) \/ CheckOffer(s) \/ TakeOffer(s) \/ Commit(s)
    \/ Rollback(s) \/ StoreOffer(s) \/ ArmTimer(s)

\* Without a fault, a session in flight stays as it is until it moves.
LEMMA SessionStays ==
    ASSUME TypeOK, SessionsShaped, [Next]_vars, faults' = 0,
           NEW t \in Sessions, sess[t] # Idle, ~Moves(t)
    PROVE  sess'[t] = sess[t]
  <1>1. CASE Placement \/ Expiry \/ UNCHANGED vars
    BY <1>1 DEF Placement, PlaceOrder, PlaceOrdersForCart, Expiry, ExpireOffer,
                ExpireRejected, ExpireUnassigned, vars
  <1>2. ASSUME NEW s \in Sessions, Requests(s) \/ BackgroundTasks(s)
        PROVE  sess'[t] = sess[t]
    <2>1. PICK o \in Orders : Opens(s, o)
      BY <1>2, StartOpens DEF Requests, BackgroundTasks, ReadingRequest,
                              BackgroundStart
    <2>2. QED
      BY <2>1 DEF Opens, Begin, SessionsShaped
  <1>3. ASSUME NEW s \in Sessions, Continue(s)
        PROVE  sess'[t] = sess[t]
    <2>1. s # t
      BY <1>3 DEF Continue, Moves
    <2>2. QED
      BY <1>3, <2>1
      DEF Continue, ReadResponse, CheckOffer, TakeOffer, Commit, AfterCommit,
                        Rollback, StoreOffer, ArmTimer, SessionsShaped
  <1>4. ~Faults
    BY DEF Faults, Restart, Abort, TypeOK
  <1>5. QED
    BY <1>1, <1>2, <1>3, <1>4 DEF Next

\* Without a fault, only its own timeout disarms the timer of an offer.
LEMMA TimerStays ==
    ASSUME TypeOK, SessionsShaped, [Next]_vars, faults' = 0, NEW o \in Orders,
           offerTimer[o] # "off", asgStatus[o] = "ASSIGNED"
    PROVE  Watched(o)'
  <1>1. ASSUME NEW s \in Sessions, HandleTimeout(s, o)
        PROVE  Watched(o)'
    <2> DEFINE w == [AsgWrite("handle_timeout", o, "TIMED_OUT") EXCEPT
                       !.more = (offerTimer[o] = "more")]
    <2>1. Begin(s, w)
      BY <1>1 DEF HandleTimeout
    <2>2. w.op = "handle_timeout" /\ w.o = o /\ w # Idle
      <3>1. w.op = "handle_timeout" /\ w.o = o
        BY DEF AsgWrite, Started
      <3>2. Idle.op = "idle"
        BY DEF Idle
      <3>3. QED
        BY <3>1, <3>2
    <2> HIDE DEF w
    <2>3. sess'[s] = w
      BY <2>1 DEF Begin, SessionsShaped
    <2>4. QED
      BY <2>2, <2>3 DEF Watched, Running
  <1>2. ASSUME NEW s \in Sessions, ArmTimer(s)
        PROVE  offerTimer'[o] # "off"
    BY <1>2 DEF ArmTimer, TypeOK
  <1>3. ASSUME NEW s \in Sessions, NEW x \in Orders \ {o}, HandleTimeout(s, x)
        PROVE  offerTimer'[o] # "off"
    BY <1>3 DEF HandleTimeout, TypeOK
  <1>4. ASSUME NEW s \in Sessions, NEW x \in Orders,
               \/ ReadingRequest(s, x) \/ RejectAssignment(s, x)
               \/ AutoReject(s, x) \/ DoAssign(s, x) \/ FailOrder(s, x)
        PROVE  offerTimer'[o] # "off"
    <2>1. CASE ReadingRequest(s, x)
      BY <2>1, RequestOnlyBegins DEF OnlyBegins, tasks
    <2>2. CASE ~ReadingRequest(s, x)
      BY <1>4, <2>2 DEF RejectAssignment, AutoReject, DoAssign, FailOrder
    <2>3. QED
      BY <2>1, <2>2
  <1>5. ASSUME NEW s \in Sessions,
               ReadResponse(s) \/ CheckOffer(s) \/ TakeOffer(s) \/ Commit(s)
               \/ Rollback(s) \/ StoreOffer(s)
        PROVE  offerTimer'[o] # "off"
    BY <1>5
    DEF ReadResponse, CheckOffer, TakeOffer, Commit, AfterCommit, Rollback,
                StoreOffer, tasks
  <1>6. ASSUME Placement \/ Expiry \/ UNCHANGED vars
        PROVE  offerTimer'[o] # "off"
    BY <1>6 DEF Placement, PlaceOrder, PlaceOrdersForCart, Expiry, ExpireOffer,
                ExpireRejected, ExpireUnassigned, vars, tasks
  <1>7. ~Faults
    BY DEF Faults, Restart, Abort, TypeOK
  <1>8. offerTimer'[o] # "off" => Watched(o)'
    BY DEF Watched
  <1>9. QED
    BY <1>1, <1>2, <1>3, <1>4, <1>5, <1>6, <1>7, <1>8
    DEF Next, Requests, ReadingRequest, BackgroundTasks, Continue

\* A session that makes the offer goes on to arm its timer.
LEMMA OfferArmed ==
    ASSUME TypeOK, SessionsShaped, [Next]_vars, faults' = 0, NEW o \in Orders,
           NEW t \in Sessions, Running(t, "do_assign", o),
           sess[t].at \in {"store_offer", "arm_timer"}
    PROVE  Watched(o)'
  <1>1. sess[t] \in Work /\ sess[t] # Idle /\ sess[t].o = o
        /\ sess[t].op = "do_assign"
    BY BusySession DEF Running, Phases
  <1>2. CASE StoreOffer(t)
    <2>1. sess'[t] = [sess[t] EXCEPT !.at = "arm_timer"]
      BY <1>2 DEF StoreOffer, SessionsShaped
    <2>2. /\ sess'[t].op = "do_assign"
          /\ sess'[t].o = o
          /\ sess'[t].at = "arm_timer"
      BY <1>1, <2>1 DEF Work
    <2>3. sess'[t] # Idle
      BY <2>2 DEF Idle
    <2>4. QED
      BY <2>2, <2>3 DEF Watched, Running
  <1>3. CASE ArmTimer(t)
    <2>1. offerTimer'[o] # "off"
      BY <1>1, <1>3 DEF ArmTimer, TypeOK
    <2>2. QED
      BY <2>1 DEF Watched
  <1>4. CASE ~Moves(t)
    <2>1. sess'[t] = sess[t]
      BY <1>1, <1>4, SessionStays
    <2>2. QED
      BY <1>1, <2>1 DEF Watched, Running
  <1>5. QED
    BY <1>2, <1>3, <1>4
    DEF Moves, ReadResponse, CheckOffer, TakeOffer, Commit, Rollback

\* A timeout that has fired goes on to write TIMED_OUT.
LEMMA TimeoutCommits ==
    ASSUME TypeOK, SessionsShaped, [Next]_vars, faults' = 0, NEW o \in Orders,
           NEW t \in Sessions, Running(t, "handle_timeout", o),
           asgStatus'[o] = "ASSIGNED"
    PROVE  Watched(o)'
  <1>1. /\ sess[t] \in Work /\ Shaped(sess[t]) /\ sess[t] # Idle
        /\ sess[t].o = o /\ sess[t].op = "handle_timeout"
        /\ sess[t].at = "commit" /\ sess[t].setAsg = "TIMED_OUT"
        /\ sess[t].setResponse = Keep
    BY DEF Running, SessionsShaped, ShapedWork, Shaped, AnswerOps
  <1>2. ~Commit(t)
    <2>1. Commit(t) => asgStatus'[o] = "TIMED_OUT"
      BY <1>1, CommitFacts DEF Updated, Keep
    <2>2. QED
      BY <2>1
  <1>3. ~Rollback(t)
    BY <1>1 DEF Rollback, Conflict
  <1>4. ~Moves(t)
    BY <1>1, <1>2, <1>3
    DEF Moves, ReadResponse, CheckOffer, TakeOffer, StoreOffer, ArmTimer
  <1>5. sess'[t] = sess[t]
    BY <1>1, <1>4, SessionStays
  <1>6. QED
    BY <1>1, <1>5 DEF Watched, Running

\* OfferIsWatched is kept: an offer appears together with the session that
\* will arm its timer, and the timer goes only when its handler starts.
LEMMA WatchedStep ==
    ASSUME TypeOK, SessionsShaped, OfferIsWatched, [Next]_vars
    PROVE  OfferIsWatched'
  <1> SUFFICES ASSUME faults' = 0, NEW o \in Orders, asgStatus'[o] = "ASSIGNED"
               PROVE  Watched(o)'
    BY DEF OfferIsWatched, Watched, Running
  <1>1. CASE asgStatus[o] # "ASSIGNED"
    <2>1. ~Passes /\ \A s \in Sessions : \A x \in Orders : ~Opens(s, x)
      BY <1>1 DEF Passes, Opens, db
    <2>2. PICK s \in Sessions : Commit(s)
      BY <2>1, NextKinds
    <2>3. sess[s].o = o /\ sess[s].setAsg = "ASSIGNED"
      BY <1>1, <2>2, CommitFacts DEF Updated
    <2>4. sess[s].op = "do_assign"
      BY <2>2, <2>3, CommitFacts DEF Shaped
    <2>5. QED
      BY <2>2, <2>3, <2>4, CommitFacts DEF Watched, Running
  <1>2. CASE asgStatus[o] = "ASSIGNED"
    <2>1. faults = 0
      <3>1. ~Faults
        BY DEF Faults, Restart, Abort, TypeOK
      <3>2. UNCHANGED faults
        <4>1. ASSUME NEW s \in Sessions, NEW x \in Orders, ReadingRequest(s, x)
              PROVE  UNCHANGED faults
          BY <4>1, RequestOnlyBegins DEF OnlyBegins
        <4>2. ASSUME NEW s \in Sessions, NEW x \in Orders, BackgroundStart(s, x)
              PROVE  UNCHANGED faults
          BY <4>2 DEF BackgroundStart, RejectAssignment, AutoReject, DoAssign,
                      HandleTimeout, FailOrder
        <4>3. ASSUME NEW s \in Sessions, Continue(s)
              PROVE  UNCHANGED faults
          BY <4>3
          DEF Continue, ReadResponse, CheckOffer, TakeOffer, Commit, Rollback,
                      StoreOffer, ArmTimer
        <4>4. CASE Placement \/ Expiry \/ UNCHANGED vars
          BY <4>4 DEF Placement, PlaceOrder, PlaceOrdersForCart, Expiry,
                      ExpireOffer, ExpireRejected, ExpireUnassigned, vars
        <4>5. QED
          BY <3>1, <4>1, <4>2, <4>3, <4>4
          DEF Next, Requests, ReadingRequest, BackgroundTasks, BackgroundStart
      <3>3. QED
        BY <3>2
    <2>2. Watched(o)
      BY <1>2, <2>1 DEF OfferIsWatched, Watched
    <2>3. CASE offerTimer[o] # "off"
      BY <1>2, <2>3, TimerStays
    <2>4. ASSUME NEW t \in Sessions, Running(t, "do_assign", o),
                 sess[t].at \in {"store_offer", "arm_timer"}
          PROVE  Watched(o)'
      BY <2>4, OfferArmed
    <2>5. ASSUME NEW t \in Sessions, Running(t, "handle_timeout", o)
          PROVE  Watched(o)'
      BY <2>5, TimeoutCommits
    <2>6. QED
      BY <2>2, <2>3, <2>4, <2>5 DEF Watched
  <1>3. QED
    BY <1>1, <1>2

-----------------------------------------------------------------------------
(* Theorems *)

\* The initial state satisfies the inductive invariant.
LEMMA InitInv == Init => DispatchInv
  <1> SUFFICES ASSUME Init PROVE DispatchInv
    OBVIOUS
  <1>1. TypeOK /\ SessionsShaped
    BY InitTyped
  <1>2. AssignmentRows /\ AnsweredFirst /\ FinishedMeansPaid /\ OfferIsWatched
    BY DEF Init, AssignmentRows, AnsweredFirst, FinishedMeansPaid,
           OfferIsWatched, NoRow
  <1>3. QED
    BY <1>1, <1>2 DEF DispatchInv

\* Every step keeps the inductive invariant.
LEMMA NextInv == DispatchInv /\ [Next]_vars => DispatchInv'
  BY TypedStep, RowsStep, AnsweredStep, PaidStep, WatchedStep DEF DispatchInv

\* The inductive invariant holds in every reachable state.
THEOREM InvariantHolds == Spec => []DispatchInv
  BY InitInv, NextInv, PTL DEF Spec

\* TypeOK: rows, keys, tasks and sessions keep their types, however handlers,
\* tasks, restarts and expiries interleave.
THEOREM TypeCorrect == Spec => []TypeOK
  <1>1. DispatchInv => TypeOK
    BY DEF DispatchInv
  <1>2. QED
    BY <1>1, InvariantHolds, PTL

\* No dispatch before the restaurant's answer: auto_assign_partner, its
\* session and its row exist only for an order with a recorded response.
THEOREM DispatchAfterResponse == Spec => []DispatchOnlyAfterResponse
  <1>1. DispatchInv => DispatchOnlyAfterResponse
    BY DEF DispatchInv, AnsweredFirst, DispatchOnlyAfterResponse, Running,
           AssignmentOps
  <1>2. QED
    BY <1>1, InvariantHolds, PTL

\* Whatever overlaps with deliver and fail_delivery, an assignment in the
\* statuses they write has its partner_earnings row and its used code.
THEOREM FinishedIsPaid == Spec => []FinishedMeansPaid
  <1>1. DispatchInv => FinishedMeansPaid
    BY DEF DispatchInv
  <1>2. QED
    BY <1>1, InvariantHolds, PTL

\* Without a fault, an open offer always has a timer armed, being armed or
\* being handled.
THEOREM OfferWatched == Spec => []OfferIsWatched
  <1>1. DispatchInv => OfferIsWatched
    BY DEF DispatchInv
  <1>2. QED
    BY <1>1, InvariantHolds, PTL

\* No step re-offers an order or gives it to another partner, for any number
\* of dispatch tasks and sessions: what limits _do_assign's retries.
THEOREM OrderOfferedOnce == Spec => OfferedOnce
  <1> DEFINE Once == \A o \in Orders : asgStatus[o] # NoRow =>
                         /\ asgPartner'[o] = asgPartner[o]
                         /\ asgStatus'[o] = "ASSIGNED"
                               => asgStatus[o] = "ASSIGNED"
  <1>1. DispatchInv /\ [Next]_vars => [Once]_vars
    BY OfferStep DEF DispatchInv
  <1>2. QED
    BY <1>1, InvariantHolds, PTL DEF Spec, OfferedOnce

-----------------------------------------------------------------------------
(* One session and no webhook: the rows of an order tell one story.  A      *)
(* session then decides on the rows that it overwrites, so its writes leave *)
(* them good (SoundWork).                                                   *)

Serial == ~Webhook /\ \A s, t \in Sessions : s = t

\* The columns of an order, as the properties want them.
GoodRow(ord, resp, asg, used, paid) ==
    /\ resp = "REJECTED" => ord = "CANCELLED"
    /\ ord \in {"CONFIRMED", "PREPARING", "READY_FOR_PICKUP"} => resp = "ACCEPTED"
    /\ ord \in {NoRow, "PLACED"} => resp = NoRow
    /\ asg # NoRow => resp = "ACCEPTED"
    /\ ord = "OUT_FOR_DELIVERY" <=> asg \in {"PICKED_UP", "REACHED_CUSTOMER"}
    /\ ord = "DELIVERED" <=> asg = "DELIVERED"
    /\ asg = "FAILED" => ord = "FAILED"
    /\ used <=> asg = "DELIVERED"
    /\ paid = IF asg \in {"DELIVERED", "FAILED"} THEN 1 ELSE 0

GoodRows ==
    \A o \in Orders :
        GoodRow(order[o], response[o], asgStatus[o], otpUsed[o], earnings[o])

\* The row of its order once the session has committed.
LeavesGood(w) ==
    GoodRow(Updated(order[w.o], w.setOrder),
            Updated(response[w.o], w.setResponse),
            Updated(asgStatus[w.o], w.setAsg),
            otpUsed[w.o] \/ w.op = "deliver",
            IF w.op \in PaidOperations THEN earnings[w.o] + 1 ELSE earnings[w.o])

\* Has partner p no active assignment?
Free(p) ==
    \A o \in Orders : asgPartner[o] = p => asgStatus[o] \notin ActiveAssignment

SoundWork(w) ==
    /\ order[w.o] # NoRow
    /\ w.at = "read_response" => order[w.o] = "PLACED"
    /\ w.at \in {"check_offer", "take_offer"} =>
          asgStatus[w.o] = "ASSIGNED" /\ w.setOrder = Keep /\ w.setResponse = Keep
    /\ w.at = "commit" =>
          /\ ~Conflict(w) => LeavesGood(w)
          /\ w.op = "accept_order" => w.setOrder = "CONFIRMED"
          /\ w.op = "do_assign" => Free(w.p)
          /\ w.op # "do_assign" /\ w.setAsg # Keep
                => asgStatus[w.o] \in ActiveAssignment

SoundSessions == \A s \in Sessions : sess[s] # Idle => SoundWork(sess[s])

\* Dispatch is for accepted orders, failing for those that were timed out.
TasksFollow ==
    \A o \in Orders :
        /\ assignTasks[o] > 0 => response[o] = "ACCEPTED"
        /\ o \in failTasks => asgStatus[o] = "TIMED_OUT"

SerialInv == GoodRows /\ SoundSessions /\ TasksFollow /\ PartnerExclusive

\* Writing what differs leaves the column as it is wanted.
LEMMA WriteUpdates ==
    ASSUME NEW row, NEW new, new # Keep
    PROVE  Updated(row, Write(row, new)) = new
  BY DEF Updated, Write, Keep

\* What the sessions that write a status are going to write.
LEMMA OrderWriteSound ==
    ASSUME TypeOK, NEW op \in OrderOps, NEW o \in Orders,
           NEW new \in OrderStatuses, order[o] # NoRow,
           GoodRow(new, response[o], asgStatus[o], otpUsed[o], earnings[o])
    PROVE  SoundWork(OrderWrite(op, o, new))
  <1> DEFINE w == OrderWrite(op, o, new)
  <1>1. op \in Operations
    BY DEF OrderOps, Operations
  <1>2. /\ w.op = op /\ w.at = "commit" /\ w.o = o
        /\ w.setAsg = Keep /\ w.setResponse = Keep
    BY <1>1, OrderWriteFields
  <1>3. w.setOrder = Write(order[o], new)
    BY DEF OrderWrite, Started
  <1>4. new # Keep
    BY DEF OrderStatuses, Keep
  <1>5. Updated(order[o], w.setOrder) = new
    BY <1>3, <1>4, WriteUpdates
  <1> HIDE DEF w
  <1>6. LeavesGood(w)
    <2>1. /\ Updated(response[o], w.setResponse) = response[o]
          /\ Updated(asgStatus[o], w.setAsg) = asgStatus[o]
      BY <1>2 DEF Updated
    <2>2. w.op # "deliver" /\ w.op \notin PaidOperations
      BY <1>2 DEF OrderOps, PaidOperations
    <2>3. (otpUsed[o] \/ w.op = "deliver") = otpUsed[o]
      BY <2>2 DEF TypeOK
    <2>4. QED
      BY <1>2, <1>5, <2>1, <2>2, <2>3 DEF LeavesGood
  <1>7. QED
    BY <1>2, <1>6 DEF SoundWork, OrderOps, w

LEMMA AsgWriteSound ==
    ASSUME TypeOK, NEW o \in Orders, NEW more,
           NEW op \in {"handle_timeout", "reject_assignment",
                       "reached_restaurant", "reached_customer"},
           NEW new \in AssignmentStatuses, order[o] # NoRow,
           asgStatus[o] \in ActiveAssignment,
           GoodRow(order[o], response[o], new, otpUsed[o], earnings[o])
    PROVE  /\ SoundWork(AsgWrite(op, o, new))
           /\ SoundWork([AsgWrite(op, o, new) EXCEPT !.more = more])
  <1>1. ASSUME NEW w, w.op = op, w.at = "commit", w.o = o,
               w.setOrder = Keep, w.setResponse = Keep,
               w.setAsg = Write(asgStatus[o], new)
        PROVE  SoundWork(w)
    <2>1. new # Keep
      BY DEF AssignmentStatuses, Keep
    <2>2. Updated(asgStatus[o], w.setAsg) = new
      BY <1>1, <2>1, WriteUpdates
    <2>3. /\ Updated(response[o], w.setResponse) = response[o]
          /\ Updated(order[o], w.setOrder) = order[o]
      BY <1>1 DEF Updated
    <2>4. w.op # "deliver" /\ w.op \notin PaidOperations
      BY <1>1 DEF PaidOperations
    <2>5. (otpUsed[o] \/ w.op = "deliver") = otpUsed[o]
      BY <2>4 DEF TypeOK
    <2>6. LeavesGood(w)
      BY <1>1, <2>2, <2>3, <2>4, <2>5 DEF LeavesGood
    <2>7. QED
      BY <1>1, <2>6 DEF SoundWork
  <1>2. QED
    BY <1>1 DEF AsgWrite, Started

LEMMA DeliveryWriteSound ==
    ASSUME TypeOK, NEW o \in Orders,
           NEW op \in {"picked_up", "deliver", "fail_delivery"},
           NEW newAsg \in AssignmentStatuses, NEW newOrder \in OrderStatuses,
           order[o] # NoRow, asgStatus[o] \in ActiveAssignment,
           GoodRow(newOrder, response[o], newAsg,
                   otpUsed[o] \/ op = "deliver",
                   IF op \in PaidOperations THEN earnings[o] + 1 ELSE earnings[o])
    PROVE  SoundWork(DeliveryWrite(op, o, newAsg, newOrder))
  <1> DEFINE w == DeliveryWrite(op, o, newAsg, newOrder)
  <1>1. /\ w.op = op /\ w.at = "commit" /\ w.o = o
        /\ w.setAsg = Write(asgStatus[o], newAsg)
        /\ w.setOrder = Write(order[o], newOrder)
        /\ w.setResponse = Keep
    BY DEF DeliveryWrite, AsgWrite, Started
  <1> HIDE DEF w
  <1>2. newAsg # Keep /\ newOrder # Keep
    BY DEF AssignmentStatuses, OrderStatuses, Keep
  <1>3. /\ Updated(asgStatus[o], w.setAsg) = newAsg
        /\ Updated(order[o], w.setOrder) = newOrder
    BY <1>1, <1>2, WriteUpdates
  <1>4. Updated(response[o], w.setResponse) = response[o]
    BY <1>1 DEF Updated
  <1>5. LeavesGood(w)
    BY <1>1, <1>3, <1>4 DEF LeavesGood
  <1>6. QED
    BY <1>1, <1>5 DEF SoundWork, w

\* Whoever has an assignment has a placed and accepted order.
LEMMA AssignedIsPlaced ==
    ASSUME TypeOK, GoodRows, NEW o \in Orders, asgStatus[o] # NoRow
    PROVE  order[o] \notin {NoRow, "PLACED"} /\ response[o] = "ACCEPTED"
  BY DEF GoodRows, GoodRow, NoRow

-----------------------------------------------------------------------------
(* Handlers open sound sessions *)

OpensSound(s) ==
    /\ UNCHANGED db
    /\ \/ UNCHANGED sess
       \/ \E w \in Work : Begin(s, w) /\ SoundWork(w)
    /\ \A x \in Orders :
          assignTasks'[x] > 0 => assignTasks[x] > 0 \/ asgStatus[x] # NoRow
    /\ failTasks' \subseteq failTasks

LEMMA RequestSound ==
    ASSUME TypeOK, SerialInv, ~Webhook, NEW s \in Sessions, NEW o \in Orders,
           ReadingRequest(s, o) \/ RejectAssignment(s, o)
    PROVE  OpensSound(s)
  <1> USE DEF SerialInv, redis, tasks
  <1> DEFINE row == GoodRow(order[o], response[o], asgStatus[o], otpUsed[o],
                            earnings[o])
  <1>0. row
    BY DEF GoodRows
  <1>1. ASSUME NEW w \in Work, SoundWork(w), Begin(s, w),
               UNCHANGED <<db, redis, tasks, faults>>
        PROVE  OpensSound(s)
    BY <1>1 DEF OpensSound
  <1>2. CASE AcceptOrder(s, o) \/ RejectOrder(s, o)
    <2>1. PICK op \in AnswerOps : Begin(s, Started(op, o, "read_response"))
      BY <1>2 DEF AcceptOrder, RejectOrder, AnswerOps
    <2>2. order[o] = "PLACED" /\ UNCHANGED <<db, redis, tasks, faults>>
      BY <1>2 DEF AcceptOrder, RejectOrder
    <2>3. op \in Operations /\ "read_response" \in Phases
      BY DEF AnswerOps, Operations, Phases
    <2>4. SoundWork(Started(op, o, "read_response"))
      BY <2>2 DEF SoundWork, Started, NoRow
    <2>5. QED
      BY <1>1, <2>1, <2>2, <2>3, <2>4, StartedFields
  <1>3. ASSUME NEW op \in OrderOps, NEW new \in OrderStatuses,
               Begin(s, OrderWrite(op, o, new)), order[o] # NoRow,
               GoodRow(new, response[o], asgStatus[o], otpUsed[o], earnings[o]),
               UNCHANGED <<db, redis, tasks, faults>>
        PROVE  OpensSound(s)
    <2>1. OrderWrite(op, o, new) \in Work
      BY OrderWriteFields DEF OrderOps, Operations
    <2>2. QED
      BY <1>1, <1>3, <2>1, OrderWriteSound
  <1>4. CASE MarkPreparing(s, o)
    <2>1. GoodRow("PREPARING", response[o], asgStatus[o], otpUsed[o], earnings[o])
      BY <1>0, <1>4 DEF MarkPreparing, GoodRow, NoRow
    <2>2. QED
      BY <1>3, <1>4, <2>1 DEF MarkPreparing, OrderOps, OrderStatuses, NoRow
  <1>5. CASE MarkReady(s, o)
    <2>1. GoodRow("READY_FOR_PICKUP", response[o], asgStatus[o], otpUsed[o],
                  earnings[o])
      BY <1>0, <1>5 DEF MarkReady, GoodRow, NoRow
    <2>2. QED
      BY <1>3, <1>5, <2>1 DEF MarkReady, OrderOps, OrderStatuses, NoRow
  <1>6. CASE CancelOrder(s, o)
    <2>1. order[o] \in {"PLACED", "CONFIRMED"}
      BY <1>6 DEF CancelOrder, UserCancellable
    <2>2. GoodRow("CANCELLED", response[o], asgStatus[o], otpUsed[o], earnings[o])
      BY <1>0, <2>1 DEF GoodRow, NoRow
    <2>3. QED
      BY <1>3, <1>6, <2>1, <2>2 DEF CancelOrder, OrderOps, OrderStatuses, NoRow
  <1>7. CASE UpdateStatus(s, o)
    BY <1>7 DEF UpdateStatus
  <1>8. CASE AcceptAssignment(s, o)
    <2>1. asgStatus[o] = "ASSIGNED" /\ order[o] # NoRow
      BY <1>8, AssignedIsPlaced DEF AcceptAssignment, NoRow
    <2>2. SoundWork(Started("accept_assignment", o, "check_offer"))
      BY <2>1 DEF SoundWork, Started
    <2>3. Started("accept_assignment", o, "check_offer") \in Work
      BY StartedFields DEF Operations, Phases
    <2>4. QED
      BY <1>1, <1>8, <2>2, <2>3 DEF AcceptAssignment
  <1>9. ASSUME NEW op \in {"reject_assignment", "reached_restaurant",
                           "reached_customer"},
               NEW new \in AssignmentStatuses,
               asgStatus[o] \in ActiveAssignment,
               GoodRow(order[o], response[o], new, otpUsed[o], earnings[o])
        PROVE  AsgWrite(op, o, new) \in Work /\ SoundWork(AsgWrite(op, o, new))
    <2>1. order[o] # NoRow
      BY <1>9, AssignedIsPlaced DEF ActiveAssignment, NoRow
    <2>2. op \in Operations
      BY DEF Operations
    <2>3. QED
      BY <1>9, <2>1, <2>2, AsgWriteSound, AsgWriteFields
  <1>10. CASE RejectAssignment(s, o)
    <2>1. asgStatus[o] = "ASSIGNED"
      BY <1>10 DEF RejectAssignment
    <2>2. GoodRow(order[o], response[o], "REJECTED", otpUsed[o], earnings[o])
      BY <1>0, <2>1 DEF GoodRow, NoRow
    <2> DEFINE w == AsgWrite("reject_assignment", o, "REJECTED")
    <2>3. w \in Work /\ SoundWork(w)
      BY <1>9, <2>1, <2>2 DEF ActiveAssignment, AssignmentStatuses
    <2>4. Begin(s, w) /\ UNCHANGED db /\ UNCHANGED failTasks
      BY <1>10 DEF RejectAssignment
    <2>5. \A x \in Orders :
            assignTasks'[x] > 0 => assignTasks[x] > 0 \/ asgStatus[x] # NoRow
      BY <1>10, <2>1 DEF RejectAssignment, TypeOK, NoRow
    <2> HIDE DEF w
    <2>6. QED
      BY <2>3, <2>4, <2>5 DEF OpensSound
  <1>11. CASE ReachedRestaurant(s, o)
    <2>1. asgStatus[o] = "ACCEPTED"
      BY <1>11 DEF ReachedRestaurant
    <2>2. GoodRow(order[o], response[o], "REACHED_RESTAURANT", otpUsed[o],
                  earnings[o])
      BY <1>0, <2>1 DEF GoodRow, NoRow
    <2>3. QED
      BY <1>1, <1>9, <1>11, <2>1, <2>2
      DEF ReachedRestaurant, ActiveAssignment, AssignmentStatuses
  <1>12. CASE ReachedCustomer(s, o)
    <2>1. asgStatus[o] = "PICKED_UP"
      BY <1>12 DEF ReachedCustomer
    <2>2. GoodRow(order[o], response[o], "REACHED_CUSTOMER", otpUsed[o],
                  earnings[o])
      BY <1>0, <2>1 DEF GoodRow, NoRow
    <2>3. QED
      BY <1>1, <1>9, <1>12, <2>1, <2>2
      DEF ReachedCustomer, ActiveAssignment, AssignmentStatuses
  <1>13. ASSUME NEW op \in {"picked_up", "deliver", "fail_delivery"},
                NEW newAsg \in AssignmentStatuses, NEW newOrder \in OrderStatuses,
                Begin(s, DeliveryWrite(op, o, newAsg, newOrder)),
                asgStatus[o] \in ActiveAssignment,
                GoodRow(newOrder, response[o], newAsg, otpUsed[o] \/ op = "deliver",
                        IF op \in PaidOperations THEN earnings[o] + 1
                        ELSE earnings[o]),
                UNCHANGED <<db, redis, tasks, faults>>
         PROVE  OpensSound(s)
    <2>1. order[o] # NoRow
      BY <1>13, AssignedIsPlaced DEF ActiveAssignment, NoRow
    <2>2. op \in Operations
      BY DEF Operations
    <2>3. QED
      BY <1>1, <1>13, <2>1, <2>2, DeliveryWriteSound, DeliveryWriteFields
  <1>14. CASE PickedUp(s, o)
    <2>1. asgStatus[o] \in {"ACCEPTED", "REACHED_RESTAURANT"}
      BY <1>14 DEF PickedUp
    <2>2. GoodRow("OUT_FOR_DELIVERY", response[o], "PICKED_UP",
                  otpUsed[o] \/ "picked_up" = "deliver", earnings[o])
      BY <1>0, <2>1 DEF GoodRow, NoRow
    <2>3. "picked_up" \notin PaidOperations
      BY DEF PaidOperations
    <2>4. QED
      BY <1>13, <1>14, <2>1, <2>2, <2>3
      DEF PickedUp, ActiveAssignment, AssignmentStatuses, OrderStatuses
  <1>15. CASE Deliver(s, o)
    <2>1. asgStatus[o] \in {"PICKED_UP", "REACHED_CUSTOMER"}
      BY <1>15 DEF Deliver
    <2>2. earnings[o] + 1 = 1
      BY <1>0, <2>1 DEF GoodRow
    <2>3. GoodRow("DELIVERED", response[o], "DELIVERED",
                  otpUsed[o] \/ "deliver" = "deliver", earnings[o] + 1)
      BY <1>0, <2>1, <2>2 DEF GoodRow, NoRow
    <2>4. "deliver" \in PaidOperations
      BY DEF PaidOperations
    <2>5. QED
      BY <1>13, <1>15, <2>1, <2>3, <2>4
      DEF Deliver, ActiveAssignment, AssignmentStatuses, OrderStatuses
  <1>16. CASE FailDelivery(s, o)
    <2>1. asgStatus[o] \in {"PICKED_UP", "REACHED_CUSTOMER"}
      BY <1>16 DEF FailDelivery
    <2>2. earnings[o] + 1 = 1
      BY <1>0, <2>1 DEF GoodRow
    <2>3. GoodRow("FAILED", response[o], "FAILED",
                  otpUsed[o] \/ "fail_delivery" = "deliver", earnings[o] + 1)
      BY <1>0, <2>1, <2>2 DEF GoodRow, NoRow
    <2>4. "fail_delivery" \in PaidOperations
      BY DEF PaidOperations
    <2>5. QED
      BY <1>13, <1>16, <2>1, <2>3, <2>4
      DEF FailDelivery, ActiveAssignment, AssignmentStatuses, OrderStatuses
  <1>17. QED
    BY <1>2, <1>4, <1>5, <1>6, <1>7, <1>8, <1>10, <1>11, <1>12, <1>14, <1>15,
       <1>16
    DEF ReadingRequest

LEMMA BackgroundSound ==
    ASSUME TypeOK, SerialInv, NEW s \in Sessions, NEW o \in Orders,
           AutoReject(s, o) \/ DoAssign(s, o) \/ HandleTimeout(s, o)
             \/ FailOrder(s, o)
    PROVE  OpensSound(s)
  <1> USE DEF SerialInv
  <1>0. GoodRow(order[o], response[o], asgStatus[o], otpUsed[o], earnings[o])
    BY DEF GoodRows
  <1>1. CASE AutoReject(s, o)
    <2> DEFINE w == Started("reject_order", o, "read_response")
    <2>1. w \in Work /\ w.o = o /\ w.at = "read_response"
      BY StartedFields DEF Operations, Phases
    <2> HIDE DEF w
    <2>2. \/ UNCHANGED sess
          \/ order[o] = "PLACED" /\ Begin(s, w)
      BY <1>1 DEF AutoReject, w
    <2>3. order[o] = "PLACED" => SoundWork(w)
      BY <2>1 DEF SoundWork, NoRow
    <2>4. UNCHANGED db /\ UNCHANGED <<assignTasks, failTasks>>
      BY <1>1 DEF AutoReject
    <2>5. QED
      BY <2>1, <2>2, <2>3, <2>4 DEF OpensSound
  <1>2. CASE DoAssign(s, o)
    <2>1. UNCHANGED db /\ UNCHANGED failTasks /\ assignTasks[o] > 0
      BY <1>2 DEF DoAssign
    <2>2. \A x \in Orders : assignTasks'[x] > 0 => assignTasks[x] > 0
      BY <1>2 DEF DoAssign, TypeOK
    <2>3. ASSUME NEW p \in Eligible(o), NEW more \in BOOLEAN,
                 Begin(s, [Started("do_assign", o, "commit") EXCEPT
                             !.p = p, !.setAsg = "ASSIGNED", !.more = more])
          PROVE  \E w \in Work : Begin(s, w) /\ SoundWork(w)
      <3> DEFINE w == [Started("do_assign", o, "commit") EXCEPT
                         !.p = p, !.setAsg = "ASSIGNED", !.more = more]
      <3>1. w \in Work
        BY AssignShaped DEF Eligible, ShapedWork
      <3>2. /\ w.o = o /\ w.op = "do_assign" /\ w.at = "commit" /\ w.p = p
            /\ w.setAsg = "ASSIGNED" /\ w.setOrder = Keep /\ w.setResponse = Keep
        BY DEF Started
      <3> HIDE DEF w
      <3>3. response[o] = "ACCEPTED"
        BY <2>1 DEF TasksFollow
      <3>4. order[o] # NoRow
        BY <1>0, <3>3 DEF GoodRow, NoRow
      <3>5. Free(p)
        BY DEF Eligible, Busy, Free
      <3>6. ~Conflict(w) => LeavesGood(w)
        <4>1. SUFFICES ASSUME asgStatus[o] = NoRow
                       PROVE  LeavesGood(w)
          BY <3>2 DEF Conflict
        <4>2. /\ Updated(order[o], w.setOrder) = order[o]
              /\ Updated(response[o], w.setResponse) = response[o]
              /\ Updated(asgStatus[o], w.setAsg) = "ASSIGNED"
          BY <3>2 DEF Updated, Keep
        <4>3. w.op # "deliver" /\ w.op \notin PaidOperations
          BY <3>2 DEF PaidOperations
        <4>4. (otpUsed[o] \/ w.op = "deliver") = otpUsed[o]
          BY <4>3 DEF TypeOK
        <4>5. GoodRow(order[o], response[o], "ASSIGNED", otpUsed[o], earnings[o])
          BY <1>0, <3>3, <4>1 DEF GoodRow, NoRow
        <4>6. QED
          BY <3>2, <4>2, <4>3, <4>4, <4>5 DEF LeavesGood
      <3>7. SoundWork(w)
        BY <3>2, <3>4, <3>5, <3>6 DEF SoundWork
      <3>8. QED
        BY <2>3, <3>1, <3>7 DEF w
    <2>4. UNCHANGED sess \/ \E w \in Work : Begin(s, w) /\ SoundWork(w)
      BY <1>2, <2>3 DEF DoAssign
    <2>5. QED
      BY <2>1, <2>2, <2>4 DEF OpensSound
  <1>3. CASE HandleTimeout(s, o)
    <2> DEFINE w == [AsgWrite("handle_timeout", o, "TIMED_OUT") EXCEPT
                       !.more = (offerTimer[o] = "more")]
    <2>1. /\ \/ UNCHANGED sess
             \/ asgStatus[o] = "ASSIGNED" /\ Begin(s, w)
          /\ UNCHANGED db /\ UNCHANGED <<assignTasks, failTasks>>
      BY <1>3 DEF HandleTimeout
    <2>2. ASSUME asgStatus[o] = "ASSIGNED"
          PROVE  w \in Work /\ SoundWork(w)
      <3>1. w \in Work
        BY <2>2, TimeoutShaped DEF ShapedWork
      <3>2. GoodRow(order[o], response[o], "TIMED_OUT", otpUsed[o], earnings[o])
        BY <1>0, <2>2 DEF GoodRow, NoRow
      <3>3. order[o] # NoRow
        BY <2>2, AssignedIsPlaced DEF NoRow
      <3>4. SoundWork(w)
        BY <2>2, <3>2, <3>3, AsgWriteSound
        DEF ActiveAssignment, AssignmentStatuses
      <3>5. QED
        BY <3>1, <3>4
    <2> HIDE DEF w
    <2>3. QED
      BY <2>1, <2>2 DEF OpensSound
  <1>4. CASE FailOrder(s, o)
    <2> DEFINE w == OrderWrite("fail_order", o, "FAILED")
    <2>1. /\ \/ UNCHANGED sess
             \/ Begin(s, w)
          /\ UNCHANGED db /\ UNCHANGED assignTasks /\ failTasks' \subseteq failTasks
      BY <1>4 DEF FailOrder
    <2>2. asgStatus[o] = "TIMED_OUT"
      BY <1>4 DEF FailOrder, TasksFollow
    <2>3. GoodRow("FAILED", response[o], asgStatus[o], otpUsed[o], earnings[o])
      BY <1>0, <2>2 DEF GoodRow, NoRow
    <2>4. w \in Work
      BY OrderWriteFields DEF Operations, OrderStatuses
    <2>5. order[o] # NoRow
      BY <2>2, AssignedIsPlaced DEF NoRow
    <2>6. SoundWork(w)
      BY <2>3, <2>5, OrderWriteSound DEF OrderOps, OrderStatuses
    <2> HIDE DEF w
    <2>7. QED
      BY <2>1, <2>4, <2>6 DEF OpensSound
  <1>5. QED
    BY <1>1, <1>2, <1>3, <1>4

\* A session that is opened finds every slot empty.
LEMMA OpenKept ==
    ASSUME TypeOK, SessionsShaped, Serial, SerialInv, NEW s \in Sessions,
           OpensSound(s)
    PROVE  SerialInv'
  <1> USE DEF SerialInv, db
  <1>1. GoodRows' /\ PartnerExclusive'
    BY DEF OpensSound, GoodRows, PartnerExclusive
  <1>2. \A x \in Orders : asgStatus[x] # NoRow => response[x] = "ACCEPTED"
    BY DEF GoodRows, GoodRow
  <1>3. TasksFollow'
    BY <1>2 DEF OpensSound, TasksFollow
  <1>4. ASSUME NEW w \in Work, SoundWork(w)
        PROVE  SoundWork(w)'
    BY <1>4 DEF OpensSound, SoundWork, Conflict, LeavesGood, Free
  <1>5. SoundSessions'
    <2>1. CASE UNCHANGED sess
      <3>1. \A t \in Sessions : sess[t] # Idle => sess[t] \in Work
        BY DEF SessionsShaped, ShapedWork
      <3>2. QED
        BY <1>4, <2>1, <3>1 DEF SoundSessions
    <2>2. ASSUME NEW w \in Work, Begin(s, w), SoundWork(w)
          PROVE  SoundSessions'
      <3>1. \A t \in Sessions : t = s /\ sess'[t] = w
        BY <2>2 DEF Begin, Serial, SessionsShaped
      <3>2. QED
        BY <1>4, <2>2, <3>1 DEF SoundSessions
    <2>3. QED
      BY <2>1, <2>2 DEF OpensSound
  <1>6. QED
    BY <1>1, <1>3, <1>5

-----------------------------------------------------------------------------
(* Steps that neither open nor commit *)

\* Rows stay, tasks are at most lost, sessions end or stay sound.
LEMMA QuietKept ==
    ASSUME SerialInv, SessionsShaped, UNCHANGED db,
           \A x \in Orders : assignTasks'[x] > 0 => assignTasks[x] > 0,
           failTasks' \subseteq failTasks,
           \A t \in Sessions :
              \/ sess'[t] \in {Idle, sess[t]}
              \/ \E w \in Work : sess'[t] = w /\ SoundWork(w)
    PROVE  SerialInv'
  <1> USE DEF SerialInv, db
  <1>1. GoodRows' /\ PartnerExclusive' /\ TasksFollow'
    BY DEF GoodRows, PartnerExclusive, TasksFollow
  <1>2. ASSUME NEW w \in Work, SoundWork(w)
        PROVE  SoundWork(w)'
    BY <1>2 DEF SoundWork, Conflict, LeavesGood, Free
  <1>3. \A t \in Sessions : sess[t] # Idle => sess[t] \in Work
    BY DEF SessionsShaped, ShapedWork
  <1>4. SoundSessions'
    BY <1>2, <1>3 DEF SoundSessions
  <1>5. QED
    BY <1>1, <1>4

\* A session that goes on with its handler stays sound.
LEMMA ContinueKept ==
    ASSUME TypeOK, SessionsShaped, SerialInv, NEW s \in Sessions,
           \/ ReadResponse(s) \/ CheckOffer(s) \/ TakeOffer(s) \/ StoreOffer(s)
           \/ ArmTimer(s) \/ Rollback(s) \/ Abort(s)
    PROVE  SerialInv'
  <1> USE DEF SerialInv, redis, tasks
  <1>1. ASSUME UNCHANGED db, UNCHANGED <<assignTasks, failTasks>>,
               NEW w, sess' = [sess EXCEPT ![s] = w],
               w = Idle \/ (w \in Work /\ SoundWork(w))
        PROVE  SerialInv'
    <2>1. \A t \in Sessions :
              \/ sess'[t] \in {Idle, sess[t]}
              \/ \E v \in Work : sess'[t] = v /\ SoundWork(v)
      BY <1>1 DEF SessionsShaped
    <2>2. QED
      BY <1>1, <2>1, QuietKept
  <1>2. ASSUME sess[s].at \in Phases
        PROVE  /\ sess[s] \in Work /\ Shaped(sess[s])
               /\ SoundWork(sess[s]) /\ sess[s].o \in Orders
    BY <1>2, BusySession DEF SoundSessions, Work
  <1>3. CASE ArmTimer(s) \/ Rollback(s) \/ Abort(s)
    BY <1>1, <1>3 DEF ArmTimer, Rollback, Abort
  <1>4. CASE StoreOffer(s)
    <2> DEFINE w == [sess[s] EXCEPT !.at = "arm_timer"]
    <2>1. w \in Work /\ SoundWork(w)
      BY <1>2, <1>4 DEF StoreOffer, Phases, SoundWork, Work
    <2>2. sess' = [sess EXCEPT ![s] = w]
      BY <1>4 DEF StoreOffer
    <2> HIDE DEF w
    <2>3. QED
      BY <1>1, <1>4, <2>1, <2>2 DEF StoreOffer
  <1>5. CASE CheckOffer(s)
    <2> DEFINE w == [sess[s] EXCEPT !.at = "take_offer"]
    <2>1. w \in Work /\ SoundWork(w)
      BY <1>2, <1>5 DEF CheckOffer, Phases, SoundWork, Work
    <2>2. sess' = [sess EXCEPT ![s] = w] \/ sess' = [sess EXCEPT ![s] = Idle]
      BY <1>5 DEF CheckOffer
    <2> HIDE DEF w
    <2>3. QED
      BY <1>1, <1>5, <2>1, <2>2 DEF CheckOffer
  <1>6. CASE TakeOffer(s)
    <2> DEFINE v == sess[s]
               w == [v EXCEPT !.at = "commit", !.setAsg = "ACCEPTED"]
               o == v.o
    <2>1. /\ v \in Work /\ o \in Orders /\ v.op = "accept_assignment"
          /\ asgStatus[o] = "ASSIGNED" /\ order[o] # NoRow
          /\ v.setOrder = Keep /\ v.setResponse = Keep
      BY <1>2, <1>6 DEF TakeOffer, Phases, SoundWork, Shaped
    <2>2. /\ w \in Work /\ w.o = o /\ w.op = "accept_assignment"
          /\ w.at = "commit" /\ w.setAsg = "ACCEPTED"
          /\ w.setOrder = Keep /\ w.setResponse = Keep
      BY <2>1 DEF Work, Phases, AssignmentStatuses
    <2>3. sess' = [sess EXCEPT ![s] = w]
      BY <1>6 DEF TakeOffer
    <2> HIDE DEF w, o
    <2>4. LeavesGood(w)
      <3>1. /\ Updated(order[o], w.setOrder) = order[o]
            /\ Updated(response[o], w.setResponse) = response[o]
            /\ Updated(asgStatus[o], w.setAsg) = "ACCEPTED"
        BY <2>2 DEF Updated, Keep
      <3>2. w.op # "deliver" /\ w.op \notin PaidOperations
        BY <2>2 DEF PaidOperations
      <3>3. (otpUsed[o] \/ w.op = "deliver") = otpUsed[o]
        BY <2>1, <3>2 DEF TypeOK
      <3>4. GoodRow(order[o], response[o], asgStatus[o], otpUsed[o], earnings[o])
        BY <2>1 DEF GoodRows
      <3>5. GoodRow(order[o], response[o], "ACCEPTED", otpUsed[o], earnings[o])
        BY <2>1, <3>4 DEF GoodRow, NoRow
      <3>6. QED
        BY <2>2, <3>1, <3>2, <3>3, <3>5 DEF LeavesGood
    <2>5. SoundWork(w)
      BY <2>1, <2>2, <2>4 DEF SoundWork, ActiveAssignment
    <2>6. QED
      BY <1>1, <1>6, <2>2, <2>3, <2>5 DEF TakeOffer
  <1>7. CASE ReadResponse(s)
    <2> DEFINE v == sess[s]
               o == v.o
               w == [v EXCEPT !.at = "commit",
                       !.setOrder = IF v.op = "accept_order" THEN "CONFIRMED"
                                    ELSE "CANCELLED",
                       !.setResponse = IF response[v.o] = NoRow THEN Answer(v.op)
                                       ELSE Keep]
    <2>1. /\ v \in Work /\ o \in Orders /\ v.op \in AnswerOps
          /\ order[o] = "PLACED" /\ v.setAsg = Keep
      BY <1>2, <1>7
      DEF ReadResponse, Phases, SoundWork, Shaped, AnswerOps, AssignmentOps
    <2>2. GoodRow("PLACED", response[o], asgStatus[o], otpUsed[o], earnings[o])
      BY <2>1 DEF GoodRows
    <2>3. /\ response[o] = NoRow /\ asgStatus[o] = NoRow
          /\ ~otpUsed[o] /\ earnings[o] = 0
      BY <2>2 DEF GoodRow, NoRow
    <2>4. /\ w \in Work /\ w.o = o /\ w.op = v.op /\ w.at = "commit"
          /\ w.setOrder = IF v.op = "accept_order" THEN "CONFIRMED"
                          ELSE "CANCELLED"
          /\ w.setResponse = Answer(v.op)
          /\ w.setAsg = Keep
      BY <2>1, <2>3
      DEF Work, Phases, OrderStatuses, ResponseActions, Answer, Keep
    <2>5. sess' = [sess EXCEPT ![s] = w]
      BY <1>7 DEF ReadResponse
    <2> HIDE DEF w, o
    <2>6. LeavesGood(w)
      <3>1. /\ Updated(order[o], w.setOrder) = w.setOrder
            /\ Updated(response[o], w.setResponse) = w.setResponse
            /\ Updated(asgStatus[o], w.setAsg) = NoRow
        BY <2>3, <2>4 DEF Updated, Keep, Answer
      <3>2. w.op # "deliver" /\ w.op \notin PaidOperations
        BY <2>1, <2>4 DEF PaidOperations, AnswerOps
      <3>3. (otpUsed[o] \/ w.op = "deliver") = FALSE
        BY <2>3, <3>2
      <3>4. GoodRow(w.setOrder, w.setResponse, NoRow, FALSE, 0)
        BY <2>1, <2>4 DEF GoodRow, NoRow, Answer, AnswerOps
      <3>5. QED
        BY <2>3, <2>4, <3>1, <3>2, <3>3, <3>4 DEF LeavesGood
    <2>7. SoundWork(w)
      BY <2>1, <2>4, <2>6 DEF SoundWork, AnswerOps, NoRow
    <2>8. QED
      BY <1>1, <1>7, <2>4, <2>5, <2>7 DEF ReadResponse
  <1>8. QED
    BY <1>3, <1>4, <1>5, <1>6, <1>7

\* Placing an order turns no row into a PLACED one; nobody works on it yet.
LEMMA PlacementKept ==
    ASSUME TypeOK, SessionsShaped, SerialInv, Placement
    PROVE  SerialInv'
  <1> USE DEF SerialInv, redis, tasks
  <1>1. /\ UNCHANGED <<response, asgStatus, asgPartner, otpUsed, earnings,
                       assignTasks, failTasks, sess>>
        /\ \A x \in Orders : \/ order'[x] = order[x]
                             \/ order[x] = NoRow /\ order'[x] = "PLACED"
    BY DEF Placement, PlaceOrder, PlaceOrdersForCart, TypeOK
  <1>2. GoodRows'
    <2>1. ASSUME NEW x \in Orders
          PROVE  GoodRow(order'[x], response[x], asgStatus[x], otpUsed[x],
                         earnings[x])
      <3>1. GoodRow(order[x], response[x], asgStatus[x], otpUsed[x], earnings[x])
        BY DEF GoodRows
      <3>2. CASE order[x] = NoRow /\ order'[x] = "PLACED"
        BY <3>1, <3>2 DEF GoodRow, NoRow
      <3>3. QED
        BY <1>1, <3>1, <3>2
    <2>2. QED
      BY <1>1, <2>1 DEF GoodRows
  <1>3. PartnerExclusive' /\ TasksFollow'
    BY <1>1 DEF PartnerExclusive, TasksFollow
  <1>4. ASSUME NEW t \in Sessions, sess[t] # Idle
        PROVE  SoundWork(sess[t])'
    <2>1. sess[t] \in Work /\ sess[t].o \in Orders /\ SoundWork(sess[t])
      BY <1>4 DEF SessionsShaped, ShapedWork, Work, SoundSessions
    <2>2. order'[sess[t].o] = order[sess[t].o]
      BY <1>1, <2>1 DEF SoundWork
    <2>3. QED
      BY <1>1, <2>1, <2>2 DEF SoundWork, Conflict, LeavesGood, Free
  <1>5. QED
    BY <1>1, <1>2, <1>3, <1>4 DEF SoundSessions

-----------------------------------------------------------------------------
(* Commits *)

\* The one session writes what it decided on: its order's row is good
\* because LeavesGood said so before, and no other row changes.
LEMMA CommitKept ==
    ASSUME TypeOK, SessionsShaped, Serial, SerialInv,
           NEW s \in Sessions, Commit(s)
    PROVE  SerialInv'
  <1> DEFINE w == sess[s]
             o == w.o
  <1>1. /\ w \in Work /\ Shaped(w) /\ o \in Orders /\ ~Conflict(w)
        /\ w.at = "commit" /\ SoundWork(w) /\ LeavesGood(w)
    BY CommitFacts DEF Commit, SerialInv, SoundSessions, SoundWork
  <1>2. /\ order'[o] = Updated(order[o], w.setOrder)
        /\ response'[o] = Updated(response[o], w.setResponse)
        /\ asgStatus'[o] = Updated(asgStatus[o], w.setAsg)
        /\ asgPartner'[o] = IF w.op = "do_assign" THEN w.p ELSE asgPartner[o]
        /\ otpUsed'[o] = (otpUsed[o] \/ w.op = "deliver")
        /\ earnings'[o] = IF w.op \in PaidOperations THEN earnings[o] + 1
                          ELSE earnings[o]
    BY <1>1 DEF Commit, TypeOK
  <1>3. \A x \in Orders \ {o} :
          /\ order'[x] = order[x]
          /\ response'[x] = response[x]
          /\ asgStatus'[x] = asgStatus[x]
          /\ asgPartner'[x] = asgPartner[x]
          /\ otpUsed'[x] = otpUsed[x]
          /\ earnings'[x] = earnings[x]
          /\ assignTasks'[x] = assignTasks[x]
    <2>1. \A x \in Orders \ {o} : order'[x] = order[x]
      BY <1>1 DEF Commit, TypeOK
    <2>2. QED
      BY <2>1, CommitFacts
  <1>4. /\ assignTasks'[o] > 0 =>
              \/ assignTasks[o] > 0
              \/ w.op = "accept_order"
              \/ w.op = "handle_timeout"
        /\ failTasks' \subseteq failTasks \cup {o}
        /\ o \in failTasks' => o \in failTasks \/ w.op = "handle_timeout"
    BY <1>1 DEF Commit, AfterCommit, TypeOK
  <1>5. sess'[s] = IF w.op = "do_assign" THEN [w EXCEPT !.at = "store_offer"]
                   ELSE Idle
    BY DEF Commit, AfterCommit, SessionsShaped
  <1> HIDE DEF w, o
  <1>6. GoodRow(order'[o], response'[o], asgStatus'[o], otpUsed'[o], earnings'[o])
    BY <1>1, <1>2 DEF LeavesGood, o
  <1>7. GoodRows'
    <2>1. ASSUME NEW x \in Orders
          PROVE  GoodRow(order'[x], response'[x], asgStatus'[x], otpUsed'[x],
                         earnings'[x])
      BY <1>3, <1>6 DEF SerialInv, GoodRows
    <2>2. QED
      BY <2>1 DEF GoodRows
  \* Who becomes busy was free; nobody else becomes busy.
  <1>8. asgStatus'[o] \in ActiveAssignment =>
          \/ asgStatus[o] \in ActiveAssignment /\ asgPartner'[o] = asgPartner[o]
          \/ Free(asgPartner'[o])
    <2>1. CASE w.op = "do_assign"
      BY <1>1, <1>2, <2>1 DEF SoundWork
    <2>2. CASE w.op # "do_assign"
      BY <1>1, <1>2, <2>2 DEF SoundWork, Updated, o
    <2>3. QED
      BY <2>1, <2>2
  <1>9. PartnerExclusive'
    <2>1. ASSUME NEW x \in Orders, x # o,
                 asgStatus[x] \in ActiveAssignment,
                 asgStatus'[o] \in ActiveAssignment
          PROVE  asgPartner[x] # asgPartner'[o]
      BY <1>1, <1>8, <2>1 DEF SerialInv, PartnerExclusive, Free
    <2>2. QED
      BY <1>1, <1>3, <2>1 DEF SerialInv, PartnerExclusive
  <1>10. response[o] # NoRow => response'[o] = response[o]
    BY <1>1, <1>2 DEF Conflict, Updated, o
  <1>11. w.op = "handle_timeout" => asgStatus'[o] = "TIMED_OUT"
    BY <1>1, <1>2 DEF Shaped, Updated, Keep
  <1>12. asgStatus[o] = "TIMED_OUT" => asgStatus'[o] = "TIMED_OUT"
    BY <1>1, <1>2
    DEF SoundWork, Conflict, Updated, ActiveAssignment, NoRow, o
  <1>13. TasksFollow'
    <2>1. assignTasks'[o] > 0 => response'[o] = "ACCEPTED"
      <3>1. CASE assignTasks[o] > 0
        BY <1>1, <1>10, <3>1 DEF SerialInv, TasksFollow, NoRow
      <3>2. CASE w.op = "accept_order"
        <4>1. order'[o] = "CONFIRMED"
          BY <1>1, <1>2, <3>2 DEF SoundWork, Updated, Keep
        <4>2. QED
          BY <1>6, <4>1 DEF GoodRow
      <3>3. CASE w.op = "handle_timeout"
        BY <1>6, <1>11, <3>3 DEF GoodRow, NoRow
      <3>4. QED
        BY <1>4, <3>1, <3>2, <3>3
    <2>2. o \in failTasks' => asgStatus'[o] = "TIMED_OUT"
      BY <1>1, <1>4, <1>11, <1>12 DEF SerialInv, TasksFollow
    <2>3. \A x \in Orders \ {o} :
            /\ assignTasks'[x] > 0 => response'[x] = "ACCEPTED"
            /\ x \in failTasks' => asgStatus'[x] = "TIMED_OUT"
      BY <1>3, <1>4 DEF SerialInv, TasksFollow
    <2>4. QED
      BY <1>1, <2>1, <2>2, <2>3 DEF TasksFollow
  <1>14. SoundSessions'
    <2>1. ASSUME NEW v, v.at = "store_offer", order'[v.o] # NoRow, sess'[s] = v
          PROVE  SoundSessions'
      <3>1. \A t \in Sessions : sess'[t] = v
        BY <2>1 DEF Serial
      <3>2. SoundWork(v)'
        BY <2>1 DEF SoundWork
      <3>3. QED
        BY <3>1, <3>2 DEF SoundSessions
    <2>2. CASE w.op = "do_assign"
      <3>1. PICK v : v = [w EXCEPT !.at = "store_offer"]
        OBVIOUS
      <3>2. v.at = "store_offer" /\ v.o = o
        BY <1>1, <3>1 DEF Work, o
      <3>3. order'[o] # NoRow
        BY <1>1, <1>2 DEF SoundWork, Updated, Work, OrderStatuses, NoRow, o
      <3>4. QED
        BY <1>5, <2>1, <2>2, <3>1, <3>2, <3>3
    <2>3. CASE w.op # "do_assign"
      BY <1>5, <2>3 DEF SoundSessions, Serial
    <2>4. QED
      BY <2>2, <2>3
  <1>15. QED
    BY <1>7, <1>9, <1>13, <1>14 DEF SerialInv

LEMMA RestartKept ==
    ASSUME TypeOK, SessionsShaped, SerialInv, Restart
    PROVE  SerialInv'
  <1>1. /\ UNCHANGED db
        /\ \A x \in Orders : assignTasks'[x] > 0 => assignTasks[x] > 0
        /\ failTasks' \subseteq failTasks
        /\ \A t \in Sessions : sess'[t] \in {Idle, sess[t]}
    BY DEF Restart
  <1>2. QED
    BY <1>1, QuietKept

\* Expired keys and stuttering.
LEMMA StillKept ==
    ASSUME SessionsShaped, SerialInv, UNCHANGED <<db, tasks, sess>>
    PROVE  SerialInv'
  <1>1. /\ \A x \in Orders : assignTasks'[x] > 0 => assignTasks[x] > 0
        /\ failTasks' \subseteq failTasks
        /\ \A t \in Sessions : sess'[t] \in {Idle, sess[t]}
    BY DEF tasks
  <1>2. QED
    BY <1>1, QuietKept

LEMMA SerialStep ==
    ASSUME TypeOK, SessionsShaped, Serial, SerialInv, [Next]_vars
    PROVE  SerialInv'
  <1>1. ASSUME NEW s \in Sessions, Requests(s)
        PROVE  SerialInv'
    <2>1. PICK o \in Orders : ReadingRequest(s, o) \/ RejectAssignment(s, o)
      BY <1>1 DEF Requests, ReadingRequest
    <2>2. OpensSound(s)
      BY <2>1, RequestSound DEF Serial
    <2>3. QED
      BY <2>2, OpenKept
  <1>2. ASSUME NEW s \in Sessions, BackgroundTasks(s)
        PROVE  SerialInv'
    <2>1. PICK o \in Orders : AutoReject(s, o) \/ DoAssign(s, o)
                                \/ HandleTimeout(s, o) \/ FailOrder(s, o)
      BY <1>2 DEF BackgroundTasks
    <2>2. QED
      BY <2>1, BackgroundSound, OpenKept
  <1>3. ASSUME NEW s \in Sessions, Continue(s) \/ Abort(s)
        PROVE  SerialInv'
    BY <1>3, ContinueKept, CommitKept DEF Continue
  <1>4. CASE Expiry \/ UNCHANGED vars
    <2>1. UNCHANGED <<db, tasks, sess>>
      BY <1>4
      DEF Expiry, ExpireOffer, ExpireRejected, ExpireUnassigned, vars, db, tasks
    <2>2. QED
      BY <2>1, StillKept
  <1>5. QED
    BY <1>1, <1>2, <1>3, <1>4, PlacementKept, RestartKept DEF Next, Faults

\* Nothing is placed and nobody works.
LEMMA SerialInit == Init => SerialInv
  BY DEF Init, SerialInv, GoodRows, GoodRow, SoundSessions, TasksFollow,
         PartnerExclusive, ActiveAssignment, NoRow

-----------------------------------------------------------------------------
(* Theorems about handlers that do not overlap, without the webhook *)

\* The rows of every order agree in every reachable state.
THEOREM SerialInvariant ==
    ASSUME Serial
    PROVE  Spec => []SerialInv
  <1>1. DispatchInv /\ SerialInv /\ [Next]_vars => SerialInv'
    BY SerialStep DEF DispatchInv
  <1>2. QED
    BY <1>1, SerialInit, InvariantHolds, PTL DEF Spec

\* No partner has two active assignments: the dispatch query and the commit
\* of _do_assign are not separated by another handler.
THEOREM SerialPartnerExclusive ==
    ASSUME Serial
    PROVE  Spec => []PartnerExclusive
  <1>1. SerialInv => PartnerExclusive
    BY DEF SerialInv
  <1>2. QED
    BY <1>1, SerialInvariant, PTL

\* orders.status and the order_responses row agree, restarts included.
THEOREM SerialAudit ==
    ASSUME Serial
    PROVE  Spec => []StatusAgreesWithAudit
  <1>1. SerialInv => StatusAgreesWithAudit
    BY DEF SerialInv, GoodRows, GoodRow, StatusAgreesWithAudit
  <1>2. QED
    BY <1>1, SerialInvariant, PTL

\* orders.status follows delivery_assignments.status, although no handler of
\* the restaurant or the customer looks at the assignment.
THEOREM SerialOrderFollows ==
    ASSUME Serial
    PROVE  Spec => []OrderFollowsDelivery
  <1>1. SerialInv => OrderFollowsDelivery
    BY DEF SerialInv, GoodRows, GoodRow, OrderFollowsDelivery
  <1>2. QED
    BY <1>1, SerialInvariant, PTL

\* One earnings row for each finished delivery and none for another order.
THEOREM SerialDelivery ==
    ASSUME Serial
    PROVE  Spec => []DeliveryMovesTogether
  <1>1. SerialInv => DeliveryMovesTogether
    BY DEF SerialInv, GoodRows, GoodRow, DeliveryMovesTogether
  <1>2. QED
    BY <1>1, SerialInvariant, PTL

\* No order under way drops off both the live list of its restaurant and the
\* active delivery of its partner.
THEOREM SerialOrderShown ==
    ASSUME Serial
    PROVE  Spec => []NoOrderIsLost
  <1>1. ASSUME TypeOK, SerialInv, NEW o \in Orders
        PROVE  /\ UnderWay(o) => \/ o \in LiveOrders
                                 \/ ActiveAssignments(asgPartner[o]) = {o}
               /\ o \in WaitingForAgent =>
                     asgStatus[o] \notin {"PICKED_UP", "REACHED_CUSTOMER",
                                          "DELIVERED"}
               /\ UnderWay(o) /\ o \notin LiveOrders =>
                     o \in RestaurantOrders(Word[order[o]])
    <2>1. GoodRow(order[o], response[o], asgStatus[o], otpUsed[o], earnings[o])
      BY <1>1 DEF SerialInv, GoodRows
    <2>2. UnderWay(o) /\ o \notin LiveOrders => order[o] = "OUT_FOR_DELIVERY"
      BY <1>1
      DEF TypeOK, UnderWay, LiveOrders, OrderStatuses, TerminalOrderStatuses
    <2>3. order[o] = "OUT_FOR_DELIVERY" =>
            asgStatus[o] \in {"PICKED_UP", "REACHED_CUSTOMER"}
      BY <2>1 DEF GoodRow
    <2>4. asgStatus[o] \in {"PICKED_UP", "REACHED_CUSTOMER"} =>
            ActiveAssignments(asgPartner[o]) = {o}
      BY <1>1
      DEF SerialInv, PartnerExclusive, ActiveAssignments, ActiveAssignment
    <2>5. o \in WaitingForAgent => order[o] = "READY_FOR_PICKUP"
      BY DEF WaitingForAgent, RestaurantOrders, StatusOfWord
    <2>6. order[o] = "OUT_FOR_DELIVERY" => o \in RestaurantOrders(Word[order[o]])
      BY DEF RestaurantOrders, StatusOfWord, Word
    <2>7. order[o] = "READY_FOR_PICKUP" =>
            asgStatus[o] \notin {"PICKED_UP", "REACHED_CUSTOMER", "DELIVERED"}
      BY <2>1 DEF GoodRow
    <2>8. QED
      BY <2>2, <2>3, <2>4, <2>5, <2>6, <2>7
  <1>2. TypeOK /\ SerialInv => NoOrderIsLost
    BY <1>1 DEF NoOrderIsLost
  <1>3. QED
    BY <1>2, SerialInvariant, TypeCorrect, PTL
=============================================================================
