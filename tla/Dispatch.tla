------------------------------ MODULE Dispatch ------------------------------
(***************************************************************************)
(* The life of an order from placement to delivery: the restaurant's       *)
(* answer, the kitchen, the customer's cancellation, the status webhook,   *)
(* the choice of a delivery partner, the offer with its timer, and the     *)
(* delivery itself.                                                        *)
(*                                                                         *)
(* Every handler works in a database session of its own: it reads rows,    *)
(* decides on what it read, and much later commits the columns it changed. *)
(* Nothing locks a row or compares a version, so the commit overwrites     *)
(* whatever other sessions committed in between; only the UNIQUE(order_id) *)
(* constraints of order_responses and delivery_assignments make a commit   *)
(* fail.  Redis calls take effect at once and are not undone by a          *)
(* rollback.  A handler is therefore an action that reads (its guards) and *)
(* leaves its pending writes in a session, and Commit applies them.        *)
(*                                                                         *)
(* asyncio tasks live in the process and are lost by a restart.  An        *)
(* elapsed time is not modelled: a timer may fire any time after it is     *)
(* armed, and a Redis key with a TTL may expire any time after it is set.  *)
(***************************************************************************)
EXTENDS OrderStatus, Naturals, FiniteSets

CONSTANTS
    Orders,      \* the orders that may be placed
    Partners,    \* the approved delivery partners
    NoPartner,   \* the partner column of an assignment row that is not there
    Sessions,    \* how many handlers and tasks may be in flight at once
    Webhook,     \* TRUE iff the status webhook is called
    MaxFaults    \* how many restarts and failed transactions may happen

ASSUME ConstantsAssumption ==
    /\ NoPartner \notin Partners
    /\ Webhook \in BOOLEAN
    /\ MaxFaults \in Nat

VARIABLES
    \* PostgreSQL
    order,       \* orders.status
    response,    \* order_responses.action
    asgStatus,   \* delivery_assignments.status
    asgPartner,  \* delivery_assignments.partner_id
    otpUsed,     \* delivery_otps.is_used
    earnings,    \* number of partner_earnings rows of the order
    \* Redis
    offerKeys,   \* partners with a key assignment_pending:{partner}
    rejected,    \* rejected_partners:{order}
    unassigned,  \* orders with a key unassigned:{order}
    \* asyncio tasks that wait for their turn or for their sleep to end
    autoReject,  \* orders with an _auto_reject task
    assignTasks, \* number of auto_assign_partner tasks of the order
    offerTimer,  \* the _handle_timeout task of the order's offer
    failTasks,   \* orders whose timeout found no remaining partner
    \* handlers and tasks in flight
    sess,
    faults       \* restarts and failed transactions so far

db    == <<order, response, asgStatus, asgPartner, otpUsed, earnings>>
redis == <<offerKeys, rejected, unassigned>>
tasks == <<autoReject, assignTasks, offerTimer, failTasks>>
vars  == <<order, response, asgStatus, asgPartner, otpUsed, earnings,
           offerKeys, rejected, unassigned,
           autoReject, assignTasks, offerTimer, failTasks, sess, faults>>

-----------------------------------------------------------------------------
(* Sessions *)

Keep == "KEEP"            \* the session does not write this column

Operations ==
    {"accept_order", "reject_order", "mark_preparing", "mark_ready",
     "cancel_order", "update_status", "do_assign", "handle_timeout",
     "fail_order", "accept_assignment", "reject_assignment",
     "reached_restaurant", "picked_up", "reached_customer", "deliver",
     "fail_delivery"}

\* Where a session stands: about to read order_responses, about to read or to
\* delete the offer key, about to commit, or past a commit with steps left.
Phases ==
    {"read_response", "check_offer", "take_offer", "commit", "store_offer",
     "arm_timer"}

Work ==
    [op : Operations, at : Phases, o : Orders, p : Partners \cup {NoPartner},
     setOrder : OrderStatuses \cup {Keep},
     setAsg : AssignmentStatuses \cup {Keep},
     setResponse : ResponseActions \cup {Keep},
     more : BOOLEAN]

Idle == [op |-> "idle", at |-> "idle"]

\* A session of operation op on order o at a phase, with no writes yet.
Started(op, o, phase) ==
    [op |-> op, at |-> phase, o |-> o, p |-> asgPartner[o],
     setOrder |-> Keep, setAsg |-> Keep, setResponse |-> Keep,
     more |-> FALSE]

\* An ORM attribute set to the value that was read is not written back.
Write(read, new) == IF new = read THEN Keep ELSE new

OrderWrite(op, o, new) ==
    [Started(op, o, "commit") EXCEPT !.setOrder = Write(order[o], new)]

AsgWrite(op, o, new) ==
    [Started(op, o, "commit") EXCEPT !.setAsg = Write(asgStatus[o], new)]

DeliveryWrite(op, o, newAsg, newOrder) ==
    [AsgWrite(op, o, newAsg) EXCEPT !.setOrder = Write(order[o], newOrder)]

Begin(s, work) ==
    /\ sess[s] = Idle
    /\ sess' = [sess EXCEPT ![s] = work]

-----------------------------------------------------------------------------
(* Placing orders.  The checkout itself (cart, prices, coupon) is another  *)
(* component; here it is the insertion of PLACED rows and what it starts.  *)

\* Mutant: dispatch already starts with the placement.
PlaceOrder_Dispatches(o) ==
    /\ order[o] = NoRow
    /\ order' = [order EXCEPT ![o] = "PLACED"]
    /\ autoReject' = autoReject \cup {o}
    /\ assignTasks' = [assignTasks EXCEPT ![o] = @ + 1]
    /\ UNCHANGED <<response, asgStatus, asgPartner, otpUsed, earnings, redis,
                   offerTimer, failTasks, sess, faults>>

PlaceOrder(o) ==
    /\ order[o] = NoRow
    /\ order' = [order EXCEPT ![o] = "PLACED"]
    /\ autoReject' = autoReject \cup {o}
    /\ UNCHANGED <<response, asgStatus, asgPartner, otpUsed, earnings, redis,
                   assignTasks, offerTimer, failTasks, sess, faults>>

\* A cart with items of several restaurants becomes one order for each; this
\* path of place_orders_for_cart starts no task at all.
PlaceOrdersForCart(os) ==
    /\ Cardinality(os) > 1
    /\ \A o \in os : order[o] = NoRow
    /\ order' = [o \in Orders |-> IF o \in os THEN "PLACED" ELSE order[o]]
    /\ UNCHANGED <<response, asgStatus, asgPartner, otpUsed, earnings, redis,
                   tasks, sess, faults>>

-----------------------------------------------------------------------------
(* Restaurant *)

\* Mutant: accept_order without the status check.
AcceptOrder_AnyStatus(s, o) ==
    /\ order[o] # NoRow
    /\ Begin(s, Started("accept_order", o, "read_response"))
    /\ UNCHANGED <<db, redis, tasks, faults>>

\* accept_order and reject_order read the order, then the response.
AcceptOrder(s, o) ==
    /\ order[o] = "PLACED"
    /\ Begin(s, Started("accept_order", o, "read_response"))
    /\ UNCHANGED <<db, redis, tasks, faults>>

RejectOrder(s, o) ==
    /\ order[o] = "PLACED"
    /\ Begin(s, Started("reject_order", o, "read_response"))
    /\ UNCHANGED <<db, redis, tasks, faults>>

\* Mutant: the task compares the status with a word no order has.
AutoReject_WrongWord(s, o) ==
    /\ o \in autoReject
    /\ sess[s] = Idle
    /\ autoReject' = autoReject \ {o}
    /\ IF order[o] = "placed"
       THEN Begin(s, Started("reject_order", o, "read_response"))
       ELSE UNCHANGED sess
    /\ UNCHANGED <<db, redis, assignTasks, offerTimer, failTasks, faults>>

\* The task's sleep is over.  It runs reject_order in the session in which it
\* read the order, so reject_order sees the same status again.
AutoReject(s, o) ==
    /\ o \in autoReject
    /\ sess[s] = Idle
    /\ autoReject' = autoReject \ {o}
    /\ IF order[o] = "PLACED"
       THEN Begin(s, Started("reject_order", o, "read_response"))
       ELSE UNCHANGED sess
    /\ UNCHANGED <<db, redis, assignTasks, offerTimer, failTasks, faults>>

\* Second half of accept_order and reject_order: the answer is inserted only
\* if none is seen, the status is written in either case.
Answer(op) == IF op = "accept_order" THEN "ACCEPTED" ELSE "REJECTED"

ReadResponse(s) ==
    /\ sess[s].at = "read_response"
    /\ LET w == sess[s] IN
       sess' = [sess EXCEPT
           ![s].at = "commit",
           ![s].setOrder = IF w.op = "accept_order" THEN "CONFIRMED"
                           ELSE "CANCELLED",
           ![s].setResponse = IF response[w.o] = NoRow THEN Answer(w.op)
                              ELSE Keep]
    /\ UNCHANGED <<db, redis, tasks, faults>>

MarkPreparing(s, o) ==
    /\ order[o] = "CONFIRMED"
    /\ Begin(s, OrderWrite("mark_preparing", o, "PREPARING"))
    /\ UNCHANGED <<db, redis, tasks, faults>>

MarkReady(s, o) ==
    /\ order[o] = "PREPARING"
    /\ Begin(s, OrderWrite("mark_ready", o, "READY_FOR_PICKUP"))
    /\ UNCHANGED <<db, redis, tasks, faults>>

-----------------------------------------------------------------------------
(* Customer and webhook *)

CancelOrder(s, o) ==
    /\ order[o] \in UserCancellable
    /\ Begin(s, OrderWrite("cancel_order", o, "CANCELLED"))
    /\ UNCHANGED <<db, redis, tasks, faults>>

UpdateStatus(s, o) ==
    /\ Webhook
    /\ order[o] # NoRow
    /\ \E new \in ValidTransitions[order[o]] :
           Begin(s, OrderWrite("update_status", o, new))
    /\ UNCHANGED <<db, redis, tasks, faults>>

-----------------------------------------------------------------------------
(* Dispatch *)

\* Mutant: the shorter list of statuses that SPEC2.md gives for the query.
Busy_ShortList(p) ==
    \E o \in Orders : asgPartner[o] = p
                     /\ asgStatus[o] \in {"ASSIGNED", "ACCEPTED", "PICKED_UP"}

Busy(p) ==
    \E o \in Orders : asgPartner[o] = p /\ asgStatus[o] \in ActiveAssignment

\* Whom find_nearest_partners can return for o.  Who of them is on duty, has
\* a fresh location and is among the nearest is chosen by the environment.
Eligible(o) == {p \in Partners : ~Busy(p) /\ p \notin rejected[o]}

\* A row in a status that dispatch leaves alone.
Held(o) == asgStatus[o] \notin ReassignableAssignment \cup {NoRow}

DoAssign(s, o) ==
    /\ assignTasks[o] > 0
    /\ sess[s] = Idle
    /\ assignTasks' = [assignTasks EXCEPT ![o] = @ - 1]
    /\ \/ /\ Held(o)
          /\ UNCHANGED <<sess, unassigned>>
       \/ /\ ~Held(o)
          /\ unassigned' = unassigned \cup {o}
          /\ UNCHANGED sess
       \/ /\ ~Held(o)
          /\ \E p \in Eligible(o) : \E more \in BOOLEAN :
                /\ more => Eligible(o) # {p}
                /\ Begin(s, [Started("do_assign", o, "commit") EXCEPT
                                !.p = p, !.setAsg = "ASSIGNED", !.more = more])
          /\ UNCHANGED unassigned
    /\ UNCHANGED <<db, offerKeys, rejected, autoReject, offerTimer, failTasks,
                   faults>>

\* Mutant: the offer's timer is forgotten.
StoreOffer_NoTimer(s) ==
    /\ sess[s].at = "store_offer"
    /\ offerKeys' = offerKeys \cup {sess[s].p}
    /\ unassigned' = unassigned \ {sess[s].o}
    /\ sess' = [sess EXCEPT ![s] = Idle]
    /\ UNCHANGED <<db, rejected, tasks, faults>>

\* After the commit of do_assign: the offer key, then the timer.
StoreOffer(s) ==
    /\ sess[s].at = "store_offer"
    /\ offerKeys' = offerKeys \cup {sess[s].p}
    /\ unassigned' = unassigned \ {sess[s].o}
    /\ sess' = [sess EXCEPT ![s].at = "arm_timer"]
    /\ UNCHANGED <<db, rejected, tasks, faults>>

ArmTimer(s) ==
    /\ sess[s].at = "arm_timer"
    /\ offerTimer' = [offerTimer EXCEPT
                         ![sess[s].o] = IF sess[s].more THEN "more" ELSE "last"]
    /\ sess' = [sess EXCEPT ![s] = Idle]
    /\ UNCHANGED <<db, redis, autoReject, assignTasks, failTasks, faults>>

\* The timer of the offer fires.
HandleTimeout(s, o) ==
    /\ offerTimer[o] # "off"
    /\ sess[s] = Idle
    /\ offerTimer' = [offerTimer EXCEPT ![o] = "off"]
    /\ IF asgStatus[o] = "ASSIGNED"
       THEN /\ rejected' = [rejected EXCEPT ![o] = @ \cup {asgPartner[o]}]
            /\ Begin(s, [AsgWrite("handle_timeout", o, "TIMED_OUT") EXCEPT
                            !.more = (offerTimer[o] = "more")])
       ELSE UNCHANGED <<rejected, sess>>
    /\ UNCHANGED <<db, offerKeys, unassigned, autoReject, assignTasks,
                   failTasks, faults>>

\* The timeout left no further partner: the order fails, in a new session.
FailOrder(s, o) ==
    /\ o \in failTasks
    /\ sess[s] = Idle
    /\ failTasks' = failTasks \ {o}
    /\ IF order[o] \in {"DELIVERED", "CANCELLED"}
       THEN UNCHANGED sess
       ELSE Begin(s, OrderWrite("fail_order", o, "FAILED"))
    /\ UNCHANGED <<db, redis, autoReject, assignTasks, offerTimer, faults>>

-----------------------------------------------------------------------------
(* Delivery partner: every handler acts for the partner of the assignment.  *)

AcceptAssignment(s, o) ==
    /\ asgStatus[o] = "ASSIGNED"
    /\ Begin(s, Started("accept_assignment", o, "check_offer"))
    /\ UNCHANGED <<db, redis, tasks, faults>>

CheckOffer(s) ==
    /\ sess[s].at = "check_offer"
    /\ sess' = [sess EXCEPT ![s] = IF sess[s].p \in offerKeys
                                   THEN [sess[s] EXCEPT !.at = "take_offer"]
                                   ELSE Idle]
    /\ UNCHANGED <<db, redis, tasks, faults>>

TakeOffer(s) ==
    /\ sess[s].at = "take_offer"
    /\ offerKeys' = offerKeys \ {sess[s].p}
    /\ sess' = [sess EXCEPT ![s].at = "commit", ![s].setAsg = "ACCEPTED"]
    /\ UNCHANGED <<db, rejected, unassigned, tasks, faults>>

\* The reassignment task is created before the request's transaction commits.
RejectAssignment(s, o) ==
    /\ asgStatus[o] = "ASSIGNED"
    /\ Begin(s, AsgWrite("reject_assignment", o, "REJECTED"))
    /\ offerKeys' = offerKeys \ {asgPartner[o]}
    /\ rejected' = [rejected EXCEPT ![o] = @ \cup {asgPartner[o]}]
    /\ assignTasks' = [assignTasks EXCEPT ![o] = @ + 1]
    /\ UNCHANGED <<db, unassigned, autoReject, offerTimer, failTasks, faults>>

ReachedRestaurant(s, o) ==
    /\ asgStatus[o] = "ACCEPTED"
    /\ Begin(s, AsgWrite("reached_restaurant", o, "REACHED_RESTAURANT"))
    /\ UNCHANGED <<db, redis, tasks, faults>>

\* The order's own status is overwritten without being looked at.
PickedUp(s, o) ==
    /\ asgStatus[o] \in {"ACCEPTED", "REACHED_RESTAURANT"}
    /\ Begin(s, DeliveryWrite("picked_up", o, "PICKED_UP", "OUT_FOR_DELIVERY"))
    /\ UNCHANGED <<db, redis, tasks, faults>>

ReachedCustomer(s, o) ==
    /\ asgStatus[o] = "PICKED_UP"
    /\ Begin(s, AsgWrite("reached_customer", o, "REACHED_CUSTOMER"))
    /\ UNCHANGED <<db, redis, tasks, faults>>

\* Mutant: a failed delivery can still be completed.
Deliver_AfterFailure(s, o) ==
    /\ asgStatus[o] \in {"PICKED_UP", "REACHED_CUSTOMER", "FAILED"}
    /\ ~otpUsed[o]
    /\ Begin(s, DeliveryWrite("deliver", o, "DELIVERED", "DELIVERED"))
    /\ UNCHANGED <<db, redis, tasks, faults>>

\* A delivery with the right, unexpired code; any other code changes nothing.
Deliver(s, o) ==
    /\ asgStatus[o] \in {"PICKED_UP", "REACHED_CUSTOMER"}
    /\ ~otpUsed[o]
    /\ Begin(s, DeliveryWrite("deliver", o, "DELIVERED", "DELIVERED"))
    /\ UNCHANGED <<db, redis, tasks, faults>>

FailDelivery(s, o) ==
    /\ asgStatus[o] \in {"PICKED_UP", "REACHED_CUSTOMER"}
    /\ Begin(s, DeliveryWrite("fail_delivery", o, "FAILED", "FAILED"))
    /\ UNCHANGED <<db, redis, tasks, faults>>

-----------------------------------------------------------------------------
(* The end of a transaction *)

\* Mutant: delivery_assignments without its unique constraint.
Conflict_ResponsesOnly(w) == w.setResponse # Keep /\ response[w.o] # NoRow

\* A second row for the order violates UNIQUE(order_id).
Conflict(w) ==
    \/ w.op = "do_assign" /\ asgStatus[w.o] # NoRow
    \/ w.setResponse # Keep /\ response[w.o] # NoRow

Updated(row, write) == IF write = Keep THEN row ELSE write

\* Mutant: no partial pay for a failed delivery.
PaidOperations_DeliveredOnly == {"deliver"}

\* The handlers that insert a partner_earnings row.
PaidOperations == {"deliver", "fail_delivery"}

\* What the handler does once its transaction is committed.
AfterCommit(s, w) ==
    /\ sess' = [sess EXCEPT ![s] =
           IF w.op = "do_assign" THEN [w EXCEPT !.at = "store_offer"] ELSE Idle]
    /\ assignTasks' =
           IF w.op = "accept_order" \/ (w.op = "handle_timeout" /\ w.more)
           THEN [assignTasks EXCEPT ![w.o] = @ + 1] ELSE assignTasks
    /\ failTasks' =
           IF w.op = "handle_timeout" /\ ~w.more
           THEN failTasks \cup {w.o} ELSE failTasks
    /\ UNCHANGED <<autoReject, offerTimer>>

Commit(s) ==
    LET w == sess[s] IN
    /\ w.at = "commit"
    /\ ~Conflict(w)
    /\ order' = [order EXCEPT ![w.o] = Updated(@, w.setOrder)]
    /\ response' = [response EXCEPT ![w.o] = Updated(@, w.setResponse)]
    /\ asgStatus' = [asgStatus EXCEPT ![w.o] = Updated(@, w.setAsg)]
    /\ asgPartner' = [asgPartner EXCEPT
                         ![w.o] = IF w.op = "do_assign" THEN w.p ELSE @]
    /\ otpUsed' = [otpUsed EXCEPT ![w.o] = @ \/ w.op = "deliver"]
    /\ earnings' = [earnings EXCEPT
           ![w.o] = IF w.op \in PaidOperations THEN @ + 1 ELSE @]
    /\ AfterCommit(s, w)
    /\ UNCHANGED <<redis, faults>>

Rollback(s) ==
    /\ sess[s].at = "commit"
    /\ Conflict(sess[s])
    /\ sess' = [sess EXCEPT ![s] = Idle]
    /\ UNCHANGED <<db, redis, tasks, faults>>

-----------------------------------------------------------------------------
(* Environment *)

\* An exception other than a conflict: get_db, or the task, rolls back.
Abort(s) ==
    /\ faults < MaxFaults
    /\ sess[s] # Idle
    /\ sess' = [sess EXCEPT ![s] = Idle]
    /\ faults' = faults + 1
    /\ UNCHANGED <<db, redis, tasks>>

\* The process restarts: PostgreSQL and Redis keep their state, nothing
\* rebuilds the tasks.
Restart ==
    /\ faults < MaxFaults
    /\ faults' = faults + 1
    /\ sess' = [s \in Sessions |-> Idle]
    /\ autoReject' = {}
    /\ assignTasks' = [o \in Orders |-> 0]
    /\ offerTimer' = [o \in Orders |-> "off"]
    /\ failTasks' = {}
    /\ UNCHANGED <<db, redis>>

ExpireOffer(p) ==
    /\ p \in offerKeys
    /\ offerKeys' = offerKeys \ {p}
    /\ UNCHANGED <<db, rejected, unassigned, tasks, sess, faults>>

ExpireRejected(o) ==
    /\ rejected[o] # {}
    /\ rejected' = [rejected EXCEPT ![o] = {}]
    /\ UNCHANGED <<db, offerKeys, unassigned, tasks, sess, faults>>

ExpireUnassigned(o) ==
    /\ o \in unassigned
    /\ unassigned' = unassigned \ {o}
    /\ UNCHANGED <<db, offerKeys, rejected, tasks, sess, faults>>

-----------------------------------------------------------------------------
(* Specification *)

Init ==
    /\ order = [o \in Orders |-> NoRow]
    /\ response = [o \in Orders |-> NoRow]
    /\ asgStatus = [o \in Orders |-> NoRow]
    /\ asgPartner = [o \in Orders |-> NoPartner]
    /\ otpUsed = [o \in Orders |-> FALSE]
    /\ earnings = [o \in Orders |-> 0]
    /\ offerKeys = {}
    /\ rejected = [o \in Orders |-> {}]
    /\ unassigned = {}
    /\ autoReject = {}
    /\ assignTasks = [o \in Orders |-> 0]
    /\ offerTimer = [o \in Orders |-> "off"]
    /\ failTasks = {}
    /\ sess = [s \in Sessions |-> Idle]
    /\ faults = 0

Placement ==
    \/ \E o \in Orders : PlaceOrder(o)
    \/ \E os \in SUBSET Orders : PlaceOrdersForCart(os)

Requests(s) ==
    \E o \in Orders :
        \/ AcceptOrder(s, o) \/ RejectOrder(s, o)
        \/ MarkPreparing(s, o) \/ MarkReady(s, o)
        \/ CancelOrder(s, o) \/ UpdateStatus(s, o)
        \/ AcceptAssignment(s, o) \/ RejectAssignment(s, o)
        \/ ReachedRestaurant(s, o) \/ PickedUp(s, o) \/ ReachedCustomer(s, o)
        \/ Deliver(s, o) \/ FailDelivery(s, o)

BackgroundTasks(s) ==
    \E o \in Orders :
        \/ AutoReject(s, o) \/ DoAssign(s, o)
        \/ HandleTimeout(s, o) \/ FailOrder(s, o)

\* What an in-flight handler does next, whoever started it.
Continue(s) ==
    \/ ReadResponse(s) \/ CheckOffer(s) \/ TakeOffer(s)
    \/ Commit(s) \/ Rollback(s) \/ StoreOffer(s) \/ ArmTimer(s)

Faults == Restart \/ \E s \in Sessions : Abort(s)

Expiry ==
    \/ \E p \in Partners : ExpireOffer(p)
    \/ \E o \in Orders : ExpireRejected(o) \/ ExpireUnassigned(o)

Next ==
    \/ Placement
    \/ \E s \in Sessions : Requests(s) \/ BackgroundTasks(s) \/ Continue(s)
    \/ Faults
    \/ Expiry

Spec == Init /\ [][Next]_vars

-----------------------------------------------------------------------------
(* Type invariant *)

TypeOK ==
    /\ order \in [Orders -> OrderStatuses \cup {NoRow}]
    /\ response \in [Orders -> ResponseActions \cup {NoRow}]
    /\ asgStatus \in [Orders -> AssignmentStatuses \cup {NoRow}]
    /\ asgPartner \in [Orders -> Partners \cup {NoPartner}]
    /\ otpUsed \in [Orders -> BOOLEAN]
    /\ earnings \in [Orders -> Nat]
    /\ offerKeys \subseteq Partners
    /\ rejected \in [Orders -> SUBSET Partners]
    /\ unassigned \subseteq Orders
    /\ autoReject \subseteq Orders
    /\ assignTasks \in [Orders -> Nat]
    /\ offerTimer \in [Orders -> {"off", "more", "last"}]
    /\ failTasks \subseteq Orders
    /\ sess \in [Sessions -> Work \cup {Idle}]
    /\ faults \in Nat

-----------------------------------------------------------------------------
(* What holds however handlers, tasks, faults and expiries interleave *)

\* Session s runs operation op on order o.
Running(s, op, o) == sess[s] # Idle /\ sess[s].op = op /\ sess[s].o = o

\* No partner is looked for, chosen or offered an order before the restaurant
\* has answered it: auto_assign_partner never looks at the order's status, so
\* this rests on who starts it, on the order of commit and create_task in
\* accept_order, and on the reassignments all stemming from a first offer.
DispatchOnlyAfterResponse ==
    \A o \in Orders :
        (\/ asgStatus[o] # NoRow
         \/ assignTasks[o] > 0
         \/ \E s \in Sessions : Running(s, "do_assign", o))
        => response[o] # NoRow

\* As long as the process has not failed, an unanswered offer is watched: its
\* timer is armed, or about to be armed by the session that made the offer, or
\* has fired in a session that will write TIMED_OUT.  _handle_timeout reads
\* the status once and never runs again, so an offer it let go by would block
\* the partner and the order for ever.
OfferIsWatched ==
    faults = 0 =>
        \A o \in Orders : asgStatus[o] = "ASSIGNED" =>
            \/ offerTimer[o] # "off"
            \/ \E s \in Sessions :
                   \/ Running(s, "do_assign", o)
                      /\ sess[s].at \in {"store_offer", "arm_timer"}
                   \/ Running(s, "handle_timeout", o)

\* A finished delivery was paid, whatever else was in flight: DELIVERED and
\* FAILED are only written together with a partner_earnings row, and DELIVERED
\* together with the use of the customer's code.
FinishedMeansPaid ==
    \A o \in Orders :
        /\ asgStatus[o] \in {"DELIVERED", "FAILED"} => earnings[o] > 0
        /\ asgStatus[o] = "DELIVERED" => otpUsed[o]

\* An order keeps the partner of its first offer: the unique order_id and the
\* missing reuse of the row mean that no step hands the order to another
\* partner or makes the offer again, although the code retries in three places.
OfferedOnce ==
    [][\A o \in Orders : asgStatus[o] # NoRow =>
           /\ asgPartner'[o] = asgPartner[o]
           /\ asgStatus'[o] = "ASSIGNED" => asgStatus[o] = "ASSIGNED"]_vars

-----------------------------------------------------------------------------
(* What holds when handlers do not overlap (one session) and the webhook is *)
(* not used                                                                 *)

\* A partner works on one assignment at a time: find_nearest_partners leaves
\* out everyone with an active assignment.
PartnerExclusive ==
    \A o1, o2 \in Orders :
        /\ o1 # o2
        /\ {asgStatus[o1], asgStatus[o2]} \subseteq ActiveAssignment
        => asgPartner[o1] # asgPartner[o2]

\* The response audit agrees with the order: a rejected order is cancelled and
\* stays so, and only an accepted order gets into the kitchen.
StatusAgreesWithAudit ==
    \A o \in Orders :
        /\ response[o] = "REJECTED" => order[o] = "CANCELLED"
        /\ order[o] \in {"CONFIRMED", "PREPARING", "READY_FOR_PICKUP"}
              => response[o] = "ACCEPTED"

\* The order and the assignment tell the same story once the food is picked
\* up, although no handler but the partner's own writes both.
OrderFollowsDelivery ==
    \A o \in Orders :
        /\ order[o] = "OUT_FOR_DELIVERY"
              <=> asgStatus[o] \in {"PICKED_UP", "REACHED_CUSTOMER"}
        /\ order[o] = "DELIVERED" <=> asgStatus[o] = "DELIVERED"
        /\ asgStatus[o] = "FAILED" => order[o] = "FAILED"

\* Delivery, used code and earnings move together, and exactly once.
DeliveryMovesTogether ==
    \A o \in Orders :
        /\ otpUsed[o] <=> asgStatus[o] = "DELIVERED"
        /\ earnings[o] = IF asgStatus[o] \in {"DELIVERED", "FAILED"} THEN 1 ELSE 0

-----------------------------------------------------------------------------
(* Liveness *)

\* The event loop runs every started handler and every due task; a client need
\* never send anything.  Tasks compete for the model's few sessions, which the
\* event loop does not limit: strong fairness keeps that bound from starving
\* them.
Fairness ==
    /\ \A s \in Sessions : WF_vars(Continue(s))
    /\ \A o \in Orders :
          /\ SF_vars(\E s \in Sessions : AutoReject(s, o))
          /\ SF_vars(\E s \in Sessions : DoAssign(s, o))
          /\ SF_vars(\E s \in Sessions : HandleTimeout(s, o))
          /\ SF_vars(\E s \in Sessions : FailOrder(s, o))

FairSpec == Spec /\ Fairness

\* An order whose _auto_reject task exists does not stay PLACED, even if the
\* restaurant's accept or reject races with the task and rolls it back.
PlacedOrderIsAnswered ==
    \A o \in Orders : o \in autoReject ~> order[o] # "PLACED"

\* An offer does not stay open, whatever the partner does.
OfferIsSettled ==
    \A o \in Orders : asgStatus[o] = "ASSIGNED" ~> asgStatus[o] # "ASSIGNED"

-----------------------------------------------------------------------------
(* What the repository's documents say and the code does not do: each of    *)
(* these is refuted by a run of its own                                     *)

\* models/order.py:57-59 calls DELIVERED, CANCELLED and FAILED terminal.
TerminalIsFinal ==
    [][\A o \in Orders :
           order[o] \in TerminalOrderStatuses => order'[o] = order[o]]_vars

=============================================================================
