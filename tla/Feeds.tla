------------------------------- MODULE Feeds -------------------------------
(***************************************************************************)
(* The live feeds over WebSockets: the registry of connections, the        *)
(* handler of each connection, and who sends to it.                        *)
(*                                                                         *)
(* The registry has one entry per kind of feed and user.  A handler enters *)
(* its connection on top of whatever is there and removes whatever is      *)
(* there when it ends.  Entries do not touch each other, so a behaviour is *)
(* about one entry: the initial state chooses the kind of its feed.        *)
(*                                                                         *)
(* What a user is told must survive that the connection comes too late,    *)
(* breaks, or is replaced: a restaurant has a buffer in Redis, and is told *)
(* what is PLACED when it connects; a partner has the key of the pending   *)
(* offer; a customer has nothing.                                          *)
(*                                                                         *)
(* A message to a client that has gone either raises an exception at once  *)
(* or is lost.  That it raises only after other tasks have run counts as a *)
(* fault.                                                                  *)
(***************************************************************************)
EXTENDS Naturals, Sequences

CONSTANTS
    Conns,          \* connections, each used once
    NoConn,         \* no entry in the registry
    Orders,         \* orders for the restaurant
    Offers,         \* offers to the partner
    NoOffer,        \* there is no pending offer
    MaxLateSends    \* bounds the sends that fail late

ASSUME FeedsAssumption ==
    NoConn \notin Conns /\ NoOffer \notin Offers /\ MaxLateSends \in Nat

Kinds == {"restaurant", "partner", "customer", "location"}

VARIABLES
    kind,           \* the kind of the feed
    orderlyFeed,    \* does its client reconnect only after the old handler's end?
    registry,       \* ConnectionManager: the entry of the feed
    conn,           \* the handler of each connection
    shown,          \* what the client of a connection has been sent
    placed,         \* where each order is: unknown, inserted, committed, answered
    notifier,       \* the task that tells the restaurant of an order
    buffer,         \* Redis: restaurant:pending
    pending,        \* Redis: assignment_pending
    offerer,        \* where the dispatcher is with an offer
    failing,        \* an event's send has failed late, the entry is to be removed
    lateSends       \* sends that have failed late

feed == <<kind, orderlyFeed>>
clients == <<conn, shown>>
orders == <<placed, notifier, buffer>>
offers == <<pending, offerer>>
feedsVars == <<feed, registry, clients, orders, offers, failing, lateSends>>

-----------------------------------------------------------------------------
(* Connections *)

Steps == {"greet", "drain", "push", "query", "list", "key", "offer", "loop", "end"}

Connection == [at : Steps, up : BOOLEAN, holds : SUBSET (Orders \cup Offers)]

Unused == [at |-> "unused"]
Ended  == [at |-> "ended"]

Runs(c)     == conn[c] \notin {Unused, Ended}
At(c, step) == Runs(c) /\ conn[c].at = step
Alive(c)    == Runs(c) /\ conn[c].up

Goto(c, step, messages) ==
    conn' = [conn EXCEPT ![c].at = step, ![c].holds = messages]

\* The handler's own send: it goes on, or it gets an exception, which only a
\* client that has gone causes, and which some handlers let escape.
Sends(c, messages, next, failed) ==
    \/ /\ shown' = [shown EXCEPT ![c] = IF Alive(c) THEN @ \cup messages ELSE @]
       /\ Goto(c, next, {})
    \/ /\ ~Alive(c)
       /\ IF failed = "escape" THEN conn' = [conn EXCEPT ![c] = Ended]
                               ELSE Goto(c, failed, {})
       /\ UNCHANGED shown

Client(c) ==
    /\ conn[c] = Unused
    /\ orderlyFeed => \A d \in Conns : ~Runs(d)
    /\ conn' = [conn EXCEPT ![c] = [at |-> "greet", up |-> TRUE, holds |-> {}]]

\* Mutant: an entry that is there stays.
Connect_FirstStays(c) ==
    /\ Client(c)
    /\ registry' = IF registry = NoConn THEN c ELSE registry
    /\ UNCHANGED <<feed, shown, orders, offers, failing, lateSends>>

\* A client with a valid token, which the handler registers before it greets.
Connect(c) ==
    /\ Client(c)
    /\ registry' = c
    /\ UNCHANGED <<feed, shown, orders, offers, failing, lateSends>>

AfterGreeting ==
    CASE kind = "restaurant" -> "drain"
      [] kind = "partner"    -> "key"
      [] OTHER               -> "loop"

\* Only the restaurant's greeting is inside the try that ends with the removal.
Greet(c) ==
    /\ At(c, "greet")
    /\ Sends(c, {}, AfterGreeting, IF kind = "restaurant" THEN "end" ELSE "escape")
    /\ UNCHANGED <<feed, registry, orders, offers, failing, lateSends>>

\* The client goes; the server does not know yet.
Leave(c) ==
    /\ Alive(c)
    /\ conn' = [conn EXCEPT ![c].up = FALSE]
    /\ UNCHANGED <<feed, registry, shown, orders, offers, failing, lateSends>>

\* The loop receives the disconnect, or its ping fails.
Disconnected(c) ==
    /\ At(c, "loop") /\ ~Alive(c)
    /\ Goto(c, "end", {})
    /\ UNCHANGED <<feed, registry, shown, orders, offers, failing, lateSends>>

\* finally: the entry is removed, whoever's it is.
End(c) ==
    /\ At(c, "end")
    /\ registry' = NoConn
    /\ conn' = [conn EXCEPT ![c] = Ended]
    /\ UNCHANGED <<feed, shown, orders, offers, failing, lateSends>>

-----------------------------------------------------------------------------
(* The restaurant's feed *)

\* The drain takes a message from the buffer before it sends it.
Drain(c) ==
    /\ At(c, "drain")
    /\ IF buffer = <<>>
       THEN Goto(c, "query", {}) /\ UNCHANGED buffer
       ELSE Goto(c, "push", {Head(buffer)}) /\ buffer' = Tail(buffer)
    /\ UNCHANGED <<feed, registry, shown, placed, notifier, offers, failing, lateSends>>

Push(c) ==
    /\ At(c, "push")
    /\ Sends(c, conn[c].holds, "drain", "query")
    /\ UNCHANGED <<feed, registry, orders, offers, failing, lateSends>>

Query(c) ==
    /\ At(c, "query")
    /\ Goto(c, "list", {o \in Orders : placed[o] = "PLACED"})
    /\ UNCHANGED <<feed, registry, shown, orders, offers, failing, lateSends>>

List(c) ==
    /\ At(c, "list")
    /\ IF conn[c].holds = {}
       THEN Goto(c, "loop", {}) /\ UNCHANGED shown
       ELSE Sends(c, conn[c].holds, "loop", "end")
    /\ UNCHANGED <<feed, registry, orders, offers, failing, lateSends>>

\* Checkout inserts an order and starts the task that sleeps for half a second
\* and then looks for the order; orders of a mixed cart have no such task.
InsertOrder(o) ==
    /\ kind = "restaurant"
    /\ placed[o] = "NEW"
    /\ placed' = [placed EXCEPT ![o] = "INSERTED"]
    /\ \E n \in {"asleep", "none"} : notifier' = [notifier EXCEPT ![o] = n]
    /\ UNCHANGED <<feed, registry, clients, buffer, offers, failing, lateSends>>

CommitOrder(o) ==
    /\ placed[o] = "INSERTED"
    /\ placed' = [placed EXCEPT ![o] = "PLACED"]
    /\ UNCHANGED <<feed, registry, clients, notifier, buffer, offers, failing, lateSends>>

\* The restaurant answers, the customer cancels, the time is over.
AnswerOrder(o) ==
    /\ placed[o] = "PLACED"
    /\ placed' = [placed EXCEPT ![o] = "ANSWERED"]
    /\ UNCHANGED <<feed, registry, clients, notifier, buffer, offers, failing, lateSends>>

\* A checkout that takes longer than the sleep is never announced, nor is one
\* whose announcement gets an error from the database.
NotifyLoad(o) ==
    /\ notifier[o] = "asleep"
    /\ \E n \in {"missed", "loaded"} :
         /\ placed[o] = "INSERTED" => n = "missed"
         /\ notifier' = [notifier EXCEPT ![o] = n]
    /\ UNCHANGED <<feed, registry, clients, placed, buffer, offers, failing, lateSends>>

Notifier(o, from, to) ==
    /\ notifier[o] = from
    /\ notifier' = [notifier EXCEPT ![o] = to]
    /\ UNCHANGED <<feed, conn, placed, offers, failing>>

NotifyNobody(o) ==
    /\ Notifier(o, "loaded", "buffering")
    /\ registry = NoConn
    /\ UNCHANGED <<registry, shown, buffer, lateSends>>

\* A message to a client that has gone may be lost.
NotifySend(o) ==
    /\ Notifier(o, "loaded", "done")
    /\ registry # NoConn
    /\ shown' = [shown EXCEPT ![registry] = IF Alive(registry) THEN @ \cup {o} ELSE @]
    /\ UNCHANGED <<registry, buffer, lateSends>>

\* The send fails at once, and the task turns to the buffer.
NotifyFail(o) ==
    /\ Notifier(o, "loaded", "buffering")
    /\ registry # NoConn /\ ~Alive(registry)
    /\ registry' = NoConn
    /\ UNCHANGED <<shown, buffer, lateSends>>

\* The send fails late: what is then removed may be another connection.
NotifyFailLate(o) ==
    /\ Notifier(o, "loaded", "failing")
    /\ registry # NoConn /\ ~Alive(registry)
    /\ lateSends < MaxLateSends /\ lateSends' = lateSends + 1
    /\ UNCHANGED <<registry, shown, buffer>>

NotifyRemove(o) ==
    /\ Notifier(o, "failing", "buffering")
    /\ registry' = NoConn
    /\ UNCHANGED <<shown, buffer, lateSends>>

NotifyBuffer(o) ==
    /\ Notifier(o, "buffering", "done")
    /\ buffer' = Append(buffer, o)
    /\ UNCHANGED <<registry, shown, lateSends>>

\* The buffer lives for an hour after the last message.
BufferExpires ==
    /\ buffer # <<>>
    /\ buffer' = <<>>
    /\ UNCHANGED <<feed, registry, clients, placed, notifier, offers, failing, lateSends>>

-----------------------------------------------------------------------------
(* The partner's feed *)

ReadKey(c) ==
    /\ At(c, "key")
    /\ IF pending = NoOffer THEN Goto(c, "loop", {})
                            ELSE Goto(c, "offer", {pending})
    /\ UNCHANGED <<feed, registry, shown, orders, offers, failing, lateSends>>

\* A failed send is tried once more, and the second exception escapes.
SendOffer(c) ==
    /\ At(c, "offer")
    /\ Sends(c, conn[c].holds, "loop", "escape")
    /\ UNCHANGED <<feed, registry, orders, offers, failing, lateSends>>

\* The dispatcher stores the key, then looks for the partner's connection.
StoreOffer(a) ==
    /\ kind = "partner"
    /\ offerer[a] = "idle"
    /\ pending' = a
    /\ offerer' = [offerer EXCEPT ![a] = "stored"]
    /\ UNCHANGED <<feed, registry, clients, orders, failing, lateSends>>

\* A send that fails is logged; the entry stays.
TellPartner(a) ==
    /\ offerer[a] = "stored"
    /\ offerer' = [offerer EXCEPT ![a] = "told"]
    /\ shown' = IF registry # NoConn /\ Alive(registry)
                THEN [shown EXCEPT ![registry] = @ \cup {a}] ELSE shown
    /\ UNCHANGED <<feed, registry, conn, orders, pending, failing, lateSends>>

\* The partner answers, or the key expires.
OfferGone ==
    /\ pending # NoOffer
    /\ pending' = NoOffer
    /\ UNCHANGED <<feed, registry, clients, orders, offerer, failing, lateSends>>

-----------------------------------------------------------------------------
(* Events that nobody repeats, to the customer and to the partner *)

\* ConnectionManager.send_to_*: an entry whose send fails is removed.
SendEvent ==
    /\ kind \in {"partner", "customer"}
    /\ registry # NoConn /\ ~Alive(registry)
    /\ \/ registry' = NoConn /\ UNCHANGED <<failing, lateSends>>
       \/ /\ ~failing /\ lateSends < MaxLateSends
          /\ failing' = TRUE /\ lateSends' = lateSends + 1
          /\ UNCHANGED registry
    /\ UNCHANGED <<feed, clients, orders, offers>>

RemoveEntry ==
    /\ failing
    /\ failing' = FALSE
    /\ registry' = NoConn
    /\ UNCHANGED <<feed, clients, orders, offers, lateSends>>

-----------------------------------------------------------------------------
(* The specification *)

FeedsInit ==
    /\ kind \in Kinds
    /\ orderlyFeed \in BOOLEAN
    /\ registry = NoConn
    /\ conn = [c \in Conns |-> Unused]
    /\ shown = [c \in Conns |-> {}]
    /\ placed = [o \in Orders |-> "NEW"]
    /\ notifier = [o \in Orders |-> "none"]
    /\ buffer = <<>>
    /\ pending = NoOffer
    /\ offerer = [a \in Offers |-> "idle"]
    /\ failing = FALSE
    /\ lateSends = 0

Handle(c) ==
    \/ Connect(c) \/ Greet(c) \/ Leave(c) \/ Disconnected(c) \/ End(c)
    \/ Drain(c) \/ Push(c) \/ Query(c) \/ List(c)
    \/ ReadKey(c) \/ SendOffer(c)

Order(o) ==
    \/ InsertOrder(o) \/ CommitOrder(o) \/ AnswerOrder(o)
    \/ NotifyLoad(o) \/ NotifyNobody(o) \/ NotifySend(o) \/ NotifyFail(o)
    \/ NotifyFailLate(o) \/ NotifyRemove(o) \/ NotifyBuffer(o)

FeedsNext ==
    \/ \E c \in Conns : Handle(c)
    \/ \E o \in Orders : Order(o)
    \/ BufferExpires
    \/ \E a \in Offers : StoreOffer(a) \/ TellPartner(a)
    \/ OfferGone
    \/ SendEvent \/ RemoveEntry

FeedsSpec == FeedsInit /\ [][FeedsNext]_feedsVars

-----------------------------------------------------------------------------
(* Properties *)

\* Every variable has values of its kind.
FeedsTypeOK ==
    /\ kind \in Kinds /\ orderlyFeed \in BOOLEAN
    /\ registry \in Conns \cup {NoConn}
    /\ conn \in [Conns -> Connection \cup {Unused, Ended}]
    /\ shown \in [Conns -> SUBSET (Orders \cup Offers)]
    /\ placed \in [Orders -> {"NEW", "INSERTED", "PLACED", "ANSWERED"}]
    /\ notifier \in [Orders -> {"none", "asleep", "missed", "loaded", "failing",
                                "buffering", "done"}]
    /\ buffer \in Seq(Orders)
    /\ pending \in Offers \cup {NoOffer}
    /\ offerer \in [Offers -> {"idle", "stored", "told"}]
    /\ failing \in BOOLEAN
    /\ lateSends \in 0..MaxLateSends

\* A restaurant that reconnects only after its old handler's end, and whose
\* connection has come to the loop, has been sent every order that is still
\* PLACED and whose task has looked for the connection, whatever was buffered,
\* popped, lost or expired before (main.py:442-467).
RestaurantSeesPlaced ==
    kind = "restaurant" /\ orderlyFeed /\ lateSends = 0 =>
        \A c \in Conns, o \in Orders :
            At(c, "loop") /\ Alive(c) /\ placed[o] = "PLACED"
            /\ notifier[o] \in {"buffering", "done"} => o \in shown[c]

\* A partner that reconnects only after the old handler's end, and whose
\* connection has come to the loop, has been sent the pending offer, unless the
\* dispatcher is just about to, even if dead connections have stayed registered
\* (main.py:368-389, assignment_service.py:274-284).
PartnerSeesOffer ==
    kind = "partner" /\ orderlyFeed /\ lateSends = 0 =>
        \A c \in Conns :
            At(c, "loop") /\ Alive(c) /\ pending # NoOffer
            /\ offerer[pending] = "told" => pending \in shown[c]

\* Whoever is connected has been sent what waits for an answer: a restaurant the
\* orders that are PLACED (main.py:442-467), a partner the pending offer
\* (main.py:368-389, assignment_service.py:274-284).
FeedsAreCurrent == RestaurantSeesPlaced /\ PartnerSeesOffer

=============================================================================
