---------------------------- MODULE FeedsProofs ----------------------------
(***************************************************************************)
(* Proofs about Feeds for any sets of connections, orders and offers.      *)
(*                                                                         *)
(* As long as a client reconnects only after its old handler's end and no  *)
(* send fails late, a connection that is up is the one in the registry:    *)
(* nobody removes its entry, though every removal removes whatever entry   *)
(* is there.  So between the handler's query and its send nobody can miss  *)
(* it, and what it does not hold it is sent.                               *)
(***************************************************************************)
EXTENDS Feeds, SequenceTheorems, TLAPS

-----------------------------------------------------------------------------
(* The inductive invariant *)

Tame == orderlyFeed /\ lateSends = 0

\* A task has not looked for its order before the commit; a late failure counts
\* as a fault.
TasksRight ==
    /\ \A o \in Orders :
         /\ placed[o] = "NEW" => notifier[o] = "none"
         /\ placed[o] = "INSERTED" => notifier[o] \in {"none", "asleep", "missed"}
         /\ notifier[o] = "failing" => lateSends # 0
    /\ failing => lateSends # 0

\* Where the handler of a connection can be, by the kind of the feed.
StepRight(c) ==
    /\ At(c, "query") \/ At(c, "list") \/ At(c, "drain") \/ At(c, "push") =>
         kind = "restaurant"
    /\ At(c, "key") \/ At(c, "offer") => kind = "partner"

Alone(c) == \A d \in Conns : Runs(c) /\ Runs(d) => c = d

\* What the client has been sent by now, or is about to be.
Reached(c) == shown[c] \cup (IF At(c, "loop") THEN {} ELSE conn[c].holds)

Told(c) ==
    /\ kind = "restaurant" /\ (At(c, "list") \/ At(c, "loop")) =>
         \A o \in Orders :
            placed[o] = "PLACED" /\ notifier[o] \in {"buffering", "done"} =>
               o \in Reached(c)
    /\ kind = "partner" /\ (At(c, "offer") \/ At(c, "loop")) =>
         (pending # NoOffer /\ offerer[pending] = "told" => pending \in Reached(c))

FeedsInv ==
    /\ FeedsTypeOK /\ TasksRight
    /\ \A c \in Conns : StepRight(c) /\ (orderlyFeed => Alone(c))
    /\ Tame => \A c \in Conns : Alive(c) => registry = c /\ Told(c)

-----------------------------------------------------------------------------
(* Handlers of connections *)

LEMMA FeedsInitHolds ==
    ASSUME FeedsInit
    PROVE  FeedsInv
  <1>1. FeedsTypeOK
    <2>1. buffer \in Seq(Orders) /\ lateSends \in 0..MaxLateSends
      BY FeedsAssumption DEF FeedsInit
    <2>2. QED
      BY <2>1 DEF FeedsInit, FeedsTypeOK
  <1>2. \A c \in Conns : ~Runs(c)
    BY DEF FeedsInit, Runs
  <1>3. TasksRight
    BY DEF FeedsInit, TasksRight
  <1>4. QED
    BY <1>1, <1>2, <1>3 DEF FeedsInv, StepRight, Alone, Alive, At

\* The handler of c moves; orders and offers stay as they are.
LEMMA HandlerMoves ==
    ASSUME FeedsInv, NEW c \in Conns, FeedsTypeOK',
           UNCHANGED <<feed, placed, notifier, offers, failing, lateSends>>,
           \A d \in Conns \ {c} : conn'[d] = conn[d] /\ shown'[d] = shown[d],
           Runs(c)' => Runs(c) \/ (orderlyFeed => \A d \in Conns : ~Runs(d)),
           \/ registry' = registry \/ Runs(c)
           \/ orderlyFeed => \A d \in Conns : ~Runs(d),
           StepRight(c)',
           Tame /\ Alive(c)' => registry' = c /\ Told(c)'
    PROVE  FeedsInv'
  <1> USE DEF feed, offers
  <1>1. TasksRight'
    BY DEF FeedsInv, TasksRight
  <1>2. ASSUME NEW d \in Conns, d # c
        PROVE  /\ Runs(d)' = Runs(d) /\ Alive(d)' = Alive(d)
               /\ StepRight(d)' /\ (Told(d) => Told(d)')
    <2>1. conn'[d] = conn[d] /\ shown'[d] = shown[d]
      BY <1>2
    <2>2. Runs(d)' = Runs(d) /\ Alive(d)' = Alive(d)
      BY <2>1 DEF Runs, Alive
    <2>3. StepRight(d)'
      BY <2>1 DEF FeedsInv, StepRight, At, Runs
    <2>4. Told(d) => Told(d)'
      BY <2>1 DEF Told, Reached, At, Runs
    <2>5. QED
      BY <2>2, <2>3, <2>4
  <1>3. ASSUME NEW d \in Conns
        PROVE  StepRight(d)' /\ (orderlyFeed' => Alone(d)')
    <2>1. StepRight(d)'
      BY <1>2
    <2>2. ASSUME orderlyFeed, NEW e \in Conns, Runs(d)', Runs(e)'
          PROVE  d = e
      BY <1>2, <2>2 DEF FeedsInv, Alone
    <2>3. QED
      BY <2>1, <2>2 DEF Alone
  <1>4. ASSUME Tame', NEW d \in Conns, Alive(d)'
        PROVE  registry' = d /\ Told(d)'
    <2>1. Tame
      BY <1>4 DEF Tame
    <2>2. CASE d = c
      BY <1>4, <2>1, <2>2
    <2>3. CASE d # c
      <3>1. Alive(d) /\ Runs(d)
        BY <1>2, <1>4, <2>3 DEF Alive
      <3>2. registry = d /\ Told(d)
        BY <2>1, <3>1 DEF FeedsInv
      <3>3. registry' = registry
        BY <2>1, <2>3, <3>1 DEF FeedsInv, Alone, Tame
      <3>4. QED
        BY <1>2, <2>3, <3>2, <3>3
    <2>4. QED
      BY <2>2, <2>3
  <1>5. QED
    BY <1>1, <1>3, <1>4 DEF FeedsInv

\* What holds of a handler that runs.
LEMMA HandlerFacts ==
    ASSUME FeedsInv, NEW c \in Conns, Runs(c)
    PROVE  /\ conn[c] \in Connection
           /\ conn \in [Conns -> Connection \cup {Unused, Ended}]
           /\ shown \in [Conns -> SUBSET (Orders \cup Offers)]
           /\ StepRight(c)
           /\ Tame /\ Alive(c) => registry = c /\ Told(c)
  BY DEF FeedsInv, FeedsTypeOK, Runs

\* A handler goes on to another step, having sent something or not.
LEMMA Goes ==
    ASSUME FeedsInv, NEW c \in Conns, Runs(c),
           NEW step \in Steps, NEW messages \in SUBSET (Orders \cup Offers),
           Goto(c, step, messages),
           shown' \in [Conns -> SUBSET (Orders \cup Offers)],
           \A d \in Conns \ {c} : shown'[d] = shown[d],
           buffer' \in Seq(Orders),
           UNCHANGED <<feed, registry, placed, notifier, offers, failing, lateSends>>,
           step \in {"query", "list", "drain", "push"} => kind = "restaurant",
           step \in {"key", "offer"} => kind = "partner",
           Tame /\ Alive(c) => Told(c)'
    PROVE  FeedsInv'
  <1>1. /\ conn[c] \in Connection /\ conn \in [Conns -> Connection \cup {Unused, Ended}]
        /\ Tame /\ Alive(c) => registry = c
    BY HandlerFacts
  <1>2. PICK h \in Connection : h = [conn[c] EXCEPT !.at = step, !.holds = messages]
    BY <1>1 DEF Connection
  <1>3. h.at = step /\ h.holds = messages /\ h.up = conn[c].up
    BY <1>1, <1>2 DEF Connection
  <1>4. conn' = [conn EXCEPT ![c] = h]
    BY <1>1, <1>2 DEF Goto
  <1>5. conn'[c] = h /\ \A d \in Conns \ {c} : conn'[d] = conn[d]
    BY <1>1, <1>4
  <1>6. FeedsTypeOK'
    BY <1>1, <1>4 DEF FeedsInv, FeedsTypeOK, feed, offers
  <1>7. Alive(c)' => Alive(c)
    BY <1>3, <1>5 DEF Alive, Runs
  <1>8. StepRight(c)'
    BY <1>3, <1>5 DEF StepRight, At, feed
  <1>9. QED
    BY <1>1, <1>5, <1>6, <1>7, <1>8, HandlerMoves

\* A handler ends.
LEMMA Ends ==
    ASSUME FeedsInv, NEW c \in Conns, Runs(c),
           conn' = [conn EXCEPT ![c] = Ended],
           shown' = shown, buffer' = buffer,
           registry' \in {registry, NoConn},
           UNCHANGED <<feed, placed, notifier, offers, failing, lateSends>>
    PROVE  FeedsInv'
  <1>1. FeedsTypeOK'
    BY DEF FeedsInv, FeedsTypeOK, feed, offers
  <1>2. /\ conn'[c] = Ended /\ ~Runs(c)' /\ ~Alive(c)'
        /\ \A d \in Conns \ {c} : conn'[d] = conn[d]
    BY DEF FeedsInv, FeedsTypeOK, Runs, Alive
  <1>3. StepRight(c)'
    BY <1>2 DEF StepRight, At
  <1>4. QED
    BY <1>1, <1>2, <1>3, HandlerMoves

LEMMA ConnectKept ==
    ASSUME FeedsInv, NEW c \in Conns, Connect(c)
    PROVE  FeedsInv'
  <1>1. PICK h \in Connection : h = [at |-> "greet", up |-> TRUE, holds |-> {}]
    BY DEF Connection, Steps
  <1>2. conn' = [conn EXCEPT ![c] = h] /\ registry' = c
    BY <1>1 DEF Connect, Client
  <1>3. conn'[c] = h /\ \A d \in Conns \ {c} : conn'[d] = conn[d]
    BY <1>2 DEF FeedsInv, FeedsTypeOK
  <1>4. FeedsTypeOK'
    BY <1>2 DEF Connect, FeedsInv, FeedsTypeOK, feed, orders, offers
  <1>5. StepRight(c)' /\ Told(c)'
    BY <1>1, <1>3 DEF StepRight, Told, At
  <1>6. orderlyFeed => \A d \in Conns : ~Runs(d)
    BY DEF Connect, Client
  <1>7. QED
    BY <1>2, <1>3, <1>4, <1>5, <1>6, HandlerMoves DEF Connect, feed, orders, offers

LEMMA LeaveKept ==
    ASSUME FeedsInv, NEW c \in Conns, Leave(c)
    PROVE  FeedsInv'
  <1>1. Runs(c)
    BY DEF Leave, Alive
  <1>2. conn[c] \in Connection /\ StepRight(c)
    BY <1>1, HandlerFacts
  <1>3. PICK h \in Connection : h = [conn[c] EXCEPT !.up = FALSE]
    BY <1>2 DEF Connection
  <1>4. h.at = conn[c].at /\ h.up = FALSE
    BY <1>2, <1>3 DEF Connection
  <1>5. conn' = [conn EXCEPT ![c] = h]
    BY <1>3 DEF Leave, FeedsInv, FeedsTypeOK
  <1>6. conn'[c] = h /\ \A d \in Conns \ {c} : conn'[d] = conn[d]
    BY <1>5 DEF FeedsInv, FeedsTypeOK
  <1>7. FeedsTypeOK'
    BY <1>5 DEF Leave, FeedsInv, FeedsTypeOK, feed, orders, offers
  <1>8. StepRight(c)' /\ ~Alive(c)'
    BY <1>1, <1>2, <1>4, <1>6 DEF StepRight, At, Alive, Leave, feed
  <1>9. QED
    BY <1>1, <1>6, <1>7, <1>8, HandlerMoves DEF Leave, feed, orders, offers

LEMMA EndKept ==
    ASSUME FeedsInv, NEW c \in Conns, End(c)
    PROVE  FeedsInv'
  BY Ends DEF End, At, orders, offers

LEMMA DisconnectedKept ==
    ASSUME FeedsInv, NEW c \in Conns, Disconnected(c)
    PROVE  FeedsInv'
  <1>1. Runs(c) /\ ~Alive(c) /\ Goto(c, "end", {})
    BY DEF Disconnected, At
  <1>2. buffer' \in Seq(Orders) /\ shown' \in [Conns -> SUBSET (Orders \cup Offers)]
    BY DEF Disconnected, FeedsInv, FeedsTypeOK, orders
  <1>3. QED
    BY <1>1, <1>2, Goes DEF Disconnected, Steps, orders

\* What a send of the handler comes to, if the client is there or not.
LEMMA SendsKept ==
    ASSUME FeedsInv, NEW c \in Conns, Runs(c),
           NEW messages \in SUBSET (Orders \cup Offers),
           NEW next \in {"drain", "key", "loop"},
           NEW failed \in {"end", "escape", "query"},
           Sends(c, messages, next, failed),
           UNCHANGED <<feed, registry, orders, offers, failing, lateSends>>,
           next = "drain" \/ failed = "query" => kind = "restaurant",
           next = "key" => kind = "partner",
           next = "loop" /\ kind \in {"restaurant", "partner"} /\ Tame /\ Alive(c) =>
             Told(c) /\ ~At(c, "loop") /\ messages = conn[c].holds
                     /\ (At(c, "list") \/ At(c, "offer"))
    PROVE  FeedsInv'
  <1>1. /\ conn[c] \in Connection /\ conn \in [Conns -> Connection \cup {Unused, Ended}]
        /\ shown \in [Conns -> SUBSET (Orders \cup Offers)] /\ StepRight(c)
        /\ buffer' \in Seq(Orders)
    BY HandlerFacts DEF orders, FeedsInv, FeedsTypeOK
  <1>2. CASE /\ shown' = [shown EXCEPT ![c] = IF Alive(c) THEN @ \cup messages ELSE @]
             /\ Goto(c, next, {})
    <2>1. /\ shown' \in [Conns -> SUBSET (Orders \cup Offers)]
          /\ \A d \in Conns \ {c} : shown'[d] = shown[d]
          /\ Alive(c) => shown'[c] = shown[c] \cup messages
      BY <1>1, <1>2
    <2>2. conn'[c].at = next /\ Runs(c)'
      BY <1>1, <1>2 DEF Goto, Connection, Runs, Unused, Ended
    <2>3. Tame /\ Alive(c) => Told(c)'
      <3> SUFFICES ASSUME Tame, Alive(c) PROVE Told(c)'
        OBVIOUS
      <3>1. CASE next = "loop" /\ kind \in {"restaurant", "partner"}
        <4>1. /\ Told(c) /\ ~At(c, "loop") /\ messages = conn[c].holds
              /\ At(c, "list") \/ At(c, "offer")
          BY <3>1
        <4>2. Reached(c)' = Reached(c)
          BY <2>1, <2>2, <3>1, <4>1 DEF Reached, At
        <4>3. QED
          BY <1>1, <4>1, <4>2 DEF Told, StepRight, feed, orders, offers
      <3>2. CASE ~(next = "loop" /\ kind \in {"restaurant", "partner"})
        BY <2>2, <3>2 DEF Told, At, feed
      <3>3. QED
        BY <3>1, <3>2
    <2>4. QED
      BY <1>1, <1>2, <2>1, <2>3, Goes DEF Steps, orders
  <1>3. CASE ~Alive(c) /\ failed = "escape" /\ conn' = [conn EXCEPT ![c] = Ended]
             /\ shown' = shown
    BY <1>3, Ends DEF orders
  <1>4. CASE ~Alive(c) /\ failed # "escape" /\ Goto(c, failed, {}) /\ shown' = shown
    BY <1>1, <1>4, Goes DEF Steps, orders
  <1>5. QED
    BY <1>2, <1>3, <1>4 DEF Sends

LEMMA GreetKept ==
    ASSUME FeedsInv, NEW c \in Conns, Greet(c)
    PROVE  FeedsInv'
  <1>1. Runs(c) /\ {} \in SUBSET (Orders \cup Offers)
    BY DEF Greet, At
  <1>2. PICK next \in {"drain", "key", "loop"} :
           /\ next = AfterGreeting
           /\ next = "drain" => kind = "restaurant"
           /\ next = "key" => kind = "partner"
           /\ next = "loop" => kind \notin {"restaurant", "partner"}
    <2>1. CASE kind = "restaurant"
      BY <2>1 DEF AfterGreeting
    <2>2. CASE kind = "partner"
      BY <2>2 DEF AfterGreeting
    <2>3. CASE kind # "restaurant" /\ kind # "partner"
      BY <2>3 DEF AfterGreeting
    <2>4. QED
      BY <2>1, <2>2, <2>3
  <1>3. PICK failed \in {"end", "escape"} :
           failed = IF kind = "restaurant" THEN "end" ELSE "escape"
    OBVIOUS
  <1>4. Sends(c, {}, next, failed)
    BY <1>2, <1>3 DEF Greet
  <1>5. QED
    BY <1>1, <1>2, <1>3, <1>4, SendsKept DEF Greet

LEMMA DrainKept ==
    ASSUME FeedsInv, NEW c \in Conns, Drain(c)
    PROVE  FeedsInv'
  <1>1. /\ Runs(c) /\ kind = "restaurant" /\ buffer \in Seq(Orders)
        /\ shown' \in [Conns -> SUBSET (Orders \cup Offers)]
    BY HandlerFacts DEF Drain, At, StepRight, FeedsInv, FeedsTypeOK
  <1>2. CASE buffer = <<>>
    <2>1. Goto(c, "query", {}) /\ buffer' = buffer
      BY <1>2 DEF Drain
    <2>2. Told(c)'
      BY <1>1, <2>1 DEF Drain, Told, At, Goto, FeedsInv, FeedsTypeOK, Connection, feed, Runs
    <2>3. QED
      BY <1>1, <2>1, <2>2, Goes DEF Drain, Steps
  <1>3. CASE buffer # <<>>
    <2>1. Head(buffer) \in Orders /\ Tail(buffer) \in Seq(Orders)
      BY <1>1, <1>3, HeadTailProperties
    <2>2. Goto(c, "push", {Head(buffer)}) /\ buffer' = Tail(buffer)
      BY <1>3 DEF Drain
    <2>3. Told(c)'
      BY <1>1, <2>2 DEF Drain, Told, At, Goto, FeedsInv, FeedsTypeOK, Connection, feed, Runs
    <2>4. PICK ms \in SUBSET (Orders \cup Offers) : ms = {Head(buffer)}
      BY <2>1
    <2>5. QED
      BY <1>1, <2>1, <2>2, <2>3, <2>4, Goes DEF Drain, Steps
  <1>4. QED
    BY <1>2, <1>3

LEMMA PushKept ==
    ASSUME FeedsInv, NEW c \in Conns, Push(c)
    PROVE  FeedsInv'
  <1>1. Runs(c) /\ conn[c] \in Connection /\ StepRight(c)
    BY HandlerFacts DEF Push, At
  <1>2. conn[c].holds \in SUBSET (Orders \cup Offers) /\ kind = "restaurant"
    BY <1>1 DEF Connection, StepRight, Push
  <1>3. Sends(c, conn[c].holds, "drain", "query")
    BY DEF Push
  <1>4. QED
    BY <1>1, <1>2, <1>3, SendsKept DEF Push

LEMMA QueryKept ==
    ASSUME FeedsInv, NEW c \in Conns, Query(c)
    PROVE  FeedsInv'
  <1>1. /\ Runs(c) /\ kind = "restaurant" /\ buffer' \in Seq(Orders)
        /\ conn \in [Conns -> Connection \cup {Unused, Ended}] /\ conn[c] \in Connection
        /\ shown' \in [Conns -> SUBSET (Orders \cup Offers)] /\ shown' = shown
    BY HandlerFacts DEF Query, At, StepRight, FeedsInv, FeedsTypeOK, orders
  <1>2. PICK ms \in SUBSET (Orders \cup Offers) : ms = {o \in Orders : placed[o] = "PLACED"}
    OBVIOUS
  <1>3. Goto(c, "list", ms)
    BY <1>2 DEF Query
  <1>4. conn'[c].at = "list" /\ conn'[c].holds = ms
    BY <1>1, <1>3 DEF Goto, Connection
  <1>5. Told(c)'
    BY <1>1, <1>2, <1>4 DEF Query, Told, Reached, At, feed, orders
  <1>6. QED
    BY <1>1, <1>3, <1>5, Goes DEF Query, Steps, orders

LEMMA ListKept ==
    ASSUME FeedsInv, NEW c \in Conns, List(c)
    PROVE  FeedsInv'
  <1>1. /\ Runs(c) /\ At(c, "list") /\ conn[c] \in Connection /\ kind = "restaurant"
        /\ Tame /\ Alive(c) => Told(c)
    BY HandlerFacts DEF List, At, StepRight
  <1>2. conn[c].holds \in SUBSET (Orders \cup Offers) /\ ~At(c, "loop")
    BY <1>1 DEF Connection, At
  <1>3. CASE conn[c].holds = {}
    <2>1. Goto(c, "loop", {}) /\ shown' = shown
      BY <1>3 DEF List
    <2>2. conn'[c].at = "loop"
      BY <1>1, <2>1 DEF Goto, Connection, FeedsInv, FeedsTypeOK
    <2>3. Tame /\ Alive(c) => Told(c)'
      BY <1>1, <1>3, <2>1, <2>2 DEF List, Told, Reached, At, feed, orders
    <2>4. buffer' \in Seq(Orders) /\ shown' \in [Conns -> SUBSET (Orders \cup Offers)]
      BY <2>1 DEF List, FeedsInv, FeedsTypeOK, orders
    <2>5. QED
      BY <1>1, <2>1, <2>3, <2>4, Goes DEF List, Steps, orders
  <1>4. CASE conn[c].holds # {}
    <2>1. Sends(c, conn[c].holds, "loop", "end")
      BY <1>4 DEF List
    <2>2. QED
      BY <1>1, <1>2, <2>1, SendsKept DEF List
  <1>5. QED
    BY <1>3, <1>4

LEMMA ReadKeyKept ==
    ASSUME FeedsInv, NEW c \in Conns, ReadKey(c)
    PROVE  FeedsInv'
  <1>1. /\ Runs(c) /\ kind = "partner" /\ buffer' \in Seq(Orders)
        /\ conn \in [Conns -> Connection \cup {Unused, Ended}] /\ conn[c] \in Connection
        /\ shown' \in [Conns -> SUBSET (Orders \cup Offers)] /\ shown' = shown
        /\ pending \in Offers \cup {NoOffer}
    BY HandlerFacts DEF ReadKey, At, StepRight, FeedsInv, FeedsTypeOK, orders
  <1>2. CASE pending = NoOffer
    <2>1. Goto(c, "loop", {})
      BY <1>2 DEF ReadKey
    <2>2. Told(c)'
      BY <1>1, <1>2 DEF ReadKey, Told, feed, offers
    <2>3. QED
      BY <1>1, <2>1, <2>2, Goes DEF ReadKey, Steps, orders
  <1>3. CASE pending # NoOffer
    <2>1. PICK ms \in SUBSET (Orders \cup Offers) : ms = {pending}
      BY <1>1, <1>3
    <2>2. Goto(c, "offer", ms)
      BY <1>3, <2>1 DEF ReadKey
    <2>3. conn'[c].at = "offer" /\ conn'[c].holds = ms
      BY <1>1, <2>2 DEF Goto, Connection
    <2>4. Told(c)'
      BY <1>1, <2>1, <2>3 DEF ReadKey, Told, Reached, At, feed, offers
    <2>5. QED
      BY <1>1, <2>2, <2>4, Goes DEF ReadKey, Steps, orders
  <1>4. QED
    BY <1>2, <1>3

LEMMA SendOfferKept ==
    ASSUME FeedsInv, NEW c \in Conns, SendOffer(c)
    PROVE  FeedsInv'
  <1>1. /\ Runs(c) /\ At(c, "offer") /\ conn[c] \in Connection /\ kind = "partner"
        /\ Tame /\ Alive(c) => Told(c)
    BY HandlerFacts DEF SendOffer, At, StepRight
  <1>2. conn[c].holds \in SUBSET (Orders \cup Offers) /\ ~At(c, "loop")
    BY <1>1 DEF Connection, At
  <1>3. Sends(c, conn[c].holds, "loop", "escape")
    BY DEF SendOffer
  <1>4. QED
    BY <1>1, <1>2, <1>3, SendsKept DEF SendOffer

-----------------------------------------------------------------------------
(* Orders, offers, events *)

\* No handler moves; nothing that is told becomes unknown, and the registry
\* keeps an entry that is up.
LEMMA HandlersStay ==
    ASSUME FeedsInv, FeedsTypeOK', TasksRight',
           UNCHANGED <<feed, conn>>, lateSends' = 0 => lateSends = 0,
           \A c \in Conns : Tame /\ registry = c /\ Alive(c) =>
                            registry' = c /\ (Told(c) => Told(c)')
    PROVE  FeedsInv'
  <1> USE DEF feed
  <1>1. ASSUME NEW c \in Conns
        PROVE  StepRight(c)' /\ (orderlyFeed' => Alone(c)')
    BY DEF FeedsInv, StepRight, Alone, At, Runs
  <1>2. ASSUME Tame', NEW c \in Conns, Alive(c)'
        PROVE  registry' = c /\ Told(c)'
    <2>1. Tame /\ Alive(c)
      BY <1>2 DEF Tame, Alive, Runs
    <2>2. registry = c /\ Told(c)
      BY <2>1 DEF FeedsInv
    <2>3. QED
      BY <2>1, <2>2
  <1>3. QED
    BY <1>1, <1>2 DEF FeedsInv

\* What is told stays told if nothing new is to be told.
LEMMA ToldStays ==
    ASSUME NEW c \in Conns, Told(c), UNCHANGED <<feed, conn>>,
           shown[c] \subseteq shown'[c],
           \A o \in Orders :
              placed'[o] = "PLACED" /\ notifier'[o] \in {"buffering", "done"} =>
                 \/ placed[o] = "PLACED" /\ notifier[o] \in {"buffering", "done"}
                 \/ o \in shown'[c],
           pending' # NoOffer /\ offerer'[pending'] = "told" =>
              \/ pending' = pending /\ offerer[pending] = "told"
              \/ pending' \in shown'[c]
    PROVE  Told(c)'
  <1>1. Reached(c) \subseteq Reached(c)' /\ shown'[c] \subseteq Reached(c)'
    BY DEF Reached, At, Runs
  <1>2. QED
    BY <1>1 DEF Told, At, Runs, feed

LEMMA PlaceOrderKept ==
    ASSUME FeedsInv, NEW o \in Orders, InsertOrder(o)
    PROVE  FeedsInv'
  <1>1. FeedsTypeOK' /\ TasksRight'
    BY DEF InsertOrder, FeedsInv, FeedsTypeOK, TasksRight, feed, clients, offers
  <1>2. \A q \in Orders : placed'[q] = "PLACED" =>
           placed[q] = "PLACED" /\ notifier'[q] = notifier[q]
    BY DEF InsertOrder, FeedsInv, FeedsTypeOK
  <1>3. \A c \in Conns : Told(c) => Told(c)'
    BY <1>2, ToldStays DEF InsertOrder, clients, offers
  <1>4. QED
    BY <1>1, <1>3, HandlersStay DEF InsertOrder, clients

LEMMA CommitOrderKept ==
    ASSUME FeedsInv, NEW o \in Orders, CommitOrder(o)
    PROVE  FeedsInv'
  <1>1. FeedsTypeOK' /\ TasksRight'
    BY DEF CommitOrder, FeedsInv, FeedsTypeOK, TasksRight, feed, clients, offers
  <1>2. /\ notifier[o] \notin {"buffering", "done"}
        /\ \A q \in Orders \ {o} : placed'[q] = placed[q]
    BY DEF CommitOrder, FeedsInv, FeedsTypeOK, TasksRight
  <1>3. \A c \in Conns : Told(c) => Told(c)'
    BY <1>2, ToldStays DEF CommitOrder, clients, offers
  <1>4. QED
    BY <1>1, <1>3, HandlersStay DEF CommitOrder, clients

LEMMA AnswerOrderKept ==
    ASSUME FeedsInv, NEW o \in Orders, AnswerOrder(o)
    PROVE  FeedsInv'
  <1>1. FeedsTypeOK' /\ TasksRight'
    BY DEF AnswerOrder, FeedsInv, FeedsTypeOK, TasksRight, feed, clients, offers
  <1>2. \A q \in Orders : placed'[q] = "PLACED" => placed[q] = "PLACED"
    BY DEF AnswerOrder, FeedsInv, FeedsTypeOK
  <1>3. \A c \in Conns : Told(c) => Told(c)'
    BY <1>2, ToldStays DEF AnswerOrder, clients, offers
  <1>4. QED
    BY <1>1, <1>3, HandlersStay DEF AnswerOrder, clients

LEMMA NotifyLoadKept ==
    ASSUME FeedsInv, NEW o \in Orders, NotifyLoad(o)
    PROVE  FeedsInv'
  <1>1. PICK n \in {"missed", "loaded"} :
           /\ placed[o] = "INSERTED" => n = "missed"
           /\ notifier' = [notifier EXCEPT ![o] = n]
    BY DEF NotifyLoad
  <1>2. \A q \in Orders : notifier'[q] = IF q = o THEN n ELSE notifier[q]
    BY <1>1 DEF FeedsInv, FeedsTypeOK
  <1>3. FeedsTypeOK'
    BY <1>1 DEF NotifyLoad, FeedsInv, FeedsTypeOK, feed, clients, offers
  <1>4. TasksRight'
    BY <1>1, <1>2 DEF NotifyLoad, FeedsInv, TasksRight
  <1>5. \A c \in Conns : Told(c) => Told(c)'
    BY <1>1, <1>2, ToldStays DEF NotifyLoad, clients, offers
  <1>6. QED
    BY <1>3, <1>4, <1>5, HandlersStay DEF NotifyLoad, clients

\* The task of an order that goes on from having looked for it.
LEMMA NotifierTasks ==
    ASSUME FeedsInv, NEW o \in Orders,
           NEW from \in {"loaded", "failing", "buffering"},
           NEW to \in {"failing", "buffering", "done"}, Notifier(o, from, to),
           to = "failing" => lateSends' # 0, lateSends' = 0 => lateSends = 0
    PROVE  /\ notifier' \in [Orders -> {"none", "asleep", "missed", "loaded", "failing",
                                        "buffering", "done"}]
           /\ TasksRight'
           /\ \A q \in Orders \ {o} : notifier'[q] = notifier[q]
  <1>1. notifier' = [notifier EXCEPT ![o] = to] /\ placed' = placed /\ failing' = failing
    BY DEF Notifier
  <1>2. \A q \in Orders : notifier'[q] = IF q = o THEN to ELSE notifier[q]
    BY <1>1 DEF FeedsInv, FeedsTypeOK
  <1>3. placed[o] \notin {"NEW", "INSERTED"}
    BY DEF Notifier, FeedsInv, TasksRight
  <1>4. QED
    BY <1>1, <1>2, <1>3 DEF FeedsInv, FeedsTypeOK, TasksRight

\* Nobody is up whose entry is not there.
LEMMA NotifyNobodyKept ==
    ASSUME FeedsInv, NEW o \in Orders, NotifyNobody(o)
    PROVE  FeedsInv'
  <1>1. /\ TasksRight' /\ \A q \in Orders \ {o} : notifier'[q] = notifier[q]
        /\ notifier' \in [Orders -> {"none", "asleep", "missed", "loaded", "failing",
                                     "buffering", "done"}]
    BY NotifierTasks DEF NotifyNobody
  <1>2. FeedsTypeOK'
    BY <1>1 DEF NotifyNobody, Notifier, FeedsInv, FeedsTypeOK, feed, offers
  <1>3. \A c \in Conns : registry # c
    BY FeedsAssumption DEF NotifyNobody
  <1>4. QED
    BY <1>1, <1>2, <1>3, HandlersStay DEF NotifyNobody, Notifier

LEMMA NotifySendKept ==
    ASSUME FeedsInv, NEW o \in Orders, NotifySend(o)
    PROVE  FeedsInv'
  <1>1. /\ TasksRight' /\ \A q \in Orders \ {o} : notifier'[q] = notifier[q]
        /\ notifier' \in [Orders -> {"none", "asleep", "missed", "loaded", "failing",
                                     "buffering", "done"}]
    BY NotifierTasks DEF NotifySend
  <1>2. registry \in Conns /\ shown \in [Conns -> SUBSET (Orders \cup Offers)]
    BY DEF NotifySend, FeedsInv, FeedsTypeOK
  <1>3. shown' \in [Conns -> SUBSET (Orders \cup Offers)]
    BY <1>2 DEF NotifySend
  <1>4. FeedsTypeOK'
    BY <1>1, <1>3 DEF NotifySend, Notifier, FeedsInv, FeedsTypeOK, feed, offers
  <1>5. ASSUME NEW c \in Conns, registry = c, Alive(c), Told(c)
        PROVE  Told(c)'
    <2>1. shown'[c] = shown[c] \cup {o}
      BY <1>2, <1>5 DEF NotifySend
    <2>2. QED
      BY <1>1, <1>5, <2>1, ToldStays DEF NotifySend, Notifier, offers
  <1>6. QED
    BY <1>1, <1>4, <1>5, HandlersStay DEF NotifySend, Notifier

LEMMA NotifyFailKept ==
    ASSUME FeedsInv, NEW o \in Orders, NotifyFail(o)
    PROVE  FeedsInv'
  <1>1. /\ TasksRight' /\ \A q \in Orders \ {o} : notifier'[q] = notifier[q]
        /\ notifier' \in [Orders -> {"none", "asleep", "missed", "loaded", "failing",
                                     "buffering", "done"}]
    BY NotifierTasks DEF NotifyFail
  <1>2. FeedsTypeOK'
    BY <1>1 DEF NotifyFail, Notifier, FeedsInv, FeedsTypeOK, feed, offers
  <1>3. \A c \in Conns : ~(registry = c /\ Alive(c))
    BY DEF NotifyFail
  <1>4. QED
    BY <1>1, <1>2, <1>3, HandlersStay DEF NotifyFail, Notifier

LEMMA NotifyFailLateKept ==
    ASSUME FeedsInv, NEW o \in Orders, NotifyFailLate(o)
    PROVE  FeedsInv'
  <1>1. lateSends \in 0..MaxLateSends /\ lateSends' \in 0..MaxLateSends /\ lateSends' # 0
    BY FeedsAssumption DEF NotifyFailLate, FeedsInv, FeedsTypeOK
  <1>2. /\ TasksRight'
        /\ notifier' \in [Orders -> {"none", "asleep", "missed", "loaded", "failing",
                                     "buffering", "done"}]
    BY <1>1, NotifierTasks DEF NotifyFailLate
  <1>3. FeedsTypeOK'
    BY <1>1, <1>2 DEF NotifyFailLate, Notifier, FeedsInv, FeedsTypeOK, feed, offers
  <1>4. \A c \in Conns : ~(registry = c /\ Alive(c))
    BY DEF NotifyFailLate
  <1>5. QED
    BY <1>1, <1>2, <1>3, <1>4, HandlersStay DEF NotifyFailLate, Notifier

LEMMA NotifyRemoveKept ==
    ASSUME FeedsInv, NEW o \in Orders, NotifyRemove(o)
    PROVE  FeedsInv'
  <1>1. /\ TasksRight'
        /\ notifier' \in [Orders -> {"none", "asleep", "missed", "loaded", "failing",
                                     "buffering", "done"}]
    BY NotifierTasks DEF NotifyRemove
  <1>2. FeedsTypeOK'
    BY <1>1 DEF NotifyRemove, Notifier, FeedsInv, FeedsTypeOK, feed, offers
  <1>3. ~Tame
    BY DEF NotifyRemove, Notifier, FeedsInv, TasksRight, Tame
  <1>4. QED
    BY <1>1, <1>2, <1>3, HandlersStay DEF NotifyRemove, Notifier

LEMMA NotifyBufferKept ==
    ASSUME FeedsInv, NEW o \in Orders, NotifyBuffer(o)
    PROVE  FeedsInv'
  <1>1. /\ TasksRight' /\ \A q \in Orders \ {o} : notifier'[q] = notifier[q]
        /\ notifier' \in [Orders -> {"none", "asleep", "missed", "loaded", "failing",
                                     "buffering", "done"}]
    BY NotifierTasks DEF NotifyBuffer
  <1>2. buffer' \in Seq(Orders)
    BY AppendProperties DEF NotifyBuffer, FeedsInv, FeedsTypeOK
  <1>3. FeedsTypeOK'
    BY <1>1, <1>2 DEF NotifyBuffer, Notifier, FeedsInv, FeedsTypeOK, feed, offers
  <1>4. notifier[o] = "buffering"
    BY DEF NotifyBuffer, Notifier
  <1>5. \A c \in Conns : Told(c) => Told(c)'
    BY <1>1, <1>4, ToldStays DEF NotifyBuffer, Notifier, offers
  <1>6. QED
    BY <1>1, <1>3, <1>5, HandlersStay DEF NotifyBuffer, Notifier

LEMMA BufferExpiresKept ==
    ASSUME FeedsInv, BufferExpires
    PROVE  FeedsInv'
  <1>1. buffer' \in Seq(Orders)
    BY DEF BufferExpires
  <1>2. FeedsTypeOK' /\ TasksRight'
    BY <1>1 DEF BufferExpires, FeedsInv, FeedsTypeOK, TasksRight, feed, clients, offers
  <1>3. \A c \in Conns : Told(c) => Told(c)'
    BY ToldStays DEF BufferExpires, clients, offers
  <1>4. QED
    BY <1>2, <1>3, HandlersStay DEF BufferExpires, clients

LEMMA StoreOfferKept ==
    ASSUME FeedsInv, NEW a \in Offers, StoreOffer(a)
    PROVE  FeedsInv'
  <1>1. FeedsTypeOK' /\ TasksRight'
    BY DEF StoreOffer, FeedsInv, FeedsTypeOK, TasksRight, feed, clients, orders
  <1>2. pending' = a /\ offerer'[a] = "stored"
    BY DEF StoreOffer, FeedsInv, FeedsTypeOK
  <1>3. \A c \in Conns : Told(c) => Told(c)'
    BY <1>2, ToldStays DEF StoreOffer, clients, orders
  <1>4. QED
    BY <1>1, <1>3, HandlersStay DEF StoreOffer, clients

LEMMA TellPartnerKept ==
    ASSUME FeedsInv, NEW a \in Offers, TellPartner(a)
    PROVE  FeedsInv'
  <1>1. shown \in [Conns -> SUBSET (Orders \cup Offers)] /\ registry \in Conns \cup {NoConn}
    BY DEF FeedsInv, FeedsTypeOK
  <1>2. shown' \in [Conns -> SUBSET (Orders \cup Offers)]
    BY <1>1 DEF TellPartner
  <1>3. FeedsTypeOK' /\ TasksRight'
    BY <1>2 DEF TellPartner, FeedsInv, FeedsTypeOK, TasksRight, feed, orders
  <1>4. ASSUME NEW c \in Conns, registry = c, Alive(c), Told(c)
        PROVE  Told(c)'
    <2>1. shown'[c] = shown[c] \cup {a}
      BY <1>1, <1>4, FeedsAssumption DEF TellPartner
    <2>2. \A b \in Offers \ {a} : offerer'[b] = offerer[b]
      BY DEF TellPartner, FeedsInv, FeedsTypeOK
    <2>3. pending \in Offers \cup {NoOffer}
      BY DEF FeedsInv, FeedsTypeOK
    <2>4. QED
      BY <1>4, <2>1, <2>2, <2>3, ToldStays DEF TellPartner, orders
  <1>5. QED
    BY <1>3, <1>4, HandlersStay DEF TellPartner

LEMMA OfferGoneKept ==
    ASSUME FeedsInv, OfferGone
    PROVE  FeedsInv'
  <1>1. FeedsTypeOK' /\ TasksRight'
    BY DEF OfferGone, FeedsInv, FeedsTypeOK, TasksRight, feed, clients, orders
  <1>2. \A c \in Conns : Told(c) => Told(c)'
    BY ToldStays DEF OfferGone, clients, orders
  <1>3. QED
    BY <1>1, <1>2, HandlersStay DEF OfferGone, clients

LEMMA EventKept ==
    ASSUME FeedsInv, SendEvent \/ RemoveEntry
    PROVE  FeedsInv'
  <1>1. CASE SendEvent
    <2>1. lateSends \in 0..MaxLateSends /\ lateSends' \in 0..MaxLateSends
      BY <1>1, FeedsAssumption DEF SendEvent, FeedsInv, FeedsTypeOK
    <2>2. FeedsTypeOK'
      BY <1>1, <2>1 DEF SendEvent, FeedsInv, FeedsTypeOK, feed, clients, orders, offers
    <2>3. TasksRight' /\ (lateSends' = 0 => lateSends = 0)
      BY <1>1, <2>1 DEF SendEvent, FeedsInv, TasksRight, orders
    <2>4. \A c \in Conns : ~(registry = c /\ Alive(c))
      BY <1>1 DEF SendEvent
    <2>5. QED
      BY <1>1, <2>2, <2>3, <2>4, HandlersStay DEF SendEvent, clients
  <1>2. CASE RemoveEntry
    <2>1. FeedsTypeOK' /\ TasksRight'
      BY <1>2
      DEF RemoveEntry, FeedsInv, FeedsTypeOK, TasksRight, feed, clients, orders, offers
    <2>2. ~Tame
      BY <1>2 DEF RemoveEntry, FeedsInv, TasksRight, Tame
    <2>3. QED
      BY <1>2, <2>1, <2>2, HandlersStay DEF RemoveEntry, clients
  <1>3. QED
    BY <1>1, <1>2

LEMMA FeedsNextKept ==
    ASSUME FeedsInv, [FeedsNext]_feedsVars
    PROVE  FeedsInv'
  <1>1. ASSUME NEW c \in Conns, Handle(c)
        PROVE  FeedsInv'
    BY <1>1, ConnectKept, GreetKept, LeaveKept, DisconnectedKept, EndKept, DrainKept,
       PushKept, QueryKept, ListKept, ReadKeyKept, SendOfferKept DEF Handle
  <1>2. ASSUME NEW o \in Orders, Order(o)
        PROVE  FeedsInv'
    BY <1>2, PlaceOrderKept, CommitOrderKept, AnswerOrderKept, NotifyLoadKept,
       NotifyNobodyKept, NotifySendKept, NotifyFailKept, NotifyFailLateKept,
       NotifyRemoveKept, NotifyBufferKept DEF Order
  <1>3. CASE UNCHANGED feedsVars
    <2> USE <1>3 DEF feedsVars, feed, clients, orders, offers
    <2>1. FeedsTypeOK' /\ TasksRight'
      BY DEF FeedsInv, FeedsTypeOK, TasksRight
    <2>2. \A c \in Conns : Told(c) => Told(c)'
      BY ToldStays
    <2>3. QED
      BY <2>1, <2>2, HandlersStay
  <1>4. CASE FeedsNext
    BY <1>1, <1>2, <1>4, BufferExpiresKept, StoreOfferKept, TellPartnerKept,
       OfferGoneKept, EventKept DEF FeedsNext
  <1>5. QED
    BY <1>3, <1>4

-----------------------------------------------------------------------------
(* Theorems *)

\* Every reachable state is well typed.
THEOREM FeedsTypeCorrect == FeedsSpec => []FeedsTypeOK
  <1>1. FeedsInv => FeedsTypeOK
    BY DEF FeedsInv
  <1>2. FeedsInit => FeedsInv
    BY FeedsInitHolds
  <1>3. FeedsInv /\ [FeedsNext]_feedsVars => FeedsInv'
    BY FeedsNextKept
  <1>4. QED
    BY <1>1, <1>2, <1>3, PTL DEF FeedsSpec

\* Whatever is buffered, popped, lost or expires: a connected restaurant has been
\* sent the orders that are PLACED (main.py:442-467), a connected partner the
\* pending offer (main.py:368-389), for any number of connections one after the
\* other, of orders and of offers.
THEOREM ConnectedAreCurrent == FeedsSpec => []FeedsAreCurrent
  <1>1. FeedsInv => FeedsAreCurrent
    <2> SUFFICES ASSUME FeedsInv PROVE FeedsAreCurrent
      OBVIOUS
    <2>1. RestaurantSeesPlaced
      BY DEF FeedsInv, Tame, Told, Reached, RestaurantSeesPlaced
    <2>2. PartnerSeesOffer
      BY DEF FeedsInv, Tame, Told, Reached, PartnerSeesOffer
    <2>3. QED
      BY <2>1, <2>2 DEF FeedsAreCurrent
  <1>2. FeedsInit => FeedsInv
    BY FeedsInitHolds
  <1>3. FeedsInv /\ [FeedsNext]_feedsVars => FeedsInv'
    BY FeedsNextKept
  <1>4. QED
    BY <1>1, <1>2, <1>3, PTL DEF FeedsSpec
=============================================================================
