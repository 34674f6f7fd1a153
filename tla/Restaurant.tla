---------------------------- MODULE Restaurant ----------------------------
(***************************************************************************)
(* A restaurant from its registration to taking orders: profile, documents *)
(* and their review, opening and closing, placing orders at it.            *)
(*                                                                         *)
(* Requests are transactions as in Partner: they load the user's row when  *)
(* they authenticate, decide with it and with what they read then, and     *)
(* write absolute values when they commit.  Unlike there, an upload of a   *)
(* document commits twice, and looks at the documents in between; the user *)
(* it then looks at is the one it has loaded before.                       *)
(*                                                                         *)
(* The initial state chooses which restaurants are orderly (transactions   *)
(* on them never overlap) and which are run with the Flutter app.          *)
(***************************************************************************)
EXTENDS Naturals

CONSTANTS
    Restaurants,    \* the restaurant partners, each with one restaurant
    Docs,           \* ALL_VALID_DOCS
    Required,       \* REQUIRED_DOCS
    Sessions,       \* the requests that may be in flight at once
    MaxOrders,      \* bounds the active orders of a restaurant
    MaxFaults       \* bounds the requests that fail halfway

ASSUME RestaurantAssumption ==
    /\ Required \subseteq Docs /\ Required # {}
    /\ MaxOrders \in Nat /\ MaxFaults \in Nat

Status    == {"PENDING_DOCS", "DOCS_SUBMITTED", "DOCS_APPROVED", "DOCS_REJECTED"}
DocStatus == {"PENDING", "APPROVED", "REJECTED"}
Missing   == "MISSING"    \* a row that is not there
Same      == "SAME"       \* an attribute that the transaction does not write

VARIABLES
    profile,    \* is there a restaurant_partners row, a restaurant, its hours?
    docs,       \* restaurant_documents.status by restaurant and type
    status,     \* users.restaurant_status
    isOpen,     \* restaurants.is_open
    active,     \* orders of the restaurant that are PLACED, CONFIRMED, PREPARING
    sess,       \* requests in flight
    faults,     \* requests that have failed halfway
    orderly,    \* restaurants on which transactions never overlap
    app         \* restaurants of the Flutter app

rows == <<profile, docs, status, isOpen, active>>
kinds == <<orderly, app>>
vars == <<rows, sess, faults, kinds>>

-----------------------------------------------------------------------------
(* Transactions *)

Work ==
    [restaurant : Restaurants,
     at : {"loaded", "commit", "check"},
     seen : Status,                           \* loaded with the request
     docs : [Docs -> DocStatus \cup {Same}],  \* what it is going to write
     inserts : SUBSET Docs,                   \* rows it believes missing
     status : Status \cup {Same},
     open : {"TRUE", "FALSE", Same},
     creates : BOOLEAN, places : BOOLEAN,     \* the profile, an order
     next : {"end", "check", "submit"}]       \* what follows the commit

Idle == [at |-> "idle"]
Busy(s) == sess[s] # Idle

Untouched(r) == \A s \in Sessions : Busy(s) => sess[s].restaurant # r

Keep == [d \in Docs |-> Same]
Write(loaded, new) == IF loaded = new THEN Same ELSE new

Loaded(s) == Busy(s) /\ sess[s].at = "loaded"

\* What was loaded is forgotten when it matters no more.
Decide(s, work) ==
    /\ sess' = [sess EXCEPT ![s] = [work EXCEPT !.at = "commit",
                    !.seen = IF work.next = "end" THEN "PENDING_DOCS" ELSE @]]
    /\ UNCHANGED <<rows, faults, kinds>>

\* The partner authenticates, or an admin's or a customer's request begins.
Request(s, r) ==
    /\ ~Busy(s)
    /\ r \in orderly => Untouched(r)
    /\ sess' = [sess EXCEPT ![s] =
         [restaurant |-> r, at |-> "loaded", seen |-> status[r],
          docs |-> Keep, inserts |-> {}, status |-> Same, open |-> Same,
          creates |-> FALSE, places |-> FALSE, next |-> "end"]]
    /\ UNCHANGED <<rows, faults, kinds>>

\* The request is refused, or only reads.
Refuse(s) ==
    /\ Loaded(s)
    /\ sess' = [sess EXCEPT ![s] = Idle]
    /\ UNCHANGED <<rows, faults, kinds>>

\* A row to insert violates uq_restaurant_doc, or the unique user_id.
Violates(w) ==
    \/ \E d \in w.inserts : docs[w.restaurant][d] # Missing
    \/ w.creates /\ profile[w.restaurant]

Conflict(s) ==
    /\ Busy(s) /\ sess[s].at = "commit" /\ Violates(sess[s])
    /\ sess' = [sess EXCEPT ![s] = Idle]
    /\ UNCHANGED <<rows, faults, kinds>>

\* A request fails halfway: what it has committed stays.
Fail(s) ==
    /\ Busy(s) /\ ~Loaded(s)
    /\ faults < MaxFaults
    /\ faults' = faults + 1
    /\ sess' = [sess EXCEPT ![s] = Idle]
    /\ UNCHANGED <<rows, kinds>>

\* After its first commit an upload looks at the documents, and the app's
\* registration submits.
AfterCommit(w) ==
    CASE w.next = "end"    -> Idle
      [] w.next = "check"  -> [w EXCEPT !.at = "check", !.docs = Keep,
                                        !.inserts = {}, !.next = "end"]
      [] w.next = "submit" -> [w EXCEPT !.creates = FALSE, !.next = "end",
                                 !.seen = "PENDING_DOCS",
                                 !.status = Write(w.seen, "DOCS_SUBMITTED")]

Commit(s) ==
    LET w == sess[s]
        r == w.restaurant
    IN  /\ Busy(s) /\ w.at = "commit" /\ ~Violates(w)
        /\ profile' = [profile EXCEPT ![r] = @ \/ w.creates]
        /\ docs' = [docs EXCEPT ![r] =
              [d \in Docs |-> IF w.docs[d] = Same THEN @[d] ELSE w.docs[d]]]
        /\ status' = [status EXCEPT ![r] = IF w.status = Same THEN @ ELSE w.status]
        /\ isOpen' = [isOpen EXCEPT ![r] =
              IF w.open = Same THEN @ ELSE w.open = "TRUE"]
        /\ w.places => active[r] < MaxOrders     \* the bound
        /\ active' = [active EXCEPT ![r] = IF w.places THEN @ + 1 ELSE @]
        /\ sess' = [sess EXCEPT ![s] = AfterCommit(w)]
        /\ UNCHANGED <<faults, kinds>>

-----------------------------------------------------------------------------
(* Registration *)

\* One transaction inserts the restaurant, closed, the partner and the hours.
SetupRestaurant(s) ==
    LET w == sess[s]
    IN  /\ Loaded(s)
        /\ w.seen \in {"PENDING_DOCS", "DOCS_REJECTED"}
        /\ ~profile[w.restaurant]
        /\ Decide(s, [w EXCEPT !.creates = TRUE])

\* The app's handler does not look at the status, and submits afterwards.
CreateRestaurant(s) ==
    LET w == sess[s]
    IN  /\ Loaded(s) /\ w.restaurant \in app
        /\ ~profile[w.restaurant]
        /\ Decide(s, [w EXCEPT !.creates = TRUE, !.next = "submit"])

-----------------------------------------------------------------------------
(* Documents *)

Uploaded(r) == {d \in Docs : docs[r][d] \in {"PENDING", "APPROVED"}}
MissingRequired(r) == Required \ Uploaded(r)
CanSubmit(r) == MissingRequired(r) = {}
RejectedDocs(r) == {d \in Docs : docs[r][d] = "REJECTED"}

\* What the admin's lists show.
Pending  == {r \in Restaurants : profile[r] /\ status[r] \notin {"DOCS_APPROVED", "DOCS_REJECTED"}}
Approved == {r \in Restaurants : profile[r] /\ status[r] = "DOCS_APPROVED"}

UploadDocument(s, d) ==
    LET w == sess[s]
        r == w.restaurant
    IN  /\ Loaded(s) /\ profile[r]
        /\ Decide(s, [w EXCEPT
             !.docs[d] = Write(docs[r][d], "PENDING"),
             !.inserts = IF docs[r][d] = Missing THEN {d} ELSE {},
             !.next = "check"])

\* Mutant: only the upload after a rejection submits.
CheckDocuments_NotRejected(s) ==
    LET w == sess[s]
    IN  /\ Busy(s) /\ w.at = "check"
        /\ IF CanSubmit(w.restaurant) /\ w.seen = "DOCS_REJECTED"
           THEN Decide(s, [w EXCEPT !.status = "DOCS_SUBMITTED"])
           ELSE /\ sess' = [sess EXCEPT ![s] = Idle]
                /\ UNCHANGED <<rows, faults, kinds>>

\* The documents are those of now, the status is the one that was loaded.
CheckDocuments(s) ==
    LET w == sess[s]
    IN  /\ Busy(s) /\ w.at = "check"
        /\ IF CanSubmit(w.restaurant) /\ w.seen \in {"PENDING_DOCS", "DOCS_REJECTED"}
           THEN Decide(s, [w EXCEPT !.status = "DOCS_SUBMITTED"])
           ELSE /\ sess' = [sess EXCEPT ![s] = Idle]
                /\ UNCHANGED <<rows, faults, kinds>>

SubmitDocuments(s) ==
    LET w == sess[s]
    IN  /\ Loaded(s) /\ profile[w.restaurant]
        /\ CanSubmit(w.restaurant)
        /\ w.seen \notin {"DOCS_SUBMITTED", "DOCS_APPROVED"}
        /\ Decide(s, [w EXCEPT !.status = "DOCS_SUBMITTED"])

-----------------------------------------------------------------------------
(* Review *)

\* Each document that the admin's request has read, the user, the restaurant.
ApproveRestaurant(s) ==
    LET w == sess[s]
        r == w.restaurant
    IN  /\ Loaded(s) /\ profile[r]
        /\ Decide(s, [w EXCEPT
             !.docs = [d \in Docs |-> IF docs[r][d] = Missing THEN Same
                                      ELSE Write(docs[r][d], "APPROVED")],
             !.status = Write(w.seen, "DOCS_APPROVED"),
             !.open = IF isOpen[r] THEN Same ELSE "TRUE"])

\* Mutant: the document is rejected and the partner is not.
RejectDocument_StatusKept(s, d) ==
    LET w == sess[s]
        r == w.restaurant
    IN  /\ Loaded(s) /\ profile[r]
        /\ Decide(s, [w EXCEPT
             !.docs[d] = IF docs[r][d] = Missing THEN Same
                         ELSE Write(docs[r][d], "REJECTED")])

\* The restaurant stays as open as it was.
RejectDocument(s, d) ==
    LET w == sess[s]
        r == w.restaurant
    IN  /\ Loaded(s) /\ profile[r]
        /\ Decide(s, [w EXCEPT
             !.docs[d] = IF docs[r][d] = Missing THEN Same
                         ELSE Write(docs[r][d], "REJECTED"),
             !.status = Write(w.seen, "DOCS_REJECTED")])

\* The app's admin decides on the restaurant and leaves the documents alone.
UpdateRestaurantStatus(s, live) ==
    LET w == sess[s]
        r == w.restaurant
    IN  /\ Loaded(s) /\ r \in app /\ profile[r]
        /\ Decide(s, [w EXCEPT
             !.status = Write(w.seen, IF live THEN "DOCS_APPROVED" ELSE "DOCS_REJECTED"),
             !.open = IF isOpen[r] = live THEN Same
                      ELSE IF live THEN "TRUE" ELSE "FALSE"])

-----------------------------------------------------------------------------
(* Opening, closing, orders *)

\* Mutant: closing does not look for active orders.
SetOpen_Anyway(s, b) ==
    LET w == sess[s]
        r == w.restaurant
    IN  /\ Loaded(s) /\ profile[r]
        /\ Decide(s, [w EXCEPT !.open = IF isOpen[r] = b THEN Same
                                        ELSE IF b THEN "TRUE" ELSE "FALSE"])

SetOpen(s, b) ==
    LET w == sess[s]
        r == w.restaurant
    IN  /\ Loaded(s) /\ profile[r]
        /\ ~b => active[r] = 0
        /\ Decide(s, [w EXCEPT !.open = IF isOpen[r] = b THEN Same
                                        ELSE IF b THEN "TRUE" ELSE "FALSE"])

\* Mutant: any partner may open.
ToggleOpen_Unapproved(s, b) == SetOpen(s, b)

ToggleOpen(s, b) == Loaded(s) /\ sess[s].seen = "DOCS_APPROVED" /\ SetOpen(s, b)

\* The app's handler does not ask for the approval.
OnlineStatus(s, b) == Loaded(s) /\ sess[s].restaurant \in app /\ SetOpen(s, b)

\* A customer's checkout: the restaurant must be open when it is read.
PlaceOrder(s) ==
    LET w == sess[s]
    IN  /\ Loaded(s)
        /\ isOpen[w.restaurant]
        /\ Decide(s, [w EXCEPT !.places = TRUE])

\* An active order becomes ready, or is rejected or cancelled.
FinishOrder(r) ==
    /\ active[r] > 0
    /\ active' = [active EXCEPT ![r] = @ - 1]
    /\ UNCHANGED <<profile, docs, status, isOpen, sess, faults, kinds>>

-----------------------------------------------------------------------------
(* The specification *)

Init ==
    /\ profile = [r \in Restaurants |-> FALSE]
    /\ docs = [r \in Restaurants |-> [d \in Docs |-> Missing]]
    /\ status = [r \in Restaurants |-> "PENDING_DOCS"]
    /\ isOpen = [r \in Restaurants |-> FALSE]
    /\ active = [r \in Restaurants |-> 0]
    /\ sess = [s \in Sessions |-> Idle]
    /\ faults = 0
    /\ orderly \in SUBSET Restaurants
    /\ app \in SUBSET Restaurants

Handler(s) ==
    \/ SetupRestaurant(s) \/ CreateRestaurant(s)
    \/ \E d \in Docs : UploadDocument(s, d) \/ RejectDocument(s, d)
    \/ CheckDocuments(s)
    \/ SubmitDocuments(s)
    \/ ApproveRestaurant(s)
    \/ \E b \in BOOLEAN : \/ UpdateRestaurantStatus(s, b)
                          \/ ToggleOpen(s, b)
                          \/ OnlineStatus(s, b)
    \/ PlaceOrder(s)

Next ==
    \/ \E s \in Sessions :
         \/ \E r \in Restaurants : Request(s, r)
         \/ Handler(s)
         \/ Commit(s)
         \/ Refuse(s) \/ Conflict(s) \/ Fail(s)
    \/ \E r \in Restaurants : FinishOrder(r)

Spec == Init /\ [][Next]_vars

-----------------------------------------------------------------------------
(* Properties *)

\* Every variable has values of its kind.
TypeOK ==
    /\ profile \in [Restaurants -> BOOLEAN]
    /\ docs \in [Restaurants -> [Docs -> DocStatus \cup {Missing}]]
    /\ status \in [Restaurants -> Status]
    /\ isOpen \in [Restaurants -> BOOLEAN]
    /\ active \in [Restaurants -> 0..MaxOrders]
    /\ sess \in [Sessions -> Work \cup {Idle}]
    /\ faults \in 0..MaxFaults
    /\ orderly \in SUBSET Restaurants
    /\ app \in SUBSET Restaurants

\* However requests overlap, as long as none fails halfway: when all required
\* documents are there and no request is under way, they have been submitted
\* at some time, because every upload looks again after its commit.
UploadsSubmit ==
    faults = 0 =>
        \A r \in Restaurants :
            CanSubmit(r) /\ Untouched(r) => status[r] # "PENDING_DOCS"

\* As long as requests do not overlap, a restaurant that waits for the review
\* lacks no required document, and an approved one has no rejected document,
\* through any sequence of uploads, rejections and approvals, even if some of
\* them fail halfway.
ReviewStands ==
    \A r \in orderly \ app :
        /\ status[r] = "DOCS_SUBMITTED" => CanSubmit(r)
        /\ r \in Approved => RejectedDocs(r) = {}

\* Only a restaurant that has been approved once opens and gets orders,
\* whatever overlaps; those of the app open unapproved.
OpenWasReviewed ==
    \A r \in Restaurants \ app :
        isOpen[r] \/ active[r] > 0 => profile[r] /\ status[r] # "PENDING_DOCS"

\* As long as requests do not overlap, a restaurant with active orders does not
\* close (restaurant_partner_service.py:213-228).
OpenWhileActive ==
    [][\A r \in orderly \ app : isOpen[r] /\ ~isOpen'[r] => active[r] = 0]_vars

=============================================================================
