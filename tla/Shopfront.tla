----------------------------- MODULE Shopfront -----------------------------
(***************************************************************************)
(* The columns of a restaurant that are computed from other rows:          *)
(* has_offers from its offers, rating and total_reviews from its reviews.  *)
(*                                                                         *)
(* Ratings are counted in hundredths, as the column NUMERIC(3, 2) keeps    *)
(* them: every review rounds once more.                                    *)
(***************************************************************************)
EXTENDS Requests, Integers, Functions

CONSTANTS
    Offers,
    Delivered,      \* delivered orders of the restaurant
    Ratings,        \* what a customer may rate, 1 to 5
    NoReview        \* an order without a row of reviews

ASSUME ShopfrontAssumption ==
    /\ Ratings \subseteq 1..5
    /\ IsFiniteSet(Delivered)
    /\ "none" \notin Offers \cup Delivered
    /\ NoReview \notin [food : Ratings, delivery : Ratings]

VARIABLES
    offer,          \* restaurant_offers: "none", "on" or "off" (is_active)
    hasOffers,      \* restaurants.has_offers
    review,         \* reviews by order: food_rating and delivery_rating
    totalReviews,   \* restaurants.total_reviews
    rating,         \* restaurants.rating
    shopReq,        \* requests in flight
    composed        \* the owner waits for each answer

shopVars == <<offer, hasOffers, review, totalReviews, rating, shopReq, composed>>

ShopRequest ==
    [at : {"create", "flush", "mark", "insert", "rate"},
     offer : Offers \cup {"none"}, read : {"on", "off"}, set : {"on", "off"},
     mark : BOOLEAN,
     order : Delivered \cup {"none"}, food : 0..5, delivery : 0..5]

Blank == [at |-> "create", offer |-> "none", read |-> "on", set |-> "on",
          mark |-> TRUE, order |-> "none", food |-> 0, delivery |-> 0]

ShopAt(s, step) == shopReq[s] # Idle /\ shopReq[s].at = step

ShopAsks(s, request) ==
    /\ shopReq[s] = Idle
    /\ shopReq' = [shopReq EXCEPT ![s] = request]
    /\ UNCHANGED <<offer, hasOffers, review, totalReviews, rating, composed>>

OwnerAsks(s, request) ==
    /\ composed => \A t \in Sessions : shopReq[t] # Idle => shopReq[t].offer = "none"
    /\ ShopAsks(s, request)

-----------------------------------------------------------------------------
(* Offers *)

\* The restaurant is marked and the offer inserted; both show at the commit.
CreateOffer(s, o) ==
    /\ offer[o] = "none" /\ AloneOn(shopReq, "offer", o)
    /\ OwnerAsks(s, [Blank EXCEPT !.offer = o])

CommitOffer(s) ==
    /\ ShopAt(s, "create")
    /\ offer' = [offer EXCEPT ![shopReq[s].offer] = "on"]
    /\ hasOffers' = TRUE
    /\ shopReq' = Ends(shopReq, s)
    /\ UNCHANGED <<review, totalReviews, rating, composed>>

\* An update leaves is_active as it is, a deletion switches it off.
ChangeOffer(s, o, set) ==
    /\ offer[o] # "none"
    /\ OwnerAsks(s, [Blank EXCEPT !.at = "flush", !.offer = o,
                                  !.read = offer[o], !.set = set])

UpdateOffer(s, o)    == offer[o] # "none" /\ ChangeOffer(s, o, offer[o])
ToggleOffer(s, o, b) == ChangeOffer(s, o, b)
DeleteOffer(s, o)    == ChangeOffer(s, o, "off")

Written(w) == w.set # w.read

\* Mutant: the offers are counted before the change is flushed.
ActiveFor_Committed(w) == {o \in Offers : offer[o] = "on"}

\* The active offers as the session sees them after its flush.
ActiveFor(w) ==
    {o \in Offers : IF o = w.offer /\ Written(w) THEN w.set = "on"
                                                 ELSE offer[o] = "on"}

\* The flush locks the row that it writes; then the active offers are counted.
RefreshHasOffers(s) ==
    LET w == shopReq[s]
    IN  /\ ShopAt(s, "flush")
        /\ \A t \in Sessions \ {s} :
             ShopAt(t, "mark") /\ Written(shopReq[t]) => shopReq[t].offer # w.offer
        /\ shopReq' = [shopReq EXCEPT ![s].at = "mark",
                                      ![s].mark = ActiveFor(w) # {}]
        /\ UNCHANGED <<offer, hasOffers, review, totalReviews, rating, composed>>

MarkRestaurant(s) ==
    LET w == shopReq[s]
    IN  /\ ShopAt(s, "mark")
        /\ offer' = IF Written(w) THEN [offer EXCEPT ![w.offer] = w.set] ELSE offer
        /\ hasOffers' = w.mark
        /\ shopReq' = Ends(shopReq, s)
        /\ UNCHANGED <<review, totalReviews, rating, composed>>

-----------------------------------------------------------------------------
(* Reviews *)

\* The handler looks for a review of the order.
CreateReview(s, k, food, delivery) ==
    /\ review[k] = NoReview
    /\ ShopAsks(s, [Blank EXCEPT !.at = "insert", !.order = k,
                                 !.food = food, !.delivery = delivery])

\* A second row waits for the first one's transaction and violates uq_review_order.
InsertReview(s) ==
    LET k == shopReq[s].order
    IN  /\ ShopAt(s, "insert")
        /\ \A t \in Sessions : ShopAt(t, "rate") => shopReq[t].order # k
        /\ shopReq' = IF review[k] = NoReview
                      THEN Goes(shopReq, s, "rate") ELSE Ends(shopReq, s)
        /\ UNCHANGED <<offer, hasOffers, review, totalReviews, rating, composed>>

\* The average of the two ratings, in hundredths.
Average(r) == 50 * (r.food + r.delivery)

\* To the nearest hundredth, halves upwards.
Rounded(n, d) == (2 * n + d) \div (2 * d)

\* One UPDATE computes with the row as it is by then, and locks it to the end.
RateRestaurant(s) ==
    LET w == shopReq[s]
        r == [food |-> w.food, delivery |-> w.delivery]
    IN  /\ ShopAt(s, "rate")
        /\ review' = [review EXCEPT ![w.order] = r]
        /\ rating' = Rounded(rating * totalReviews + Average(r), totalReviews + 1)
        /\ totalReviews' = totalReviews + 1
        /\ shopReq' = Ends(shopReq, s)
        /\ UNCHANGED <<offer, hasOffers, composed>>

Reviews == {k \in Delivered : review[k] # NoReview}

\* The restaurant's summary: how often each number of stars was given, for the
\* food, for the delivery, and for either.
RatingsSummary ==
    LET food     == [n \in 1..5 |-> Cardinality({k \in Reviews : review[k].food = n})]
        delivery == [n \in 1..5 |-> Cardinality({k \in Reviews : review[k].delivery = n})]
    IN  [food |-> food, delivery |-> delivery,
         stars |-> [n \in 1..5 |-> food[n] + delivery[n]]]

ShopFails(s) ==
    /\ shopReq[s] # Idle
    /\ shopReq' = Ends(shopReq, s)
    /\ UNCHANGED <<offer, hasOffers, review, totalReviews, rating, composed>>

-----------------------------------------------------------------------------
(* The specification *)

ShopInit ==
    /\ offer = [o \in Offers |-> "none"] /\ hasOffers = FALSE
    /\ review = [k \in Delivered |-> NoReview]
    /\ totalReviews = 0 /\ rating = 0
    /\ shopReq = [s \in Sessions |-> Idle]
    /\ composed \in BOOLEAN

ShopNext ==
    \E s \in Sessions :
       \/ \E o \in Offers :
            \/ CreateOffer(s, o) \/ UpdateOffer(s, o) \/ DeleteOffer(s, o)
            \/ \E b \in {"on", "off"} : ToggleOffer(s, o, b)
       \/ CommitOffer(s) \/ RefreshHasOffers(s) \/ MarkRestaurant(s)
       \/ \E k \in Delivered, food, delivery \in Ratings :
            CreateReview(s, k, food, delivery)
       \/ InsertReview(s) \/ RateRestaurant(s) \/ ShopFails(s)

ShopSpec == ShopInit /\ [][ShopNext]_shopVars

-----------------------------------------------------------------------------
(* Properties *)

\* Every variable has values of its kind.
ShopTypeOK ==
    /\ offer \in [Offers -> {"none", "on", "off"}]
    /\ hasOffers \in BOOLEAN
    /\ review \in [Delivered -> [food : Ratings, delivery : Ratings] \cup {NoReview}]
    /\ totalReviews \in Nat /\ rating \in Nat
    /\ shopReq \in [Sessions -> ShopRequest \cup {Idle}]
    /\ composed \in BOOLEAN

\* However reviews overlap, each is counted once, and the stored rating is off
\* the mean by no more than the roundings on its way can add up to: half a
\* hundredth per review (review_service.py:77-88).
RatingIsMean ==
    LET n == totalReviews
        off == n * rating - SumFunction([k \in Reviews |-> Average(review[k])])
    IN  /\ n = Cardinality(Reviews)
        /\ 4 * off \in -(n * (n + 1))..(n * (n + 1))

\* The summary's stars are those of as many reviews as the column says
\* (restaurant_analytics_service.py:331-393).
StarsAddUp == SumFunction(RatingsSummary.stars) = 2 * totalReviews

\* The flag is set if and only if an offer is active, as long as the owner waits
\* for each answer.
FlagIsRight == composed => (hasOffers <=> \E o \in Offers : offer[o] = "on")

\* What customers filter and sort restaurants by agrees with the rows.
ColumnsAgree == RatingIsMean /\ StarsAddUp /\ FlagIsRight

=============================================================================
