--------------------------- MODULE MCRestaurant ---------------------------
(***************************************************************************)
(* An instance for TLC of the restaurant's account (Restaurant) and of the *)
(* live feeds (Feeds).  They share no state: a behaviour is about one of   *)
(* them, its focus, while the other stays as it is.                        *)
(*                                                                         *)
(* One restaurant of any kind but one, with two required documents: the    *)
(* kind left out, a restaurant of the app on which transactions overlap,   *)
(* has no property of its own.  One feed of any kind, whose client         *)
(* reconnects only after the old handler's end: no property is about the   *)
(* others.                                                                 *)
(***************************************************************************)
EXTENDS Restaurant, Feeds, TLC

VARIABLE focus

MCInit ==
    /\ Init /\ FeedsInit
    /\ orderlyFeed
    /\ \/ focus = "account" /\ app \subseteq orderly /\ kind = "restaurant"
       \/ focus = "feed" /\ app = {} /\ orderly = {}

MCNext ==
    \/ focus = "account" /\ Next /\ UNCHANGED <<focus, feedsVars>>
    \/ focus = "feed" /\ FeedsNext /\ UNCHANGED <<focus, vars>>

MCSpec == MCInit /\ [][MCNext]_<<focus, vars, feedsVars>>

Symmetry ==
    Permutations(Sessions) \cup Permutations(Conns)
=============================================================================
