----------------------------- MODULE MCPartner -----------------------------
(***************************************************************************)
(* An instance of Partner for TLC: one partner of any kind but one, with   *)
(* two required documents, one of which the app's form knows.  The kind    *)
(* left out, a partner of the app whose transactions overlap, is the one   *)
(* that no property of the run is about.                                   *)
(***************************************************************************)
EXTENDS Partner, TLC

MCInit == Init /\ app \subseteq orderly

MCSpec == MCInit /\ [][Next]_vars

Symmetry == Permutations(Sessions)
=============================================================================
