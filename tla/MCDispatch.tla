----------------------------- MODULE MCDispatch -----------------------------
(***************************************************************************)
(* Instances of Dispatch for TLC.                                          *)
(***************************************************************************)
EXTENDS Screens, TLC

\* Orders, partners and sessions are interchangeable.
Symmetry ==
    Permutations(Orders) \cup Permutations(Partners) \cup Permutations(Sessions)

=============================================================================
