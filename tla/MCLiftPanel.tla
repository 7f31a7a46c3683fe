----------------------------- MODULE MCLiftPanel -----------------------------
(***************************************************************************)
(* Small instances of LiftPanel for TLC.                                   *)
(***************************************************************************)
EXTENDS LiftPanel, TLC

\* Clients and lifts are interchangeable: nothing in the model orders them.
FleetSymmetry == Permutations(Clients) \union Permutations(Lifts)

=============================================================================
