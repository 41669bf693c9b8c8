----------------------------- MODULE MCInQueue -----------------------------
(***************************************************************************)
(* An instance of InQueue: two pushers, of which one also asks IsEmpty,    *)
(* and two poppers of different kinds.                                     *)
(***************************************************************************)
EXTENDS InQueue, TLC

CONSTANTS p1, p2, c1, c2

Roles ==
  (p1 :> {"Push", "IsEmpty"}) @@ (p2 :> {"Push"}) @@ (c1 :> {"Pop"}) @@ (c2 :> {"PopMs"})

=============================================================================
