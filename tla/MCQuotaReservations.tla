------------------------- MODULE MCQuotaReservations -------------------------
(* A small instance of QuotaReservations for TLC. *)
EXTENDS QuotaReservations, TLC

\* Two limited rows, drained in the order of their periods.  The first can be lent
\* twice to one grant, with quota of both sources.
TwoLimited == 1 :> 3 @@ 2 :> 1
SameOrder == 1 :> 1 @@ 2 :> 2

Lent ==
  {[plan |-> 0, explicit |-> 1, deny |-> FALSE], [plan |-> 1, explicit |-> 2, deny |-> FALSE]}

Symmetry == Permutations(Ops)
================================================================================
