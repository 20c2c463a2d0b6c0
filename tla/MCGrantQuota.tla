----------------------------- MODULE MCGrantQuota -----------------------------
(* Small instances of GrantQuota for TLC. *)
EXTENDS GrantQuota, TLC

\* Two rows of the owner, the second without a limit; the ids are in the other
\* order than the periods.
OneOfEach == 1 :> 2 @@ 2 :> Unlimited
OneRow == 1 :> 2
Backwards == 1 :> 2 @@ 2 :> 1
Only == 1 :> 1

Explicit(n) == [plan |-> 0, explicit |-> n, deny |-> FALSE]
AllKinds ==
  {Explicit(1), [plan |-> 1, explicit |-> 2, deny |-> FALSE], [plan |-> 1, explicit |-> 0, deny |-> TRUE]}
OneUnit == {Explicit(1)}

Symmetry == Permutations(Ops)
================================================================================
