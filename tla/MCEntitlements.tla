---------------------------- MODULE MCEntitlements ----------------------------
(* A small instance of Entitlements for TLC: a plan with a feature, one with   *)
(* quota only, which can be renewed, and the keys shared between them.         *)
EXTENDS Entitlements, TLC

Limited(n) == [effect |-> "allow", limit |-> n]

FeaturesOf == "basic" :> ("search" :> "allow") @@ "metered" :> <<>>
QuotasOf ==
  "basic" :> ("approvals" :> Limited(1)) @@ "metered" :> ("approvals" :> Limited(2))
Symmetry == Permutations(Ops) \union Permutations(Grants) \union Permutations(Subscriptions)
================================================================================
