---------------------------- MODULE MCGrantIssuing ----------------------------
(* A small instance of GrantIssuing for TLC: an item of each kind, and a plan  *)
(* that has rules for the feature and the quota.                               *)
EXTENDS GrantIssuing, TLC

OneRow == 1 :> 2
Only == 1 :> 1

Kind ==
  [manage |-> "permission", approve |-> "permission", role |-> "role", group |-> "group",
   feature |-> "feature", pro |-> "plan", quota |-> "quota"]
SmallItems == DOMAIN Kind
PlanRules == [pro |-> [feature |-> "allow", quota |-> "allow"]]
OfOne == [o \in Organizations |-> IF o = "one" THEN {"pro"} ELSE {}]

SmallBundles ==
  {[approve |-> "allow", role |-> "deny", group |-> "allow", feature |-> "allow", pro |-> "deny"],
   [approve |-> "deny", pro |-> "allow", quota |-> "allow"],
   [manage |-> "allow"]}

Fickle == {"one"} \X {"manage", "quota"}

Symmetry == Permutations(Ops) \union Permutations(Requests)
================================================================================
