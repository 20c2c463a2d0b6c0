---------------------------- MODULE MCAuthorization ----------------------------
(* A small instance of Authorization for TLC: two invoices, two grants out of  *)
(* six bundles that differ in target, effect, validity and items.              *)
EXTENDS Authorization, TLC

Symmetry == Permutations(Grants)

OnceTwice == [o \in Organizations |-> IF o = "partner" THEN 2 ELSE 1]

Plain ==
  [operation |-> "approve", effect |-> "allow", invoice |-> "any", target |-> "global_user",
   from |-> 0, until |-> 2, permission |-> "allow", role |-> "none",
   feature |-> {"allow"}, quota |-> {"allow"}]

SmallBundles ==
  {Plain,
   [Plain EXCEPT !.target = "organization", !.permission = "none", !.role = "allow", !.until = 1],
   [Plain EXCEPT !.target = "organization_member", !.invoice = "wanted"],
   [Plain EXCEPT !.effect = "deny", !.feature = {}, !.quota = {}, !.permission = "none"],
   [Plain EXCEPT !.from = 1, !.permission = "none", !.feature = {"allow", "deny"}, !.quota = {}],
   [Plain EXCEPT !.operation = "manage", !.permission = "none", !.role = "allow"]}
================================================================================
