--------------------------- MODULE MCInvoiceApproval ---------------------------
(* A small instance of InvoiceApproval for TLC: an invoice for anybody, one with *)
(* an approver, and one below the limit; a member and a stranger.               *)
EXTENDS InvoiceApproval, TLC

CONSTANTS unassigned, assigned, small, member, stranger, k1, k2, k3

OneRow == 1 :> 2
Only == 1 :> 1
OneUnit == {[plan |-> 0, explicit |-> 1, deny |-> FALSE]}
Assigned == unassigned :> Nobody @@ assigned :> stranger @@ small :> Nobody
Scoped == k1 :> member @@ k2 :> stranger @@ k3 :> stranger

Symmetry == Permutations(Handlers)
================================================================================
