---------------------------- MODULE ApprovalPromise ----------------------------
(***************************************************************************)
(* What the approval of invoices promises: an invoice is decided once, in  *)
(* one step that also charges the quota (unless a person must review it)   *)
(* and fixes the answer of the idempotency key that caused it.             *)
(***************************************************************************)
EXTENDS Naturals

CONSTANTS Invoices, Keys, Low, Nothing

VARIABLES
  outcome,   \* what was decided of each invoice
  answer,    \* the invoice each key has decided, Nothing if none
  charged    \* units of quota consumed

vars == <<outcome, answer, charged>>

Init ==
  /\ outcome = [i \in Invoices |-> "pending"]
  /\ answer = [k \in Keys |-> Nothing]
  /\ charged = 0

Approve(i) ==
  /\ i \notin Low
  /\ outcome' = [outcome EXCEPT ![i] = "approved"]
  /\ charged' = charged + 1

SendToReview(i) ==
  /\ i \in Low
  /\ outcome' = [outcome EXCEPT ![i] = "manual_review"]
  /\ UNCHANGED charged

Decide(i, k) ==
  /\ outcome[i] = "pending"
  /\ answer[k] = Nothing
  /\ answer' = [answer EXCEPT ![k] = i]
  /\ Approve(i) \/ SendToReview(i)

Next == \E i \in Invoices, k \in Keys : Decide(i, k)

Spec == Init /\ [][Next]_vars
================================================================================
