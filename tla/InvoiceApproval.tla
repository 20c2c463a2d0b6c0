---------------------------- MODULE InvoiceApproval ----------------------------
(***************************************************************************)
(* POST .../invoices/:id/approve.  The middleware authorizes the request   *)
(* with reads of its own; the handler then does everything in one          *)
(* transaction: look the idempotency key up, check the invoice, consume    *)
(* quota, move the invoice, write the audit row, save the answer.  Clients *)
(* repeat requests, use a key for something else, and race each other;     *)
(* grants that pay may be revoked in between.                              *)
(*                                                                         *)
(* The operation ids of the quota engine are the scoped idempotency keys,  *)
(* which name their actor.                                                 *)
(***************************************************************************)
EXTENDS QuotaTables

CONSTANTS
  Invoices,  \* invoice ids, all of the organization that owns the quota
  Low,       \* those of an amount that asks for a manual review
  Approver,  \* approver_id of each invoice
  Nobody,    \* approver_id IS NULL
  ActorOf,   \* the actor in each scoped key
  Members,   \* actors that are members of the organization
  Handlers,  \* concurrent requests
  Versions,  \* versions a client may send
  Bundles,   \* what a grant may hold of the key
  Idle,      \* no request
  NoRecord   \* no idempotency record

Actors == {ActorOf[k] : k \in Ops}

ASSUME ApprovalAssumption ==
  /\ IsFiniteSet(Invoices) /\ Low \subseteq Invoices
  /\ Approver \in [Invoices -> Actors \union {Nobody}] /\ Nobody \notin Actors
  /\ Members \subseteq Actors
  /\ Versions \subseteq Nat
  /\ Bundles \subseteq [plan : Nat, explicit : Nat, deny : BOOLEAN]

VARIABLES
  invoice,   \* status and version of each row of invoices
  record,    \* idempotency_records: the request's hash and the response
  audit,     \* how many rows of audit_events each invoice has
  db,        \* the quota tables
  request,   \* what each running request asks, and the grants of its decision
  answers    \* history: the 200 answers of each key, with the question

approvalVars == <<invoice, record, audit, db, request, answers>>

\* request_hash: besides the key, it covers the invoice and the version.
Hashes == [invoice : Invoices, version : Versions]
Responses == [invoice : Invoices, status : {"approved", "manual_review"}, version : Nat]

Answers == [hash : Hashes, response : Responses]

ASSUME RecordAssumption == NoRecord \notin Answers

Requests == [key : Ops, hash : Hashes, grants : SUBSET Grants]

RowsTypeOK ==
  /\ invoice \in [Invoices -> [status : {"pending", "approved", "manual_review"}, version : Nat]]
  /\ record \in [Ops -> Answers \union {NoRecord}]
  /\ audit \in [Invoices -> Nat]
  /\ request \in [Handlers -> Requests \union {Idle}]
  /\ answers \in [Ops -> SUBSET Answers]

ApprovalTypeOK == RowsTypeOK /\ db \in Tables

ApprovalInit ==
  /\ invoice = [i \in Invoices |-> [status |-> "pending", version |-> 1]]
  /\ record = [k \in Ops |-> NoRecord]
  /\ audit = [i \in Invoices |-> 0]
  /\ db = EmptyTables
  /\ request = [r \in Handlers |-> Idle]
  /\ answers = [k \in Ops |-> {}]

-----------------------------------------------------------------------------
(* The middleware. *)

\* The catalog's requirement: one unit of quota, also where a review follows.
\* A member's request relies on the organization, a stranger's on its grants.
Payable(key, grants) ==
  IF ActorOf[key] \in Members THEN grants = {} /\ QuotaAvailable(db, 1)
  ELSE /\ grants # {}
       /\ \A g \in grants : db.grant[g] = "active"
       /\ ExternalQuota(db, grants, 1)

Authorize(r, key, hash, grants) ==
  /\ request[r] = Idle
  /\ Payable(key, grants)
  /\ request' = [request EXCEPT ![r] = [key |-> key, hash |-> hash, grants |-> grants]]
  /\ UNCHANGED <<invoice, record, audit, db, answers>>

-----------------------------------------------------------------------------
(* The handler's transaction. *)

Answer(r, response) ==
  LET q == request[r]
  IN /\ answers' = [answers EXCEPT ![q.key] = @ \union {[hash |-> q.hash, response |-> response]}]
     /\ request' = [request EXCEPT ![r] = Idle]

\* Mutant of Recorded: the stored hash is not compared.
RecordedAnyHash(q) == record[q.key] # NoRecord

\* Replay finds the key, and the request is the one it was used for.
Recorded(q) == record[q.key] # NoRecord /\ record[q.key].hash = q.hash

Replay(r) ==
  /\ request[r] # Idle
  /\ Recorded(request[r])
  /\ Answer(r, record[request[r].key].response)
  /\ UNCHANGED <<invoice, record, audit, db>>

\* invoice.CanApprove
CanApprove(actor, i) ==
  /\ invoice[i].status = "pending"
  /\ Approver[i] \in {Nobody, actor}

\* Mutant of Transition: the client's version is not compared.
TransitionAnyVersion(hash, status) ==
  /\ invoice[hash.invoice].status = "pending"
  /\ invoice' = [invoice EXCEPT ![hash.invoice] = [status |-> status, version |-> @.version + 1]]

\* The UPDATE of Store.transition, which must change one row.
Transition(hash, status) ==
  /\ invoice[hash.invoice] = [status |-> "pending", version |-> hash.version]
  /\ invoice' = [invoice EXCEPT ![hash.invoice] = [status |-> status, version |-> @.version + 1]]

\* What both strategies do: no record of the key yet, an invoice that can be
\* approved; then it moves, and the audit row and the answer are saved.
Decide(r, status) ==
  LET q == request[r]
      response == [invoice |-> q.hash.invoice, status |-> status, version |-> q.hash.version + 1]
  IN /\ q # Idle
     /\ record[q.key] = NoRecord
     /\ CanApprove(ActorOf[q.key], q.hash.invoice)
     /\ Transition(q.hash, status)
     /\ audit' = [audit EXCEPT ![q.hash.invoice] = @ + 1]
     /\ record' = [record EXCEPT ![q.key] = [hash |-> q.hash, response |-> response]]
     /\ Answer(r, response)

\* Mutant of ManualReview: quota is consumed before the strategy is looked at.
ManualReviewCharged(r) ==
  /\ Decide(r, "manual_review")
  /\ request[r].hash.invoice \in Low
  /\ db' \in ConsumeQuotas(db, request[r].key, request[r].grants, 1)

ManualReview(r) ==
  /\ Decide(r, "manual_review")
  /\ request[r].hash.invoice \in Low
  /\ UNCHANGED db

\* Mutant of Approve: the obligation to have it reviewed is not honoured.
ApproveAnyAmount(r) ==
  /\ Decide(r, "approved")
  /\ db' \in ConsumeQuotas(db, request[r].key, request[r].grants, 1)

Approve(r) ==
  /\ Decide(r, "approved")
  /\ request[r].hash.invoice \notin Low
  /\ db' \in ConsumeQuotas(db, request[r].key, request[r].grants, 1)

\* Any error rolls back: another request's record, a decided invoice, another
\* approver, an old version, no quota left; so does the death of the process.
RollBack(r) ==
  /\ request[r] # Idle
  /\ request' = [request EXCEPT ![r] = Idle]
  /\ UNCHANGED <<invoice, record, audit, db, answers>>

-----------------------------------------------------------------------------
(* The organization's managers. *)

CreateGrant(g) ==
  /\ \E bundle \in Bundles : db' \in CreateExternalGrant(db, g, bundle)
  /\ UNCHANGED <<invoice, record, audit, request, answers>>

RevokeGrant(g) ==
  /\ db' \in RevokeExternalGrant(db, g)
  /\ UNCHANGED <<invoice, record, audit, request, answers>>

ApprovalNext ==
  \/ \E r \in Handlers :
       \/ \E key \in Ops, hash \in Hashes, grants \in SUBSET Grants : Authorize(r, key, hash, grants)
       \/ Replay(r)
       \/ ManualReview(r)
       \/ Approve(r)
       \/ RollBack(r)
  \/ \E g \in Grants : CreateGrant(g) \/ RevokeGrant(g)

ApprovalSpec == ApprovalInit /\ [][ApprovalNext]_approvalVars

-----------------------------------------------------------------------------
(* What must hold. *)

\* The effects of a decision come together and once, however often its request
\* is sent: the invoice moved, one audit row, one idempotency record, and a
\* unit of the organization's quota used if and only if it was approved.
EffectsTogether ==
  /\ \A i \in Invoices :
       LET effects == IF invoice[i].status = "pending" THEN 0 ELSE 1
       IN /\ audit[i] = effects
          /\ Cardinality({k \in Ops : record[k] # NoRecord /\ record[k].response.invoice = i}) = effects
  /\ Total(db.used, Entitlements) = Cardinality({i \in Invoices : invoice[i].status = "approved"})

\* A 200 answer, first or replayed or saved for a replay, is about the invoice
\* and the version asked for, and stays true: the row is as the answer shows it.
StillTrue(a) ==
  /\ a.response.invoice = a.hash.invoice
  /\ a.response.version = a.hash.version + 1
  /\ invoice[a.response.invoice] = [status |-> a.response.status, version |-> a.response.version]

AnswersTrue ==
  /\ \A k \in Ops : \A a \in answers[k] : StillTrue(a)
  /\ \A k \in Ops : record[k] # NoRecord => StillTrue(record[k])

\* The approval as one event (ApprovalPromise): a decided invoice is never
\* decided again, and one below the limit is never approved without a review.
AtomicApproval ==
  INSTANCE ApprovalPromise WITH
    Keys <- Ops, Nothing <- NoRecord,
    outcome <- [i \in Invoices |-> invoice[i].status],
    answer <- [k \in Ops |-> IF record[k] = NoRecord THEN NoRecord ELSE record[k].response.invoice],
    charged <- Total(db.used, Entitlements)

ApprovalIsAtomic == AtomicApproval!Spec

================================================================================
