---------------------- MODULE AcceptanceAndApprovalProofs ----------------------
(***************************************************************************)
(* The two components that implement a promise, whatever their constants.  *)
(*                                                                         *)
(* InvoiceApproval.  Answers stay true, the effects of an approval come    *)
(* together, and the approval implements the one event of ApprovalPromise, *)
(* for any invoices, keys, requests and grants, and whoever pays.          *)
(*                                                                         *)
(* InvitationAcceptance.  For every set of invitations, pairs, role        *)
(* bundles, requests and claim ids, every lease and every bound: its       *)
(* safety invariants hold in every reachable state, and it implements      *)
(* AcceptancePromise.                                                      *)
(***************************************************************************)
EXTENDS InvoiceApproval, InvitationAcceptance, QuotaTablesProofs

-----------------------------------------------------------------------------
(* InvoiceApproval. *)

AnswersInv == RowsTypeOK /\ AnswersTrue

\* A decision adds an answer that is true, and falsifies none: nobody was ever
\* told anything about an invoice that is still pending.
LEMMA DecidePreserves ==
  ASSUME NEW r \in Handlers, NEW decision \in {"approved", "manual_review"},
         AnswersInv, Decide(r, decision)
  PROVE  AnswersInv'
<1>1. PICK q \in Requests : q = request[r]
  BY DEF Decide, AnswersInv, RowsTypeOK
<1> DEFINE i == q.hash.invoice
           response == [invoice |-> i, status |-> decision, version |-> q.hash.version + 1]
           new == [hash |-> q.hash, response |-> response]
<1>2. /\ q.key \in Ops /\ q.hash \in Hashes /\ i \in Invoices /\ q.hash.version \in Nat
  BY <1>1, ApprovalAssumption DEF Requests, Hashes
<1>3. new \in Answers
  BY <1>2 DEF Answers, Responses
<1>4. /\ invoice[i] = [status |-> "pending", version |-> q.hash.version]
      /\ invoice' = [invoice EXCEPT ![i] = [status |-> decision, version |-> @.version + 1]]
      /\ audit' = [audit EXCEPT ![i] = @ + 1]
      /\ record' = [record EXCEPT ![q.key] = new]
      /\ answers' = [answers EXCEPT ![q.key] = @ \union {new}]
      /\ request' = [request EXCEPT ![r] = Idle]
  BY <1>1 DEF Decide, Transition, Answer
<1>5. RowsTypeOK'
  BY <1>2, <1>3, <1>4 DEF AnswersInv, RowsTypeOK
<1>6. invoice'[i] = [status |-> decision, version |-> q.hash.version + 1]
  BY <1>2, <1>4 DEF AnswersInv, RowsTypeOK
<1>7. StillTrue(new)'
  BY <1>6 DEF StillTrue
<1>8. ASSUME NEW a \in Answers, StillTrue(a)
      PROVE  StillTrue(a)'
  <2>1. a.response.status # "pending"
    BY DEF Answers, Responses
  <2>2. a.response.invoice # i
    BY <1>4, <1>8, <2>1 DEF StillTrue
  <2>3. invoice'[a.response.invoice] = invoice[a.response.invoice]
    BY <1>4, <2>2 DEF AnswersInv, RowsTypeOK, Answers, Responses
  <2> QED BY <1>8, <2>3 DEF StillTrue
<1>9. ASSUME NEW k \in Ops, NEW a \in answers'[k]
      PROVE  StillTrue(a)'
  <2>1. a = new \/ a \in answers[k]
    BY <1>4, <1>9 DEF AnswersInv, RowsTypeOK
  <2> QED BY <1>7, <1>8, <2>1 DEF AnswersInv, AnswersTrue, RowsTypeOK
<1>10. ASSUME NEW k \in Ops, record'[k] # NoRecord
       PROVE  StillTrue(record[k])'
  <2>1. CASE k = q.key
    BY <1>2, <1>4, <1>7, <2>1 DEF AnswersInv, RowsTypeOK
  <2>2. CASE k # q.key
    <3>1. record'[k] = record[k]
      BY <1>4, <2>2 DEF AnswersInv, RowsTypeOK
    <3>2. record[k] \in Answers /\ StillTrue(record[k])
      BY <1>10, <3>1 DEF AnswersInv, RowsTypeOK, AnswersTrue
    <3> QED BY <1>8, <3>1, <3>2
  <2> QED BY <2>1, <2>2
<1> QED BY <1>5, <1>9, <1>10 DEF AnswersInv, AnswersTrue

\* A replay repeats what was saved for the same question.
LEMMA ReplayPreserves ==
  ASSUME NEW r \in Handlers, AnswersInv, Replay(r)
  PROVE  AnswersInv'
<1> DEFINE q == request[r]
           saved == record[q.key]
<1>1. q \in Requests /\ q.key \in Ops
  BY DEF Replay, AnswersInv, RowsTypeOK, Requests
<1>2. saved \in Answers /\ saved.hash = q.hash /\ StillTrue(saved)
  BY <1>1 DEF Replay, Recorded, AnswersInv, RowsTypeOK, AnswersTrue
<1>3. saved = [hash |-> q.hash, response |-> saved.response]
  BY <1>2 DEF Answers
<1>4. /\ answers' = [answers EXCEPT ![q.key] = @ \union {saved}]
      /\ request' = [request EXCEPT ![r] = Idle]
      /\ UNCHANGED <<invoice, record, audit>>
  BY <1>3 DEF Replay, Answer
<1>5. RowsTypeOK'
  BY <1>1, <1>2, <1>4 DEF AnswersInv, RowsTypeOK
<1>6. \A a : StillTrue(a)' <=> StillTrue(a)
  BY <1>4 DEF StillTrue
<1>7. ASSUME NEW k \in Ops, NEW a \in answers'[k]
      PROVE  StillTrue(a)
  BY <1>2, <1>4, <1>7 DEF AnswersInv, RowsTypeOK, AnswersTrue
<1> QED BY <1>4, <1>5, <1>6, <1>7 DEF AnswersInv, AnswersTrue

\* The rest writes no row of invoices, records or answers.
LEMMA OtherPreserves ==
  ASSUME AnswersInv, UNCHANGED <<invoice, record, audit, answers>>,
         request' \in [Handlers -> Requests \union {Idle}]
  PROVE  AnswersInv'
BY DEF AnswersInv, RowsTypeOK, AnswersTrue, StillTrue

LEMMA InitAnswers == ApprovalInit => AnswersInv
BY DEF ApprovalInit, AnswersInv, RowsTypeOK, AnswersTrue

LEMMA NextAnswers == AnswersInv /\ [ApprovalNext]_approvalVars => AnswersInv'
<1> SUFFICES ASSUME AnswersInv, [ApprovalNext]_approvalVars PROVE AnswersInv'
  OBVIOUS
<1> USE DEF AnswersInv
<1>1. ASSUME NEW r \in Handlers, NEW key \in Ops, NEW hash \in Hashes, NEW grants \in SUBSET Grants,
             Authorize(r, key, hash, grants)
      PROVE  AnswersInv'
  BY <1>1, OtherPreserves DEF Authorize, RowsTypeOK, Requests
<1>2. ASSUME NEW r \in Handlers, Replay(r) PROVE AnswersInv'
  BY <1>2, ReplayPreserves
<1>3. ASSUME NEW r \in Handlers, ManualReview(r) PROVE AnswersInv'
  BY <1>3, DecidePreserves DEF ManualReview
<1>4. ASSUME NEW r \in Handlers, Approve(r) PROVE AnswersInv'
  BY <1>4, DecidePreserves DEF Approve
<1>5. ASSUME NEW r \in Handlers, RollBack(r) PROVE AnswersInv'
  BY <1>5, OtherPreserves DEF RollBack, RowsTypeOK
<1>6. ASSUME NEW g \in Grants, CreateGrant(g) \/ RevokeGrant(g) PROVE AnswersInv'
  BY <1>6, OtherPreserves DEF CreateGrant, RevokeGrant, RowsTypeOK
<1>7. CASE UNCHANGED approvalVars
  BY <1>7, OtherPreserves DEF approvalVars, RowsTypeOK
<1> QED BY <1>1, <1>2, <1>3, <1>4, <1>5, <1>6, <1>7 DEF ApprovalNext

\* Every answer ever given, and every one saved for a replay, is true for ever
\* (Handler.Approve, Store.Replay, Store.SaveReplay).
THEOREM AnswersStayTrue == ApprovalSpec => []AnswersTrue
<1>1. AnswersInv => AnswersTrue
  BY DEF AnswersInv
<1> QED BY InitAnswers, NextAnswers, <1>1, PTL DEF ApprovalSpec

-----------------------------------------------------------------------------
(* The effects. *)

DecidedBy(i) == {k \in Ops : record[k] # NoRecord /\ record[k].response.invoice = i}
Approved == {i \in Invoices : invoice[i].status = "approved"}

\* A pending invoice has left no trace; a decided one, one of each.
OneOfEach ==
  \A i \in Invoices :
    LET effects == IF invoice[i].status = "pending" THEN 0 ELSE 1
    IN audit[i] = effects /\ Cardinality(DecidedBy(i)) = effects

Charged == AtRest(db) /\ Total(db.used, Entitlements) = Cardinality(Approved)

EffectsInv == AnswersInv /\ OneOfEach /\ Charged

\* A decision of an invoice by a request, as rows.
LEMMA DecideRows ==
  ASSUME NEW r \in Handlers, NEW decision \in {"approved", "manual_review"}, AnswersInv, Decide(r, decision)
  PROVE  \E key \in Ops, i \in Invoices, new \in Answers :
           /\ key = request[r].key /\ i = request[r].hash.invoice /\ new.response.invoice = i
           /\ record[key] = NoRecord /\ record' = [record EXCEPT ![key] = new]
           /\ invoice[i].status = "pending"
           /\ \E version \in Nat : invoice' = [invoice EXCEPT ![i] = [status |-> decision, version |-> version]]
           /\ audit' = [audit EXCEPT ![i] = @ + 1]
<1>1. PICK q \in Requests : q = request[r]
  BY DEF Decide, AnswersInv, RowsTypeOK
<1> DEFINE i == q.hash.invoice
           response == [invoice |-> i, status |-> decision, version |-> q.hash.version + 1]
           new == [hash |-> q.hash, response |-> response]
<1>2. q.key \in Ops /\ q.hash \in Hashes /\ i \in Invoices /\ q.hash.version \in Nat
  BY <1>1, ApprovalAssumption DEF Requests, Hashes
<1>3. new \in Answers /\ new.response.invoice = i
  BY <1>2 DEF Answers, Responses
<1>4. /\ record[q.key] = NoRecord /\ record' = [record EXCEPT ![q.key] = new]
      /\ invoice[i].status = "pending"
      /\ invoice' = [invoice EXCEPT ![i] = [status |-> decision, version |-> @.version + 1]]
      /\ audit' = [audit EXCEPT ![i] = @ + 1]
  BY <1>1 DEF Decide, CanApprove, Transition, Answer
<1>5. invoice[i].version + 1 \in Nat
  BY <1>2 DEF AnswersInv, RowsTypeOK
<1> HIDE DEF new
<1> QED
  BY <1>1, <1>2, <1>3, <1>4, <1>5

LEMMA DecideEffects ==
  ASSUME NEW r \in Handlers, NEW decision \in {"approved", "manual_review"},
         AnswersInv, OneOfEach, Decide(r, decision)
  PROVE  /\ OneOfEach'
         /\ IF decision = "approved" THEN Cardinality(Approved') = Cardinality(Approved) + 1
                                   ELSE Approved' = Approved
<1>1. PICK key \in Ops, i \in Invoices, new \in Answers :
           /\ key = request[r].key /\ i = request[r].hash.invoice /\ new.response.invoice = i
           /\ record[key] = NoRecord /\ record' = [record EXCEPT ![key] = new]
           /\ invoice[i].status = "pending"
           /\ \E version \in Nat : invoice' = [invoice EXCEPT ![i] = [status |-> decision, version |-> version]]
           /\ audit' = [audit EXCEPT ![i] = @ + 1]
  BY DecideRows
<1>2. PICK version \in Nat : invoice' = [invoice EXCEPT ![i] = [status |-> decision, version |-> version]]
  BY <1>1
<1>3. /\ invoice \in [Invoices -> [status : {"pending", "approved", "manual_review"}, version : Nat]]
      /\ record \in [Ops -> Answers \union {NoRecord}]
      /\ audit \in [Invoices -> Nat]
  BY DEF AnswersInv, RowsTypeOK
<1>4. invoice'[i].status = decision /\ \A j \in Invoices : j # i => invoice'[j] = invoice[j]
  BY <1>2, <1>3
<1>5. new # NoRecord
  BY RecordAssumption
<1>6. DecidedBy(i) = {}
  <2>1. IsFiniteSet(DecidedBy(i))
    BY TablesAssumption, FS_Subset DEF DecidedBy
  <2>2. Cardinality(DecidedBy(i)) = 0
    BY <1>1 DEF OneOfEach
  <2> QED
    BY <2>1, <2>2, FS_EmptySet
<1>7. DecidedBy(i)' = {key}
  BY <1>1, <1>3, <1>5, <1>6 DEF DecidedBy
<1>8. \A j \in Invoices : j # i => DecidedBy(j)' = DecidedBy(j)
  BY <1>1, <1>3 DEF DecidedBy
<1>9. ASSUME NEW j \in Invoices
      PROVE  LET effects == IF invoice'[j].status = "pending" THEN 0 ELSE 1
             IN audit'[j] = effects /\ Cardinality(DecidedBy(j)') = effects
  <2>1. CASE j = i
    <3>1. audit[i] = 0 /\ audit'[i] = audit[i] + 1
      BY <1>1, <1>3 DEF OneOfEach
    <3>2. Cardinality({key}) = 1
      BY FS_Singleton
    <3> QED
      BY <1>4, <1>7, <2>1, <3>1, <3>2
  <2>2. CASE j # i
    <3>1. audit'[j] = audit[j]
      BY <1>1, <1>3, <2>2
    <3>2. DecidedBy(j)' = DecidedBy(j)
      BY <1>8, <2>2
    <3>3. Cardinality(DecidedBy(j)') = Cardinality(DecidedBy(j))
      BY <3>2, Zenon
    <3> QED
      BY <1>4, <2>2, <3>1, <3>3 DEF OneOfEach
  <2> QED
    BY <2>1, <2>2
<1>10. OneOfEach'
  BY <1>9 DEF OneOfEach
<1>11. CASE decision = "approved"
  <2>1. Approved' = Approved \union {i} /\ i \notin Approved
    BY <1>1, <1>4, <1>11 DEF Approved
  <2>2. IsFiniteSet(Approved)
    BY ApprovalAssumption, FS_Subset DEF Approved
  <2>3. Cardinality(Approved') = Cardinality(Approved) + 1
    BY <2>1, <2>2, FS_AddElement
  <2> QED
    BY <1>10, <1>11, <2>3
<1>12. CASE decision = "manual_review"
  BY <1>1, <1>4, <1>10, <1>12 DEF Approved
<1> QED
  BY <1>11, <1>12

\* An approval uses one unit, whoever pays; a manual review none.
LEMMA ApproveCharges ==
  ASSUME NEW r \in Handlers, EffectsInv, Approve(r)
  PROVE  AtRest(db)' /\ Total(db'.used, Entitlements) = Total(db.used, Entitlements) + 1
<1>1. PICK q \in Requests : q = request[r]
  BY DEF Approve, Decide, EffectsInv, AnswersInv, RowsTypeOK
<1>2. q.key \in Ops /\ q.grants \in SUBSET Grants /\ 1 \in Nat
  BY DEF Requests
<1>3. db' \in ConsumeQuotas(db, q.key, q.grants, 1)
  BY <1>1 DEF Approve
<1>4. AtRest(db)
  BY DEF EffectsInv, Charged
<1> QED
  BY <1>2, <1>3, <1>4, ConsumeTotal

LEMMA ApproveEffects ==
  ASSUME NEW r \in Handlers, EffectsInv, Approve(r)
  PROVE  EffectsInv'
<1>1. AnswersInv'
  BY DecidePreserves DEF EffectsInv, Approve
<1>2. OneOfEach' /\ Cardinality(Approved') = Cardinality(Approved) + 1
  BY DecideEffects DEF EffectsInv, Approve
<1>3. AtRest(db)' /\ Total(db'.used, Entitlements) = Total(db.used, Entitlements) + 1
  BY ApproveCharges
<1> QED
  BY <1>1, <1>2, <1>3 DEF EffectsInv, Charged

LEMMA ReviewEffects ==
  ASSUME NEW r \in Handlers, EffectsInv, ManualReview(r)
  PROVE  EffectsInv'
<1>1. AnswersInv'
  BY DecidePreserves DEF EffectsInv, ManualReview
<1>2. OneOfEach' /\ Approved' = Approved
  BY DecideEffects DEF EffectsInv, ManualReview
<1>3. Cardinality(Approved)' = Cardinality(Approved)
  BY <1>2, Zenon
<1> QED
  BY <1>1, <1>2, <1>3 DEF EffectsInv, Charged, ManualReview

\* The rest decides nothing and uses nothing.
Quiet == UNCHANGED <<invoice, record, audit>> /\ db'.used = db.used /\ AtRest(db)'

LEMMA QuietEffects ==
  ASSUME EffectsInv, AnswersInv', Quiet
  PROVE  EffectsInv'
<1>1. OneOfEach'
  BY DEF EffectsInv, Quiet, OneOfEach, DecidedBy
<1>2. Approved' = Approved
  BY DEF Quiet, Approved
<1>3. Cardinality(Approved)' = Cardinality(Approved)
  BY <1>2, Zenon
<1> QED
  BY <1>1, <1>3 DEF EffectsInv, Charged, Quiet

LEMMA NextQuiet ==
  ASSUME EffectsInv, [ApprovalNext]_approvalVars, \A r \in Handlers : ~Approve(r) /\ ~ManualReview(r)
  PROVE  Quiet
<1>1. AtRest(db)
  BY DEF EffectsInv, Charged
<1>2. ASSUME NEW g \in Grants, CreateGrant(g) PROVE Quiet
  <2>1. PICK bundle \in Bundles : db' \in CreateExternalGrant(db, g, bundle)
    BY <1>2 DEF CreateGrant
  <2>2. bundle \in [plan : Nat, explicit : Nat, deny : BOOLEAN]
    BY ApprovalAssumption
  <2>3. AtRest(db)' /\ db'.used = db.used
    BY <1>1, <2>1, <2>2, CreateAtRest
  <2> QED
    BY <1>2, <2>3 DEF CreateGrant, Quiet
<1>3. ASSUME NEW g \in Grants, RevokeGrant(g) PROVE Quiet
  <2>1. AtRest(db)' /\ db'.used = db.used
    BY <1>1, <1>3, RevokeAtRest DEF RevokeGrant
  <2> QED
    BY <1>3, <2>1 DEF RevokeGrant, Quiet
<1>4. ASSUME UNCHANGED <<invoice, record, audit, db>> PROVE Quiet
  BY <1>1, <1>4 DEF Quiet
<1>5. ASSUME NEW r \in Handlers, NEW key, NEW hash, NEW grants,
             Authorize(r, key, hash, grants) \/ Replay(r) \/ RollBack(r)
      PROVE  Quiet
  BY <1>4, <1>5 DEF Authorize, Replay, RollBack
<1>6. CASE UNCHANGED approvalVars
  BY <1>4, <1>6 DEF approvalVars
<1> QED
  BY <1>2, <1>3, <1>5, <1>6 DEF ApprovalNext

LEMMA InitEffects == ApprovalInit => EffectsInv
<1> SUFFICES ASSUME ApprovalInit PROVE EffectsInv
  OBVIOUS
<1>1. \A i \in Invoices : DecidedBy(i) = {}
  BY DEF ApprovalInit, DecidedBy
<1>2. OneOfEach
  <2>1. \A i \in Invoices : Cardinality(DecidedBy(i)) = 0
    BY <1>1, FS_EmptySet
  <2> QED
    BY <2>1 DEF ApprovalInit, OneOfEach
<1>3. Approved = {}
  BY DEF ApprovalInit, Approved
<1>4. Charged
  BY <1>3, EmptyAtRest, FS_EmptySet DEF ApprovalInit, Charged
<1> QED
  BY <1>2, <1>4, InitAnswers DEF EffectsInv

LEMMA NextEffects == EffectsInv /\ [ApprovalNext]_approvalVars => EffectsInv'
<1> SUFFICES ASSUME EffectsInv, [ApprovalNext]_approvalVars PROVE EffectsInv'
  OBVIOUS
<1>1. AnswersInv'
  BY NextAnswers DEF EffectsInv
<1>2. CASE \E r \in Handlers : Approve(r) \/ ManualReview(r)
  BY <1>2, ApproveEffects, ReviewEffects
<1>3. CASE \A r \in Handlers : ~Approve(r) /\ ~ManualReview(r)
  BY <1>1, <1>3, NextQuiet, QuietEffects
<1> QED
  BY <1>2, <1>3

LEMMA EffectsInvariant == ApprovalSpec => []EffectsInv
BY InitEffects, NextEffects, PTL DEF ApprovalSpec

\* Every row, request and quota table of the approval keeps its type (invoice, audit,
\* idempotency and quota tables).
THEOREM TypesHold == ApprovalSpec => []ApprovalTypeOK
<1>1. EffectsInv => ApprovalTypeOK
  BY DEF EffectsInv, AnswersInv, Charged, AtRest, ApprovalTypeOK
<1> QED BY <1>1, EffectsInvariant, PTL

\* The invoice, the audit row, the idempotency record and the unit of quota come
\* together and once (Handler.Approve and all that it calls in its transaction).
THEOREM EffectsComeTogether == ApprovalSpec => []EffectsTogether
<1>1. EffectsInv => EffectsTogether
  BY DEF EffectsInv, OneOfEach, Charged, DecidedBy, Approved, EffectsTogether
<1> QED BY <1>1, EffectsInvariant, PTL

-----------------------------------------------------------------------------
(* The refinement. *)

AnswerOf(k) == IF record[k] = NoRecord THEN NoRecord ELSE record[k].response.invoice

\* A decision is the abstract event, with the charge that goes with it.
LEMMA DecideRefines ==
  ASSUME NEW r \in Handlers, NEW decision \in {"approved", "manual_review"}, EffectsInv, Decide(r, decision),
         NEW charge,
         decision = "approved" => request[r].hash.invoice \notin Low /\ charge = 1,
         decision = "manual_review" => request[r].hash.invoice \in Low /\ charge = 0,
         Total(db'.used, Entitlements) = Total(db.used, Entitlements) + charge
  PROVE  AtomicApproval!Next
<1>1. PICK key \in Ops, i \in Invoices, new \in Answers :
           /\ key = request[r].key /\ i = request[r].hash.invoice /\ new.response.invoice = i
           /\ record[key] = NoRecord /\ record' = [record EXCEPT ![key] = new]
           /\ invoice[i].status = "pending"
           /\ \E version \in Nat : invoice' = [invoice EXCEPT ![i] = [status |-> decision, version |-> version]]
           /\ audit' = [audit EXCEPT ![i] = @ + 1]
  BY DecideRows DEF EffectsInv
<1>2. /\ invoice \in [Invoices -> [status : {"pending", "approved", "manual_review"}, version : Nat]]
      /\ record \in [Ops -> Answers \union {NoRecord}]
  BY DEF EffectsInv, AnswersInv, RowsTypeOK
<1>3. new # NoRecord
  BY RecordAssumption
<1>4. [j \in Invoices |-> invoice'[j].status] = [[j \in Invoices |-> invoice[j].status] EXCEPT ![i] = decision]
  <2>1. PICK version \in Nat : invoice' = [invoice EXCEPT ![i] = [status |-> decision, version |-> version]]
    BY <1>1
  <2>2. ASSUME NEW j \in Invoices
        PROVE  invoice'[j].status = IF j = i THEN decision ELSE invoice[j].status
    BY <1>2, <2>1
  <2> QED
    BY <2>2
<1>5. [k \in Ops |-> IF record'[k] = NoRecord THEN NoRecord ELSE record'[k].response.invoice]
        = [[k \in Ops |-> IF record[k] = NoRecord THEN NoRecord ELSE record[k].response.invoice] EXCEPT ![key] = i]
  <2>1. ASSUME NEW k \in Ops
        PROVE  (IF record'[k] = NoRecord THEN NoRecord ELSE record'[k].response.invoice)
                 = IF k = key THEN i ELSE IF record[k] = NoRecord THEN NoRecord ELSE record[k].response.invoice
    BY <1>1, <1>2, <1>3
  <2> QED
    BY <2>1
<1>6. AtomicApproval!Approve(i) \/ AtomicApproval!SendToReview(i)
  <2>1. Total(db.used, Entitlements) \in Int
    <3>1. \A e \in Entitlements : db.used[e] \in Int
      BY DEF EffectsInv, Charged, AtRest, Tables
    <3> QED
      BY <3>1, TablesAssumption, TotalInt
  <2>2. CASE decision = "approved"
    BY <1>1, <1>4, <2>2 DEF AtomicApproval!Approve
  <2>3. CASE decision = "manual_review"
    BY <1>1, <1>4, <2>1, <2>3 DEF AtomicApproval!SendToReview
  <2> QED
    BY <2>2, <2>3
<1>7. AtomicApproval!Decide(i, key)
  BY <1>1, <1>5, <1>6 DEF AtomicApproval!Decide
<1> QED
  BY <1>7 DEF AtomicApproval!Next

LEMMA QuietRefines ==
  ASSUME Quiet
  PROVE  UNCHANGED AtomicApproval!vars
BY DEF Quiet, AtomicApproval!vars

\* Replays, races for a key, old versions, reviews and revoked grants included,
\* the approval is the one atomic event of ApprovalPromise.
THEOREM ApprovalRefines == ApprovalSpec => ApprovalIsAtomic
<1>1. ApprovalInit => AtomicApproval!Init
  <2>1. ApprovalInit => Total(db.used, Entitlements) = 0
    BY EmptyAtRest DEF ApprovalInit
  <2> QED
    BY <2>1 DEF ApprovalInit, AtomicApproval!Init
<1>2. EffectsInv /\ [ApprovalNext]_approvalVars => [AtomicApproval!Next]_(AtomicApproval!vars)
  <2> SUFFICES ASSUME EffectsInv, [ApprovalNext]_approvalVars PROVE [AtomicApproval!Next]_(AtomicApproval!vars)
    OBVIOUS
  <2>1. ASSUME NEW r \in Handlers, Approve(r) PROVE AtomicApproval!Next
    <3>1. Total(db'.used, Entitlements) = Total(db.used, Entitlements) + 1
      BY <2>1, ApproveCharges
    <3>2. Decide(r, "approved") /\ request[r].hash.invoice \notin Low
      BY <2>1 DEF Approve
    <3> QED
      BY <3>1, <3>2, DecideRefines
  <2>2. ASSUME NEW r \in Handlers, ManualReview(r) PROVE AtomicApproval!Next
    <3>1. Total(db'.used, Entitlements) = Total(db.used, Entitlements) + 0
      <4>1. \A e \in Entitlements : db.used[e] \in Int
        BY DEF EffectsInv, Charged, AtRest, Tables
      <4>2. Total(db.used, Entitlements) \in Int /\ db' = db
        BY <2>2, <4>1, TablesAssumption, TotalInt DEF ManualReview
      <4> QED
        BY <4>2
    <3>2. Decide(r, "manual_review") /\ request[r].hash.invoice \in Low
      BY <2>2 DEF ManualReview
    <3> QED
      BY <3>1, <3>2, DecideRefines
  <2>3. CASE \A r \in Handlers : ~Approve(r) /\ ~ManualReview(r)
    BY <2>3, NextQuiet, QuietRefines
  <2> QED
    BY <2>1, <2>2, <2>3
<1> QED
  BY <1>1, <1>2, EffectsInvariant, PTL DEF ApprovalSpec, ApprovalIsAtomic, AtomicApproval!Spec

-----------------------------------------------------------------------------
(* InvitationAcceptance. *)

USE ConstantsAssumption

LEMMA AnyInvitationType == AnyInvitation \in Invitations
  BY DEF AnyInvitation

LEMMA InitInv == Init => IInv
<1> SUFFICES ASSUME Init PROVE IInv
  OBVIOUS
<1> USE AnyInvitationType DEF Init
<1>1. TypeOK
  BY DEF TypeOK, NoRow, Pc, Edge, AttemptCap
<1>2. \A i \in Invitations : ~HasRow(i) /\ member[i] = "absent" /\ status[i] = "none"
  BY DEF HasRow, NoRow
<1>3. \A w \in Workers : ~Working(w)
  BY DEF Working
<1>4. RequestState
  BY <1>3 DEF RequestState, Working
<1>5. ClaimsUnique /\ Ownership /\ FirstAttemptClean
  BY <1>2, <1>3 DEF ClaimsUnique, Ownership, FirstAttemptClean
<1>6. MemberMatchesStatus /\ OneCurrentMember /\ ClaimBacked /\ AcceptedHasRoles /\ StartedInWindow
  BY <1>2 DEF MemberMatchesStatus, OneCurrentMember, ClaimBacked, AcceptedHasRoles, StartedInWindow
<1>7. NoOrphanPolicies
  BY DEF NoOrphanPolicies
<1>8. SupersededOnlyAfterLease
  BY DEF SupersededOnlyAfterLease
<1> QED
  BY <1>1, <1>4, <1>5, <1>6, <1>7, <1>8 DEF IInv

LEMMA TypeStep == TypeOK /\ [Next]_vars => TypeOK'
<1> SUFFICES ASSUME TypeOK, [Next]_vars PROVE TypeOK'
  OBVIOUS
<1> USE AnyInvitationType DEF TypeOK, AttemptCap, Pc
<1>1. CASE UNCHANGED vars
  BY <1>1 DEF vars, database, casbin, handler, locals
<1>2. CASE Tick
  BY <1>2 DEF handler, locals, Tick, database, casbin
<1>3. ASSUME NEW i \in Invitations, Invite(i) \/ DeliverLate(i) PROVE TypeOK'
  <2>1. CASE Invite(i)
    BY <2>1 DEF handler, locals, Invite, casbin
  <2>2. CASE DeliverLate(i)
    BY <2>2 DEF handler, locals, DeliverLate, database
  <2> QED
    BY <1>3, <2>1, <2>2
<1>4. ASSUME NEW s \in Slots, Kick(s) \/ ApproveApplication(s) PROVE TypeOK'
  BY <1>4 DEF handler, locals, Kick, ApproveApplication, casbin
<1>5. ASSUME NEW w \in Workers, NEW i \in Invitations, BeginAccept(w, i) PROVE TypeOK'
  BY <1>5 DEF BeginAccept, database, casbin
<1>6. ASSUME NEW w \in Workers, Advance(w) PROVE TypeOK'
  <2>1. CASE ClaimAcceptance(w)
    BY <2>1 DEF ClaimAcceptance, HasRow, casbin
  <2>2. CASE ClaimRejected(w)
    BY <2>2 DEF ClaimRejected, Finish, database, casbin
  <2>3. CASE TakeSnapshot(w)
    BY <2>3 DEF TakeSnapshot, Required, Edge, database, casbin
  <2>4. CASE AddPolicy(w)
    BY <2>4 DEF AddPolicy, NextEdges, database
  <2>5. CASE VerifyRoles(w)
    BY <2>5 DEF VerifyRoles, Goto, locals, database, casbin
  <2>6. CASE VerifyFails(w)
    BY <2>6 DEF VerifyFails, Goto, locals, AfterSyncError, database, casbin
  <2>7. CASE CompleteAcceptance(w)
    BY <2>7 DEF CompleteAcceptance, Finish, NoRow, casbin
  <2>8. CASE CompleteFails(w)
    BY <2>8 DEF CompleteFails, Goto, locals, database, casbin
  <2>9. CASE ReleaseAcceptance(w)
    BY <2>9 DEF ReleaseAcceptance, Finish, casbin
  <2>10. CASE AbortAcceptance(w)
    BY <2>10 DEF AbortAcceptance, Finish, NoRow, casbin
  <2> QED
    BY <1>6, <2>1, <2>2, <2>3, <2>4, <2>5, <2>6, <2>7, <2>8, <2>9, <2>10 DEF Advance
<1>7. ASSUME NEW w \in Workers, Fault(w) PROVE TypeOK'
  <2>1. CASE SnapshotFails(w)
    BY <2>1 DEF SnapshotFails, Goto, locals, AfterSyncError, database, casbin
  <2>2. CASE AddPolicyFails(w)
    <3>1. PICK e \in NextEdges(todo[w]) :
            /\ sent' = [sent EXCEPT ![w] = @ \union {e}]
            /\ \/ policies' = [policies EXCEPT ![inv[w]] = @ \union {e}] /\ late' = late
               \/ late' = [late EXCEPT ![inv[w]] = @ \union {e}] /\ policies' = policies
               \/ policies' = policies /\ late' = late
      BY <2>2 DEF AddPolicyFails, casbin
    <3>2. e \in Edge /\ inv[w] \in Invitations
      BY DEF NextEdges
    <3>3. policies' \in [Invitations -> SUBSET Edge] /\ late' \in [Invitations -> SUBSET Edge]
      <4>1. CASE policies' = [policies EXCEPT ![inv[w]] = @ \union {e}] /\ late' = late
        BY <3>2, <4>1
      <4>2. CASE late' = [late EXCEPT ![inv[w]] = @ \union {e}] /\ policies' = policies
        BY <3>2, <4>2
      <4> QED
        BY <3>1, <4>1, <4>2
    <3>4. sent' \in [Workers -> SUBSET Edge]
      BY <3>1, <3>2
    <3> QED
      BY <2>2, <3>3, <3>4 DEF AddPolicyFails, database
  <2>3. CASE AddPolicyIgnored(w)
    BY <2>3 DEF AddPolicyIgnored, NextEdges, database, casbin
  <2>4. CASE ContextDone(w)
    BY <2>4 DEF ContextDone, Goto, locals, AfterSyncError, database, casbin
  <2>5. CASE Crash(w)
    BY <2>5 DEF Crash, Finish, database, casbin
  <2> QED
    BY <1>7, <2>1, <2>2, <2>3, <2>4, <2>5 DEF Fault
<1> QED
  BY <1>1, <1>2, <1>3, <1>4, <1>5, <1>6, <1>7 DEF Next

-----------------------------------------------------------------------------
(* Steps of one request that touch neither store. *)

OthersKeep(w) ==
  \A v \in Workers \ {w} :
    /\ pc'[v] = pc[v] /\ inv'[v] = inv[v] /\ at'[v] = at[v] /\ claim'[v] = claim[v]
    /\ recovery'[v] = recovery[v] /\ todo'[v] = todo[v] /\ sent'[v] = sent[v]

\* w works on, under the same claim.
WorksOn(w) ==
  /\ Working(w) /\ Working(w)'
  /\ inv'[w] = inv[w] /\ at'[w] = at[w] /\ claim'[w] = claim[w]
  /\ recovery'[w] = recovery[w] /\ sent[w] \subseteq sent'[w]

LEMMA LocalStep ==
  ASSUME IInv, TypeOK', RequestState', NEW w \in Workers, OthersKeep(w),
         now' = now, UNCHANGED database, UNCHANGED casbin,
         WorksOn(w) \/ ~Working(w)'
  PROVE  IInv'
<1>1. \A v \in Workers : Working(v)' =>
        /\ Working(v)
        /\ inv'[v] = inv[v] /\ at'[v] = at[v] /\ claim'[v] = claim[v]
        /\ recovery'[v] = recovery[v] /\ sent[v] \subseteq sent'[v]
  BY DEF OthersKeep, WorksOn, Working
<1>2. /\ status' = status /\ window' = window /\ member' = member /\ joined' = joined
      /\ acceptance' = acceptance /\ policies' = policies /\ late' = late
  BY DEF database, casbin
<1>3. ClaimsUnique'
  <2>1. \A v \in Workers : ~Working(v)' => claim'[v] = NoClaim
    BY DEF IInv, RequestState
  <2>2. \A v \in Workers : Working(v)' => claim'[v] # NoClaim
    BY DEF IInv, RequestState
  <2> QED
    BY <1>1, <1>2, <2>1, <2>2 DEF IInv, ClaimsUnique, HasRow
<1>4. Ownership'
  BY <1>1, <1>2 DEF IInv, Ownership, HasRow, OwnsRow
<1>5. FirstAttemptClean'
  BY <1>1, <1>2 DEF IInv, FirstAttemptClean, OwnsRow
<1>6. SupersededOnlyAfterLease'
  BY <1>1, <1>2 DEF IInv, SupersededOnlyAfterLease, Working
<1>7. MemberMatchesStatus' /\ OneCurrentMember' /\ ClaimBacked' /\ NoOrphanPolicies'
      /\ AcceptedHasRoles' /\ StartedInWindow'
  BY <1>2 DEF IInv, MemberMatchesStatus, OneCurrentMember, ClaimBacked, NoOrphanPolicies,
              AcceptedHasRoles, StartedInWindow, HasRow, Required
<1> QED
  BY <1>3, <1>4, <1>5, <1>6, <1>7 DEF IInv

-----------------------------------------------------------------------------
(* Steps of one request that reach Casdoor. *)

\* What reaches Casdoor belongs to the membership that w works for.
OnlyEdgesOf(i) ==
  /\ policies[i] \subseteq policies'[i]
  /\ \A j \in Invitations \ {i} : policies'[j] = policies[j] /\ late'[j] = late[j]

LEMMA WorkedForExists ==
  ASSUME IInv, NEW w \in Workers, Working(w)
  PROVE  member[inv[w]] # "absent"
<1>1. inv[w] \in Invitations
  BY DEF IInv, TypeOK
<1>2. HasRow(inv[w]) \/ status[inv[w]] = "accepted"
  BY DEF IInv, Ownership
<1> QED
  BY <1>1, <1>2 DEF IInv, ClaimBacked, MemberMatchesStatus

LEMMA CasdoorStep ==
  ASSUME IInv, TypeOK', RequestState', NEW w \in Workers, OthersKeep(w), WorksOn(w),
         now' = now, UNCHANGED database, OnlyEdgesOf(inv[w]), sent'[w] # {}
  PROVE  IInv'
<1>1. \A v \in Workers :
        /\ Working(v)' => Working(v)
        /\ inv'[v] = inv[v] /\ at'[v] = at[v] /\ claim'[v] = claim[v]
        /\ recovery'[v] = recovery[v]
        /\ v # w => sent'[v] = sent[v]
  BY DEF OthersKeep, WorksOn, Working
<1>2. /\ status' = status /\ window' = window /\ member' = member /\ joined' = joined
      /\ acceptance' = acceptance
  BY DEF database
<1>3. ClaimsUnique'
  BY <1>1, <1>2 DEF IInv, ClaimsUnique, HasRow
<1>4. Ownership'
  BY <1>1, <1>2 DEF IInv, Ownership, HasRow, OwnsRow
<1>5. FirstAttemptClean'
  <2> SUFFICES ASSUME NEW v \in Workers, Working(v)', OwnsRow(v)', ~recovery'[v], sent'[v] = {}
               PROVE  policies'[inv'[v]] \union late'[inv'[v]] = {}
    BY DEF FirstAttemptClean
  <2>1. v # w /\ Working(v) /\ OwnsRow(v) /\ ~recovery[v] /\ sent[v] = {}
    BY <1>1, <1>2 DEF OwnsRow
  <2>2. CASE inv[v] = inv[w]
    <3>1. HasRow(inv[w])
      BY <2>1, <2>2 DEF HasRow, OwnsRow, IInv, RequestState
    <3>2. ~OwnsRow(w)
      BY <2>1, <2>2 DEF OwnsRow, IInv, ClaimsUnique
    <3>3. acceptance[inv[v]].attempts = AttemptCap
      BY <2>2, <3>1, <3>2 DEF IInv, Ownership, WorksOn
    <3> QED
      BY <2>1, <3>3 DEF IInv, Ownership
  <2>3. CASE inv[v] # inv[w]
    <3>1. policies[inv[v]] \union late[inv[v]] = {}
      BY <2>1 DEF IInv, FirstAttemptClean
    <3>2. inv[v] \in Invitations \ {inv[w]}
      BY <2>3 DEF IInv, TypeOK
    <3> QED
      BY <1>1, <3>1, <3>2 DEF OnlyEdgesOf
  <2> QED
    BY <2>2, <2>3
<1>6. SupersededOnlyAfterLease'
  BY <1>1, <1>2 DEF IInv, SupersededOnlyAfterLease, Working
<1>7. NoOrphanPolicies'
  <2>1. member[inv[w]] # "absent"
    BY WorkedForExists DEF WorksOn
  <2> QED
    BY <1>2, <2>1 DEF IInv, NoOrphanPolicies, OnlyEdgesOf
<1>8. AcceptedHasRoles'
  <2>1. \A i \in Invitations : policies[i] \subseteq policies'[i]
    BY DEF OnlyEdgesOf
  <2> QED
    BY <1>2, <2>1 DEF IInv, AcceptedHasRoles, Required
<1>9. MemberMatchesStatus' /\ OneCurrentMember' /\ ClaimBacked' /\ StartedInWindow'
  BY <1>2 DEF IInv, MemberMatchesStatus, OneCurrentMember, ClaimBacked, StartedInWindow, HasRow
<1> QED
  BY <1>3, <1>4, <1>5, <1>6, <1>7, <1>8, <1>9 DEF IInv

-----------------------------------------------------------------------------
(* The actions of one request. *)

LEMMA BeginAcceptInv ==
  ASSUME IInv, TypeOK', NEW w \in Workers, NEW i \in Invitations, BeginAccept(w, i)
  PROVE  IInv'
<1>1. OthersKeep(w) /\ ~Working(w)'
  BY DEF IInv, TypeOK, BeginAccept, OthersKeep, Working
<1>2. RequestState'
  BY DEF IInv, TypeOK, BeginAccept, RequestState, Working, database, casbin
<1> QED
  BY <1>1, <1>2, LocalStep DEF BeginAccept

LEMMA ClaimRejectedInv ==
  ASSUME IInv, TypeOK', NEW w \in Workers, ClaimRejected(w)
  PROVE  IInv'
<1>1. OthersKeep(w) /\ ~Working(w)'
  BY DEF IInv, TypeOK, ClaimRejected, Finish, locals, OthersKeep, Working
<1>2. RequestState'
  BY DEF IInv, TypeOK, ClaimRejected, Finish, locals, RequestState, Working, database, casbin
<1> QED
  BY <1>1, <1>2, LocalStep DEF ClaimRejected

LEMMA TakeSnapshotInv ==
  ASSUME IInv, TypeOK', NEW w \in Workers, TakeSnapshot(w)
  PROVE  IInv'
<1>1. OthersKeep(w) /\ WorksOn(w)
  BY DEF IInv, TypeOK, TakeSnapshot, locals, OthersKeep, WorksOn, Working
<1>2. RequestState'
  BY DEF IInv, TypeOK, TakeSnapshot, locals, RequestState, Working, database, casbin
<1> QED
  BY <1>1, <1>2, LocalStep DEF TakeSnapshot

LEMMA SnapshotFailsInv ==
  ASSUME IInv, TypeOK', NEW w \in Workers, SnapshotFails(w)
  PROVE  IInv'
<1>1. OthersKeep(w) /\ WorksOn(w)
  BY DEF IInv, TypeOK, SnapshotFails, Goto, AfterSyncError, locals, OthersKeep, WorksOn, Working
<1>2. RequestState'
  BY DEF IInv, TypeOK, SnapshotFails, Goto, AfterSyncError, locals, RequestState, Working, database, casbin
<1> QED
  BY <1>1, <1>2, LocalStep DEF SnapshotFails

LEMMA AddPolicyIgnoredInv ==
  ASSUME IInv, TypeOK', NEW w \in Workers, AddPolicyIgnored(w)
  PROVE  IInv'
<1>1. OthersKeep(w) /\ WorksOn(w)
  BY DEF IInv, TypeOK, AddPolicyIgnored, locals, OthersKeep, WorksOn, Working
<1>2. RequestState'
  BY DEF IInv, TypeOK, AddPolicyIgnored, locals, RequestState, Working, database, casbin
<1> QED
  BY <1>1, <1>2, LocalStep DEF AddPolicyIgnored

LEMMA ContextDoneInv ==
  ASSUME IInv, TypeOK', NEW w \in Workers, ContextDone(w)
  PROVE  IInv'
<1>1. OthersKeep(w) /\ WorksOn(w)
  BY DEF IInv, TypeOK, ContextDone, Goto, AfterSyncError, locals, OthersKeep, WorksOn, Working
<1>2. RequestState'
  BY DEF IInv, TypeOK, ContextDone, Goto, AfterSyncError, locals, RequestState, Working, database, casbin
<1> QED
  BY <1>1, <1>2, LocalStep DEF ContextDone

LEMMA VerifyRolesInv ==
  ASSUME IInv, TypeOK', NEW w \in Workers, VerifyRoles(w)
  PROVE  IInv'
<1>1. OthersKeep(w) /\ WorksOn(w)
  BY DEF IInv, TypeOK, VerifyRoles, Goto, locals, OthersKeep, WorksOn, Working
<1>2. RequestState'
  BY DEF IInv, TypeOK, VerifyRoles, Goto, locals, RequestState, Working, database, casbin
<1> QED
  BY <1>1, <1>2, LocalStep DEF VerifyRoles

LEMMA VerifyFailsInv ==
  ASSUME IInv, TypeOK', NEW w \in Workers, VerifyFails(w)
  PROVE  IInv'
<1>1. OthersKeep(w) /\ WorksOn(w)
  BY DEF IInv, TypeOK, VerifyFails, Goto, AfterSyncError, locals, OthersKeep, WorksOn, Working
<1>2. RequestState'
  BY DEF IInv, TypeOK, VerifyFails, Goto, AfterSyncError, locals, RequestState, Working, database, casbin
<1> QED
  BY <1>1, <1>2, LocalStep DEF VerifyFails

LEMMA CompleteFailsInv ==
  ASSUME IInv, TypeOK', NEW w \in Workers, CompleteFails(w)
  PROVE  IInv'
<1>1. OthersKeep(w) /\ WorksOn(w)
  BY DEF IInv, TypeOK, CompleteFails, Goto, locals, OthersKeep, WorksOn, Working
<1>2. RequestState'
  BY DEF IInv, TypeOK, CompleteFails, Goto, locals, RequestState, Working, database, casbin
<1> QED
  BY <1>1, <1>2, LocalStep DEF CompleteFails

LEMMA CrashInv ==
  ASSUME IInv, TypeOK', NEW w \in Workers, Crash(w)
  PROVE  IInv'
<1>1. OthersKeep(w) /\ ~Working(w)'
  BY DEF IInv, TypeOK, Crash, Finish, locals, OthersKeep, Working
<1>2. RequestState'
  BY DEF IInv, TypeOK, Crash, Finish, locals, RequestState, Working, database, casbin
<1> QED
  BY <1>1, <1>2, LocalStep DEF Crash

LEMMA AddPolicyInv ==
  ASSUME IInv, TypeOK', NEW w \in Workers, AddPolicy(w)
  PROVE  IInv'
<1>1. PICK e \in NextEdges(todo[w]) :
        /\ policies' = [policies EXCEPT ![inv[w]] = @ \union {e}]
        /\ sent' = [sent EXCEPT ![w] = @ \union {e}]
        /\ todo' = [todo EXCEPT ![w] = @ \ {e}]
  BY DEF AddPolicy
<1>2. OnlyEdgesOf(inv[w]) /\ sent'[w] # {}
  BY <1>1 DEF IInv, TypeOK, AddPolicy, OnlyEdgesOf
<1>3. OthersKeep(w) /\ WorksOn(w)
  BY <1>1 DEF IInv, TypeOK, AddPolicy, OthersKeep, WorksOn, Working
<1>4. \A i \in Invitations : policies[i] \subseteq policies'[i]
  BY <1>2 DEF OnlyEdgesOf
<1>5. RequestState'
  BY <1>1, <1>4 DEF IInv, TypeOK, AddPolicy, RequestState, Working, Required
<1> QED
  BY <1>2, <1>3, <1>5, CasdoorStep DEF AddPolicy

LEMMA AddPolicyFailsInv ==
  ASSUME IInv, TypeOK', NEW w \in Workers, AddPolicyFails(w)
  PROVE  IInv'
<1>1. PICK e \in NextEdges(todo[w]) :
        /\ sent' = [sent EXCEPT ![w] = @ \union {e}]
        /\ \/ policies' = [policies EXCEPT ![inv[w]] = @ \union {e}] /\ late' = late
           \/ late' = [late EXCEPT ![inv[w]] = @ \union {e}] /\ policies' = policies
           \/ policies' = policies /\ late' = late
  BY DEF AddPolicyFails, casbin
<1>2. OnlyEdgesOf(inv[w]) /\ sent'[w] # {}
  BY <1>1 DEF IInv, TypeOK, OnlyEdgesOf
<1>3. OthersKeep(w) /\ WorksOn(w)
  BY <1>1 DEF IInv, TypeOK, AddPolicyFails, OthersKeep, WorksOn, Working
<1>4. \A i \in Invitations : policies[i] \subseteq policies'[i]
  BY <1>2 DEF OnlyEdgesOf
<1>5. RequestState'
  BY <1>1, <1>4 DEF IInv, TypeOK, AddPolicyFails, RequestState, Working, Required
<1> QED
  BY <1>2, <1>3, <1>5, CasdoorStep DEF AddPolicyFails

\* A delayed call only moves an edge from late to policies.
LEMMA DeliverLateInv ==
  ASSUME IInv, TypeOK', NEW i \in Invitations, DeliverLate(i)
  PROVE  IInv'
<1>1. \A j \in Invitations : /\ policies[j] \subseteq policies'[j]
                             /\ policies'[j] \union late'[j] = policies[j] \union late[j]
  BY DEF IInv, TypeOK, DeliverLate
<1>2. /\ status' = status /\ window' = window /\ member' = member /\ joined' = joined
      /\ acceptance' = acceptance /\ now' = now /\ pc' = pc /\ inv' = inv /\ at' = at
      /\ claim' = claim /\ recovery' = recovery /\ sent' = sent
  BY DEF DeliverLate, database, handler, locals
<1>3. RequestState'
  BY <1>1, <1>2 DEF IInv, TypeOK, RequestState, Working, Required
<1>4. FirstAttemptClean'
  BY <1>1, <1>2 DEF IInv, TypeOK, FirstAttemptClean, Working, OwnsRow
<1>5. NoOrphanPolicies' /\ AcceptedHasRoles'
  BY <1>1, <1>2 DEF IInv, NoOrphanPolicies, AcceptedHasRoles, Required
<1>6. /\ ClaimsUnique' /\ Ownership' /\ SupersededOnlyAfterLease' /\ MemberMatchesStatus'
      /\ OneCurrentMember' /\ ClaimBacked' /\ StartedInWindow'
  BY <1>2 DEF IInv, ClaimsUnique, Ownership, SupersededOnlyAfterLease, MemberMatchesStatus,
              OneCurrentMember, ClaimBacked, StartedInWindow, HasRow, OwnsRow, Working
<1> QED
  BY <1>3, <1>4, <1>5, <1>6 DEF IInv

LEMMA TickInv ==
  ASSUME IInv, TypeOK', Tick
  PROVE  IInv'
<1>1. /\ status' = status /\ window' = window /\ member' = member /\ joined' = joined
      /\ acceptance' = acceptance /\ pc' = pc /\ inv' = inv /\ at' = at /\ claim' = claim
      /\ recovery' = recovery /\ sent' = sent /\ policies' = policies /\ late' = late
  BY DEF Tick, database, casbin, handler, locals
<1>2. RequestState' /\ SupersededOnlyAfterLease'
  BY <1>1 DEF IInv, TypeOK, Tick, RequestState, SupersededOnlyAfterLease, Working, Required
<1>3. /\ ClaimsUnique' /\ Ownership' /\ MemberMatchesStatus' /\ OneCurrentMember'
      /\ ClaimBacked' /\ StartedInWindow' /\ FirstAttemptClean' /\ NoOrphanPolicies'
      /\ AcceptedHasRoles'
  BY <1>1 DEF IInv, ClaimsUnique, Ownership, MemberMatchesStatus, OneCurrentMember,
              ClaimBacked, StartedInWindow, FirstAttemptClean, NoOrphanPolicies,
              AcceptedHasRoles, HasRow, OwnsRow, Working, Required
<1> QED
  BY <1>2, <1>3 DEF IInv

LEMMA InviteInv ==
  ASSUME IInv, TypeOK', NEW i \in Invitations, Invite(i)
  PROVE  IInv'
<1>1. /\ now' = now /\ member' = member /\ joined' = joined /\ acceptance' = acceptance
      /\ pc' = pc /\ inv' = inv /\ at' = at /\ claim' = claim /\ recovery' = recovery
      /\ sent' = sent /\ policies' = policies /\ late' = late
  BY DEF Invite, casbin, handler, locals
<1>2. ~HasRow(i) /\ status[i] # "accepted"
  BY DEF IInv, ClaimBacked, Invite
<1>3. status'[i] = "pending" /\ \A j \in Invitations \ {i} : status'[j] = status[j] /\ window'[j] = window[j]
  BY DEF IInv, TypeOK, Invite
<1>4. \A j \in Invitations : status'[j] = "accepted" <=> status[j] = "accepted"
  BY <1>2, <1>3
<1>5. ClaimBacked' /\ StartedInWindow'
  BY <1>1, <1>2, <1>3 DEF IInv, ClaimBacked, StartedInWindow, HasRow
<1>6. Ownership'
  BY <1>1, <1>4 DEF IInv, TypeOK, Ownership, HasRow, OwnsRow, Working
<1>7. MemberMatchesStatus' /\ AcceptedHasRoles'
  BY <1>1, <1>4 DEF IInv, MemberMatchesStatus, AcceptedHasRoles, Required
<1>8. /\ RequestState' /\ ClaimsUnique' /\ SupersededOnlyAfterLease' /\ OneCurrentMember'
      /\ FirstAttemptClean' /\ NoOrphanPolicies'
  BY <1>1 DEF IInv, RequestState, ClaimsUnique, SupersededOnlyAfterLease, OneCurrentMember,
              FirstAttemptClean, NoOrphanPolicies, HasRow, OwnsRow, Working, Required
<1> QED
  BY <1>5, <1>6, <1>7, <1>8 DEF IInv

\* Nobody works on an invitation that is pending and has no claim row.
LEMMA NobodyWorksUnclaimed ==
  ASSUME IInv, NEW i \in Invitations, status[i] = "pending", ~HasRow(i),
         NEW v \in Workers, Working(v)
  PROVE  inv[v] # i
  BY DEF IInv, Ownership

LEMMA ClaimAcceptanceInv ==
  ASSUME IInv, TypeOK', NEW w \in Workers, ClaimAcceptance(w)
  PROVE  IInv'
<1> DEFINE i == inv[w]
<1>0. i \in Invitations /\ ~Working(w) /\ sent[w] = {} /\ at[w] \in Nat /\ at[w] <= now
  BY DEF IInv, TypeOK, RequestState, ClaimAcceptance, Working
<1>1. PICK c \in ClaimIds \ UsedClaims :
        /\ acceptance' = [acceptance EXCEPT ![i] =
             [claim |-> c, lease |-> at[w] + Lease,
              started |-> IF HasRow(i) THEN acceptance[i].started ELSE at[w],
              attempts |-> IF HasRow(i) THEN AttemptCap ELSE 1]]
        /\ claim' = [claim EXCEPT ![w] = c]
  BY DEF ClaimAcceptance
<1>2. /\ now' = now /\ status' = status /\ window' = window /\ joined' = joined
      /\ policies' = policies /\ late' = late /\ inv' = inv /\ at' = at /\ sent' = sent
  BY DEF ClaimAcceptance, casbin
<1>3. /\ status[i] = "pending"
      /\ HasRow(i) => acceptance[i].lease <= at[w]
      /\ ~HasRow(i) => window[i].from <= at[w] /\ at[w] < window[i].until
  BY DEF ClaimAcceptance, ClaimableFirst, ClaimableAgain
<1>4. c # NoClaim /\ (\A j \in Invitations : acceptance[j].claim # c)
      /\ (\A v \in Workers : claim[v] # c)
  BY DEF UsedClaims
<1>5. /\ acceptance'[i].claim = c /\ acceptance'[i].lease = at[w] + Lease
      /\ acceptance'[i].started = IF HasRow(i) THEN acceptance[i].started ELSE at[w]
      /\ acceptance'[i].attempts = IF HasRow(i) THEN AttemptCap ELSE 1
      /\ \A j \in Invitations \ {i} : acceptance'[j] = acceptance[j]
  BY <1>0, <1>1 DEF IInv, TypeOK
<1>6. /\ pc'[w] = "snapshot" /\ claim'[w] = c /\ recovery'[w] = HasRow(i)
      /\ \A v \in Workers \ {w} : pc'[v] = pc[v] /\ claim'[v] = claim[v] /\ recovery'[v] = recovery[v]
  BY <1>1 DEF IInv, TypeOK, ClaimAcceptance
<1>7. member'[i] = "provisioning" /\ \A j \in Invitations \ {i} : member'[j] = member[j]
  BY <1>0 DEF IInv, TypeOK, ClaimAcceptance
<1>8. member[i] \in {"absent", "provisioning"}
  BY DEF ClaimAcceptance, MembershipClaimable
<1>9. \A v \in Workers : v # w /\ Working(v)' => Working(v)
  BY <1>6 DEF Working
<1>10. RequestState'
  <2> SUFFICES ASSUME NEW v \in Workers
               PROVE  /\ at'[v] <= now'
                      /\ pc'[v] \notin {"idle", "claim"} <=> claim'[v] # NoClaim
                      /\ pc'[v] \in {"idle", "claim", "snapshot", "abort"} => sent'[v] = {}
                      /\ pc'[v] \in {"idle", "claim", "abort"} => ~recovery'[v]
                      /\ pc'[v] = "complete" => RolesOf[inv'[v]] \union {UserEdge} \subseteq policies'[inv'[v]]
    BY DEF RequestState, Working, Required
  <2>1. CASE v = w
    BY <1>0, <1>2, <1>4, <1>6, <2>1
  <2>2. CASE v # w
    BY <1>2, <1>6, <2>2 DEF IInv, RequestState, Working, Required
  <2> QED
    BY <2>1, <2>2
<1>11. ClaimsUnique'
  <2>1. \A j, k \in Invitations : j # k /\ HasRow(j)' => acceptance'[j].claim # acceptance'[k].claim
    BY <1>4, <1>5 DEF IInv, ClaimsUnique, HasRow
  <2>2. \A u, v \in Workers : u # v /\ Working(u)' => claim'[u] # claim'[v]
    BY <1>4, <1>6, <1>9 DEF IInv, ClaimsUnique
  <2>3. \A v \in Workers, j \in Invitations :
          Working(v)' /\ acceptance'[j].claim = claim'[v] => inv'[v] = j
    BY <1>2, <1>4, <1>5, <1>6, <1>9 DEF IInv, ClaimsUnique
  <2> QED
    BY <2>1, <2>2, <2>3 DEF ClaimsUnique
<1>12. Ownership'
  <2> SUFFICES ASSUME NEW v \in Workers, Working(v)'
               PROVE  LET row == acceptance'[inv[v]]
                      IN /\ row.claim = claim'[v] => /\ recovery'[v] <=> row.attempts = AttemptCap
                                                     /\ row.lease = at[v] + Lease
                         /\ row.claim # NoClaim /\ row.claim # claim'[v] => row.attempts = AttemptCap
                         /\ row.claim = NoClaim => status[inv[v]] = "accepted"
    BY <1>2 DEF Ownership, HasRow, OwnsRow
  <2>1. CASE v = w
    <3>1. acceptance'[i].claim = claim'[v] /\ acceptance'[i].claim # NoClaim
      BY <1>4, <1>5, <1>6, <2>1
    <3>2. recovery'[v] <=> acceptance'[i].attempts = AttemptCap
      BY <1>5, <1>6, <2>1 DEF AttemptCap
    <3> QED
      BY <1>5, <2>1, <3>1, <3>2
  <2>2. CASE v # w /\ inv[v] = i
    <3>1. HasRow(i)
      BY <1>0, <1>3, <1>9, <2>2, NobodyWorksUnclaimed
    <3>2. acceptance'[i].attempts = AttemptCap /\ acceptance'[i].claim = c
      BY <1>5, <3>1
    <3> QED
      BY <1>4, <1>6, <2>2, <3>2
  <2>3. CASE v # w /\ inv[v] # i
    <3>1. Working(v) /\ inv[v] \in Invitations \ {i}
      BY <1>9, <2>3 DEF IInv, TypeOK
    <3>2. acceptance'[inv[v]] = acceptance[inv[v]] /\ claim'[v] = claim[v] /\ recovery'[v] = recovery[v]
      BY <1>5, <1>6, <2>3, <3>1
    <3> QED
      BY <3>1, <3>2 DEF IInv, Ownership, OwnsRow, HasRow
  <2> QED
    BY <2>1, <2>2, <2>3
<1>13. FirstAttemptClean'
  <2> SUFFICES ASSUME NEW v \in Workers, Working(v)', OwnsRow(v)', ~recovery'[v], sent'[v] = {}
               PROVE  policies'[inv'[v]] \union late'[inv'[v]] = {}
    BY DEF FirstAttemptClean
  <2>1. CASE v = w
    <3>1. member[i] = "absent"
      BY <1>0, <1>6, <1>8, <2>1 DEF IInv, ClaimBacked
    <3> QED
      BY <1>0, <1>2, <2>1, <3>1 DEF IInv, NoOrphanPolicies
  <2>2. CASE v # w
    <3>1. Working(v) /\ inv[v] \in Invitations /\ ~recovery[v] /\ sent[v] = {} /\ claim'[v] = claim[v]
      BY <1>2, <1>6, <1>9, <2>2 DEF IInv, TypeOK
    <3>2. inv[v] # i
      BY <1>2, <1>4, <1>5, <3>1 DEF OwnsRow
    <3>3. OwnsRow(v)
      BY <1>2, <1>5, <3>1, <3>2 DEF OwnsRow
    <3> QED
      BY <1>2, <3>1, <3>3 DEF IInv, FirstAttemptClean
  <2> QED
    BY <2>1, <2>2
<1>14. SupersededOnlyAfterLease'
  <2> SUFFICES ASSUME NEW v \in Workers, Working(v)'
               PROVE  acceptance'[inv'[v]].claim = claim'[v] \/ now' >= at'[v] + Lease
    BY DEF SupersededOnlyAfterLease, Working
  <2>1. CASE v = w
    BY <1>2, <1>5, <1>6, <2>1
  <2>2. CASE v # w /\ inv[v] # i
    <3>1. Working(v) /\ inv[v] \in Invitations \ {i}
      BY <1>9, <2>2 DEF IInv, TypeOK
    <3> QED
      BY <1>2, <1>5, <1>6, <2>2, <3>1 DEF IInv, SupersededOnlyAfterLease, Working
  <2>3. CASE v # w /\ inv[v] = i
    <3>1. Working(v) /\ HasRow(i)
      BY <1>0, <1>3, <1>9, <2>3, NobodyWorksUnclaimed
    <3>2. acceptance[i].lease <= at[w]
      BY <1>3, <3>1
    <3>3. CASE OwnsRow(v)
      <4>1. acceptance[i].lease = at[v] + Lease
        BY <2>3, <3>1, <3>3 DEF IInv, Ownership
      <4>2. at[v] \in Nat /\ now \in Nat
        BY DEF IInv, TypeOK
      <4> QED
        BY <1>0, <1>2, <3>2, <4>1, <4>2
    <3>4. CASE ~OwnsRow(v)
      BY <1>2, <3>1, <3>4 DEF IInv, SupersededOnlyAfterLease, Working, OwnsRow
    <3> QED
      BY <3>3, <3>4
  <2> QED
    BY <2>1, <2>2, <2>3
<1>15. StartedInWindow'
  BY <1>0, <1>2, <1>3, <1>5 DEF IInv, StartedInWindow, HasRow
<1>16. ClaimBacked'
  BY <1>2, <1>3, <1>4, <1>5, <1>7 DEF IInv, ClaimBacked, HasRow
<1>17. MemberMatchesStatus' /\ NoOrphanPolicies' /\ AcceptedHasRoles'
  BY <1>2, <1>3, <1>7, <1>8 DEF IInv, MemberMatchesStatus, NoOrphanPolicies, AcceptedHasRoles, Required
<1>18. OneCurrentMember'
  <2>1. CASE member[i] = "provisioning"
    <3>1. member' = member
      BY <1>0, <2>1 DEF IInv, TypeOK, ClaimAcceptance
    <3> QED
      BY <1>2, <3>1 DEF IInv, OneCurrentMember
  <2>2. CASE member[i] = "absent"
    <3>1. ~CurrentMember(SlotOf[i])
      BY <2>2 DEF ClaimAcceptance, MembershipClaimable
    <3>2. ~joined[SlotOf[i]] /\ \A j \in Invitations :
            SlotOf[j] = SlotOf[i] => member[j] \notin {"provisioning", "active"}
      BY <3>1 DEF CurrentMember
    <3> QED
      BY <1>0, <1>2, <1>7, <3>2 DEF IInv, OneCurrentMember
  <2> QED
    BY <1>8, <2>1, <2>2
<1> QED
  BY <1>10, <1>11, <1>12, <1>13, <1>14, <1>15, <1>16, <1>17, <1>18 DEF IInv

\* After a step that ends request w, whoever still works is somebody else and
\* holds what it held.
LEMMA FinishKeeps ==
  ASSUME IInv, NEW w \in Workers, Working(w), Finish(w), NEW v \in Workers, Working(v)'
  PROVE  /\ v # w /\ Working(v) /\ inv[v] \in Invitations
         /\ inv'[v] = inv[v] /\ at'[v] = at[v] /\ claim'[v] = claim[v]
         /\ recovery'[v] = recovery[v] /\ sent'[v] = sent[v]
         /\ claim[v] # NoClaim /\ claim[v] # claim[w]
<1>1. v # w /\ Working(v)
  BY DEF IInv, TypeOK, Finish, Working
<1>2. /\ inv[v] \in Invitations /\ inv'[v] = inv[v] /\ at'[v] = at[v] /\ claim'[v] = claim[v]
      /\ recovery'[v] = recovery[v] /\ sent'[v] = sent[v]
  BY <1>1 DEF IInv, TypeOK, Finish
<1>3. claim[v] # NoClaim /\ claim[v] # claim[w]
  BY <1>1 DEF IInv, ClaimsUnique, RequestState
<1> QED
  BY <1>1, <1>2, <1>3

\* A request that has just ended, with the database row of i rewritten: what
\* is left to show of the requests is what they know of row i.
LEMMA FinishRequestState ==
  ASSUME IInv, NEW w \in Workers, Finish(w), now' = now, policies' = policies
  PROVE  RequestState'
<1>1. now \in Nat
  BY DEF IInv, TypeOK
<1>2. /\ pc'[w] = "idle" /\ claim'[w] = NoClaim /\ ~recovery'[w] /\ sent'[w] = {} /\ at'[w] = 0
      /\ \A v \in Workers \ {w} :
           /\ pc'[v] = pc[v] /\ inv'[v] = inv[v] /\ at'[v] = at[v] /\ claim'[v] = claim[v]
           /\ recovery'[v] = recovery[v] /\ sent'[v] = sent[v]
  BY DEF IInv, TypeOK, Finish
<1> QED
  BY <1>1, <1>2 DEF IInv, RequestState, Working, Required

\* Ending a request leaves every claim id with one holder.
LEMMA FinishedClaimsUnique ==
  ASSUME IInv, NEW w \in Workers, Working(w), Finish(w), RequestState',
         \A j \in Invitations : acceptance'[j].claim \in {acceptance[j].claim, NoClaim}
  PROVE  ClaimsUnique'
<1>1. \A j, k \in Invitations :
        j # k /\ acceptance'[j].claim # NoClaim => acceptance'[j].claim # acceptance'[k].claim
  BY DEF IInv, ClaimsUnique, HasRow
<1>2. \A u, v \in Workers : u # v /\ Working(u)' => claim'[u] # claim'[v]
  <2> SUFFICES ASSUME NEW u \in Workers, NEW v \in Workers, u # v, Working(u)'
               PROVE  claim'[u] # claim'[v]
    OBVIOUS
  <2>1. claim'[u] # NoClaim /\ (~Working(v)' => claim'[v] = NoClaim)
    BY DEF RequestState
  <2>2. Working(v)' => claim'[u] # claim'[v]
    BY FinishKeeps DEF IInv, ClaimsUnique
  <2> QED
    BY <2>1, <2>2
<1>3. \A v \in Workers, j \in Invitations :
        Working(v)' /\ acceptance'[j].claim = claim'[v] => inv'[v] = j
  BY FinishKeeps DEF IInv, ClaimsUnique
<1> QED
  BY <1>1, <1>2, <1>3 DEF ClaimsUnique, HasRow

LEMMA CompleteAcceptanceInv ==
  ASSUME IInv, TypeOK', NEW w \in Workers, CompleteAcceptance(w)
  PROVE  IInv'
<1> DEFINE i == inv[w]
<1>0. i \in Invitations /\ Working(w) /\ Finish(w)
  BY DEF IInv, TypeOK, CompleteAcceptance, Working
<1>1. /\ now' = now /\ window' = window /\ joined' = joined /\ policies' = policies /\ late' = late
  BY DEF CompleteAcceptance, casbin
<1>2. /\ status[i] = "pending" /\ member[i] = "provisioning" /\ acceptance[i].claim = claim[w]
      /\ Required(i) \subseteq policies[i]
  BY DEF CompleteAcceptance, Completable, IInv, RequestState
<1>3. /\ status'[i] = "accepted" /\ member'[i] = "active" /\ acceptance'[i].claim = NoClaim
      /\ \A j \in Invitations \ {i} :
           status'[j] = status[j] /\ member'[j] = member[j] /\ acceptance'[j] = acceptance[j]
  BY <1>0 DEF IInv, TypeOK, CompleteAcceptance, NoRow
<1>4. RequestState'
  BY <1>0, <1>1, FinishRequestState
<1>5. ClaimsUnique'
  BY <1>0, <1>3, <1>4, FinishedClaimsUnique
<1>6. Ownership'
  <2> SUFFICES ASSUME NEW v \in Workers, Working(v)'
               PROVE  LET row == acceptance'[inv[v]]
                      IN /\ row.claim = claim[v] => /\ recovery[v] <=> row.attempts = AttemptCap
                                                    /\ row.lease = at[v] + Lease
                         /\ row.claim # NoClaim /\ row.claim # claim[v] => row.attempts = AttemptCap
                         /\ row.claim = NoClaim => status'[inv[v]] = "accepted"
    BY <1>0, FinishKeeps DEF Ownership, HasRow, OwnsRow
  <2>1. Working(v) /\ inv[v] \in Invitations /\ claim[v] # NoClaim
    BY <1>0, FinishKeeps
  <2>2. CASE inv[v] = i
    BY <1>3, <2>1, <2>2
  <2>3. CASE inv[v] # i
    BY <1>3, <2>1, <2>3 DEF IInv, Ownership, HasRow, OwnsRow
  <2> QED
    BY <2>2, <2>3
<1>7. FirstAttemptClean'
  <2> SUFFICES ASSUME NEW v \in Workers, Working(v)', OwnsRow(v)', ~recovery'[v], sent'[v] = {}
               PROVE  policies'[inv'[v]] \union late'[inv'[v]] = {}
    BY DEF FirstAttemptClean
  <2>1. /\ Working(v) /\ inv[v] \in Invitations /\ inv'[v] = inv[v] /\ ~recovery[v] /\ sent[v] = {}
        /\ acceptance'[inv[v]].claim = claim[v] /\ claim[v] # NoClaim
    BY <1>0, FinishKeeps DEF OwnsRow
  <2>2. OwnsRow(v)
    BY <1>3, <2>1 DEF OwnsRow
  <2> QED
    BY <1>1, <2>1, <2>2 DEF IInv, FirstAttemptClean
<1>8. SupersededOnlyAfterLease'
  <2> SUFFICES ASSUME NEW v \in Workers, Working(v)'
               PROVE  acceptance'[inv'[v]].claim = claim'[v] \/ now' >= at'[v] + Lease
    BY DEF SupersededOnlyAfterLease, Working
  <2>1. /\ v # w /\ Working(v) /\ claim[v] # claim[w] /\ inv[v] \in Invitations
        /\ inv'[v] = inv[v] /\ at'[v] = at[v] /\ claim'[v] = claim[v]
    BY <1>0, FinishKeeps
  <2>2. acceptance[inv[v]].claim = claim[v] => inv[v] # i
    BY <1>2, <2>1
  <2>3. acceptance[inv[v]].claim = claim[v] \/ now >= at[v] + Lease
    BY <2>1 DEF IInv, SupersededOnlyAfterLease, Working
  <2> QED
    BY <1>1, <1>3, <2>1, <2>2, <2>3
<1>9. MemberMatchesStatus' /\ ClaimBacked' /\ StartedInWindow'
  BY <1>1, <1>2, <1>3 DEF IInv, MemberMatchesStatus, ClaimBacked, StartedInWindow, HasRow
<1>10. OneCurrentMember'
  BY <1>1, <1>2, <1>3 DEF IInv, OneCurrentMember
<1>11. NoOrphanPolicies' /\ AcceptedHasRoles'
  BY <1>1, <1>2, <1>3 DEF IInv, NoOrphanPolicies, AcceptedHasRoles, Required
<1> QED
  BY <1>4, <1>5, <1>6, <1>7, <1>8, <1>9, <1>10, <1>11 DEF IInv

LEMMA ReleaseAcceptanceInv ==
  ASSUME IInv, TypeOK', NEW w \in Workers, ReleaseAcceptance(w)
  PROVE  IInv'
<1> DEFINE i == inv[w]
<1>0. i \in Invitations /\ Working(w) /\ Finish(w)
  BY DEF IInv, TypeOK, ReleaseAcceptance, Working
<1>1. /\ now' = now /\ status' = status /\ window' = window /\ member' = member
      /\ joined' = joined /\ policies' = policies /\ late' = late
  BY DEF ReleaseAcceptance, casbin
<1>2. /\ acceptance[i].claim # claim[w] => acceptance' = acceptance
      /\ \A j \in Invitations :
           /\ acceptance'[j].claim = acceptance[j].claim
           /\ acceptance'[j].started = acceptance[j].started
           /\ acceptance'[j].attempts = acceptance[j].attempts
           /\ j # i => acceptance'[j].lease = acceptance[j].lease
  BY <1>0 DEF IInv, TypeOK, ReleaseAcceptance
<1>3. RequestState'
  BY <1>0, <1>1, FinishRequestState
<1>4. ClaimsUnique'
  BY <1>0, <1>2, <1>3, FinishedClaimsUnique
<1>5. Ownership'
  <2> SUFFICES ASSUME NEW v \in Workers, Working(v)'
               PROVE  LET row == acceptance'[inv[v]]
                      IN /\ row.claim = claim[v] => /\ recovery[v] <=> row.attempts = AttemptCap
                                                    /\ row.lease = at[v] + Lease
                         /\ row.claim # NoClaim /\ row.claim # claim[v] => row.attempts = AttemptCap
                         /\ row.claim = NoClaim => status[inv[v]] = "accepted"
    BY <1>0, <1>1, FinishKeeps DEF Ownership, HasRow, OwnsRow
  <2>1. Working(v) /\ claim[v] # claim[w] /\ inv[v] \in Invitations
    BY <1>0, FinishKeeps
  <2>2. acceptance[inv[v]].claim = claim[v] => acceptance'[inv[v]].lease = acceptance[inv[v]].lease
    BY <1>2, <2>1
  <2>3. /\ acceptance'[inv[v]].claim = acceptance[inv[v]].claim
        /\ acceptance'[inv[v]].attempts = acceptance[inv[v]].attempts
    BY <1>2, <2>1
  <2> QED
    BY <2>1, <2>2, <2>3 DEF IInv, Ownership, OwnsRow, HasRow
<1>6. FirstAttemptClean'
  <2> SUFFICES ASSUME NEW v \in Workers, Working(v)', OwnsRow(v)', ~recovery'[v], sent'[v] = {}
               PROVE  policies'[inv'[v]] \union late'[inv'[v]] = {}
    BY DEF FirstAttemptClean
  <2>1. /\ Working(v) /\ inv[v] \in Invitations /\ inv'[v] = inv[v] /\ ~recovery[v] /\ sent[v] = {}
        /\ acceptance'[inv[v]].claim = claim[v] /\ claim[v] # NoClaim
    BY <1>0, FinishKeeps DEF OwnsRow
  <2>2. OwnsRow(v)
    BY <1>2, <2>1 DEF OwnsRow
  <2> QED
    BY <1>1, <2>1, <2>2 DEF IInv, FirstAttemptClean
<1>7. SupersededOnlyAfterLease'
  BY <1>0, <1>1, <1>2, FinishKeeps DEF IInv, SupersededOnlyAfterLease, Working
<1>8. /\ MemberMatchesStatus' /\ ClaimBacked' /\ StartedInWindow' /\ OneCurrentMember'
      /\ NoOrphanPolicies' /\ AcceptedHasRoles'
  BY <1>1, <1>2 DEF IInv, MemberMatchesStatus, ClaimBacked, StartedInWindow, HasRow,
                    OneCurrentMember, NoOrphanPolicies, AcceptedHasRoles, Required
<1> QED
  BY <1>3, <1>4, <1>5, <1>6, <1>7, <1>8 DEF IInv

\* Aborting deletes only the row of a first attempt that sent nothing: nobody
\* else works on the invitation and Casdoor has nothing of it.
LEMMA AbortAcceptanceInv ==
  ASSUME IInv, TypeOK', NEW w \in Workers, AbortAcceptance(w)
  PROVE  IInv'
<1> DEFINE i == inv[w]
<1>0. i \in Invitations /\ Working(w) /\ Finish(w)
  BY DEF IInv, TypeOK, AbortAcceptance, Working
<1>1. /\ now' = now /\ status' = status /\ window' = window /\ joined' = joined
      /\ policies' = policies /\ late' = late
  BY DEF AbortAcceptance, casbin
<1>2. \A j \in Invitations :
        \/ acceptance'[j] = acceptance[j] /\ member'[j] = member[j]
        \/ /\ j = i /\ acceptance[i].claim = claim[w] /\ member[i] = "provisioning"
           /\ acceptance'[i].claim = NoClaim /\ member'[i] = "absent"
  BY <1>0 DEF IInv, TypeOK, AbortAcceptance, NoRow
<1>3. ~recovery[w] /\ sent[w] = {} /\ claim[w] # NoClaim
  BY <1>0 DEF IInv, RequestState, AbortAcceptance, Working
<1>4. acceptance[i].claim = claim[w] =>
        /\ HasRow(i) /\ acceptance[i].attempts # AttemptCap
        /\ policies[i] \union late[i] = {} /\ status[i] = "pending"
  BY <1>0, <1>3 DEF IInv, Ownership, OwnsRow, HasRow, FirstAttemptClean, ClaimBacked
<1>5. ASSUME NEW v \in Workers, Working(v)'
      PROVE  acceptance'[inv[v]] = acceptance[inv[v]]
  <2>1. Working(v) /\ inv[v] \in Invitations /\ claim[v] # claim[w]
    BY <1>0, <1>5, FinishKeeps
  <2>2. ~(inv[v] = i /\ acceptance[i].claim = claim[w])
    BY <1>4, <2>1 DEF IInv, Ownership, OwnsRow
  <2> QED
    BY <1>2, <2>1, <2>2
<1>6. RequestState'
  BY <1>0, <1>1, FinishRequestState
<1>7. ClaimsUnique'
  BY <1>0, <1>2, <1>6, FinishedClaimsUnique
<1>8. Ownership'
  <2> SUFFICES ASSUME NEW v \in Workers, Working(v)'
               PROVE  LET row == acceptance'[inv[v]]
                      IN /\ row.claim = claim[v] => /\ recovery[v] <=> row.attempts = AttemptCap
                                                    /\ row.lease = at[v] + Lease
                         /\ row.claim # NoClaim /\ row.claim # claim[v] => row.attempts = AttemptCap
                         /\ row.claim = NoClaim => status[inv[v]] = "accepted"
    BY <1>0, <1>1, FinishKeeps DEF Ownership, HasRow, OwnsRow
  <2>1. Working(v)
    BY <1>0, FinishKeeps
  <2> QED
    BY <1>5, <2>1 DEF IInv, Ownership, OwnsRow, HasRow
<1>9. FirstAttemptClean'
  <2> SUFFICES ASSUME NEW v \in Workers, Working(v)', OwnsRow(v)', ~recovery'[v], sent'[v] = {}
               PROVE  policies'[inv'[v]] \union late'[inv'[v]] = {}
    BY DEF FirstAttemptClean
  <2>1. /\ Working(v) /\ inv[v] \in Invitations /\ inv'[v] = inv[v] /\ ~recovery[v] /\ sent[v] = {}
        /\ acceptance'[inv[v]].claim = claim[v] /\ claim[v] # NoClaim
    BY <1>0, FinishKeeps DEF OwnsRow
  <2>2. OwnsRow(v)
    BY <1>5, <2>1 DEF OwnsRow
  <2> QED
    BY <1>1, <2>1, <2>2 DEF IInv, FirstAttemptClean
<1>10. SupersededOnlyAfterLease'
  <2> SUFFICES ASSUME NEW v \in Workers, Working(v)'
               PROVE  acceptance'[inv'[v]].claim = claim'[v] \/ now' >= at'[v] + Lease
    BY DEF SupersededOnlyAfterLease, Working
  <2>1. Working(v) /\ inv'[v] = inv[v] /\ at'[v] = at[v] /\ claim'[v] = claim[v]
    BY <1>0, FinishKeeps
  <2> QED
    BY <1>1, <1>5, <2>1 DEF IInv, SupersededOnlyAfterLease, Working
<1>11. ClaimBacked' /\ StartedInWindow'
  BY <1>1, <1>2 DEF IInv, ClaimBacked, StartedInWindow, HasRow
<1>12. MemberMatchesStatus' /\ OneCurrentMember'
  BY <1>1, <1>2 DEF IInv, MemberMatchesStatus, OneCurrentMember
<1>13. NoOrphanPolicies' /\ AcceptedHasRoles'
  BY <1>1, <1>2, <1>4 DEF IInv, NoOrphanPolicies, AcceptedHasRoles, Required
<1> QED
  BY <1>6, <1>7, <1>8, <1>9, <1>10, <1>11, <1>12, <1>13 DEF IInv

LEMMA KickInv ==
  ASSUME IInv, TypeOK', NEW s \in Slots, Kick(s)
  PROVE  IInv'
<1>1. /\ now' = now /\ status' = status /\ window' = window /\ acceptance' = acceptance
      /\ pc' = pc /\ inv' = inv /\ at' = at /\ claim' = claim /\ recovery' = recovery
      /\ sent' = sent /\ policies' = policies /\ late' = late
  BY DEF Kick, casbin, handler, locals
<1>2. \A i \in Invitations :
        member'[i] = member[i] \/ (member[i] = "active" /\ member'[i] = "left")
  <2>1. member' = [i \in Invitations |->
                     IF SlotOf[i] = s /\ member[i] = "active" THEN "left" ELSE member[i]]
    BY DEF Kick
  <2>2. ASSUME NEW i \in Invitations
        PROVE  member'[i] = member[i] \/ (member[i] = "active" /\ member'[i] = "left")
    <3>1. member'[i] = IF SlotOf[i] = s /\ member[i] = "active" THEN "left" ELSE member[i]
      BY <2>1, Zenon
    <3> QED
      BY <3>1
  <2> QED
    BY <2>2, Zenon
<1>6. ASSUME NEW t \in Slots, joined'[t] PROVE joined[t]
  <2>1. joined' = [joined EXCEPT ![s] = FALSE] /\ joined \in [Slots -> BOOLEAN]
    BY DEF IInv, TypeOK, Kick
  <2>2. joined'[t] = IF t = s THEN FALSE ELSE joined[t]
    BY <2>1
  <2> QED
    BY <1>6, <2>2, Zenon
<1>3. MemberMatchesStatus' /\ ClaimBacked' /\ NoOrphanPolicies'
  BY <1>1, <1>2 DEF IInv, MemberMatchesStatus, ClaimBacked, NoOrphanPolicies, HasRow
<1>4. OneCurrentMember'
  <2> SUFFICES ASSUME NEW i \in Invitations, member'[i] \in {"provisioning", "active"}
               PROVE  /\ ~joined'[SlotOf[i]]
                      /\ \A j \in Invitations : j # i /\ SlotOf[j] = SlotOf[i] =>
                                                 member'[j] \notin {"provisioning", "active"}
    BY DEF OneCurrentMember
  <2>1. member[i] \in {"provisioning", "active"}
    BY <1>2
  <2>2. ~joined[SlotOf[i]] /\ SlotOf[i] \in Slots
    BY <2>1 DEF IInv, OneCurrentMember
  <2>3. ~joined'[SlotOf[i]]
    BY <1>6, <2>2, Zenon
  <2>4. \A j \in Invitations : j # i /\ SlotOf[j] = SlotOf[i] =>
                               member'[j] \notin {"provisioning", "active"}
    BY <1>2, <2>1 DEF IInv, OneCurrentMember
  <2> QED
    BY <2>3, <2>4
<1>5. /\ RequestState' /\ ClaimsUnique' /\ Ownership' /\ FirstAttemptClean' /\ AcceptedHasRoles'
      /\ SupersededOnlyAfterLease' /\ StartedInWindow'
  BY <1>1 DEF IInv, RequestState, ClaimsUnique, Ownership, FirstAttemptClean, AcceptedHasRoles,
              SupersededOnlyAfterLease, StartedInWindow, HasRow, OwnsRow, Working, Required
<1> QED
  BY <1>3, <1>4, <1>5 DEF IInv

LEMMA ApproveApplicationInv ==
  ASSUME IInv, TypeOK', NEW s \in Slots, ApproveApplication(s)
  PROVE  IInv'
<1>1. /\ now' = now /\ status' = status /\ window' = window /\ acceptance' = acceptance
      /\ member' = member /\ pc' = pc /\ inv' = inv /\ at' = at /\ claim' = claim
      /\ recovery' = recovery /\ sent' = sent /\ policies' = policies /\ late' = late
  BY DEF ApproveApplication, casbin, handler, locals
<1>2. OneCurrentMember'
  <2>1. \A t \in Slots \ {s} : joined'[t] = joined[t]
    BY DEF IInv, TypeOK, ApproveApplication
  <2>2. \A i \in Invitations : SlotOf[i] = s => member[i] \notin {"provisioning", "active"}
    BY DEF ApproveApplication, CurrentMember
  <2> QED
    BY <1>1, <2>1, <2>2 DEF IInv, OneCurrentMember
<1>3. /\ RequestState' /\ ClaimsUnique' /\ Ownership' /\ FirstAttemptClean' /\ AcceptedHasRoles'
      /\ SupersededOnlyAfterLease' /\ StartedInWindow' /\ MemberMatchesStatus' /\ ClaimBacked'
      /\ NoOrphanPolicies'
  BY <1>1 DEF IInv, RequestState, ClaimsUnique, Ownership, FirstAttemptClean, AcceptedHasRoles,
              SupersededOnlyAfterLease, StartedInWindow, MemberMatchesStatus, ClaimBacked,
              NoOrphanPolicies, HasRow, OwnsRow, Working, Required
<1> QED
  BY <1>2, <1>3 DEF IInv

LEMMA StutterInv ==
  ASSUME IInv, UNCHANGED vars
  PROVE  IInv'
<1>1. /\ now' = now /\ status' = status /\ window' = window /\ acceptance' = acceptance
      /\ member' = member /\ joined' = joined /\ pc' = pc /\ inv' = inv /\ at' = at
      /\ claim' = claim /\ recovery' = recovery /\ todo' = todo /\ sent' = sent
      /\ policies' = policies /\ late' = late
  BY DEF vars, database, casbin, handler, locals
<1>2. TypeOK'
  BY <1>1 DEF IInv, TypeOK
<1>3. RequestState' /\ ClaimsUnique'
  BY <1>1 DEF IInv, RequestState, ClaimsUnique, HasRow, Working, Required
<1>4. Ownership' /\ FirstAttemptClean' /\ SupersededOnlyAfterLease'
  BY <1>1 DEF IInv, Ownership, FirstAttemptClean, SupersededOnlyAfterLease, HasRow, OwnsRow, Working
<1>5. MemberMatchesStatus' /\ ClaimBacked' /\ NoOrphanPolicies' /\ StartedInWindow'
  BY <1>1 DEF IInv, MemberMatchesStatus, ClaimBacked, NoOrphanPolicies, StartedInWindow, HasRow
<1>6. OneCurrentMember' /\ AcceptedHasRoles'
  BY <1>1 DEF IInv, OneCurrentMember, AcceptedHasRoles, Required
<1> QED
  BY <1>2, <1>3, <1>4, <1>5, <1>6 DEF IInv

-----------------------------------------------------------------------------
(* The theorems. *)

LEMMA InvStep == IInv /\ [Next]_vars => IInv'
<1> SUFFICES ASSUME IInv, [Next]_vars PROVE IInv'
  OBVIOUS
<1>1. TypeOK'
  BY TypeStep DEF IInv
<1>2. CASE UNCHANGED vars
  BY <1>2, StutterInv
<1>3. CASE Tick
  BY <1>1, <1>3, TickInv
<1>4. ASSUME NEW i \in Invitations, Invite(i) \/ DeliverLate(i) PROVE IInv'
  BY <1>1, <1>4, InviteInv, DeliverLateInv
<1>5. ASSUME NEW s \in Slots, Kick(s) \/ ApproveApplication(s) PROVE IInv'
  BY <1>1, <1>5, KickInv, ApproveApplicationInv
<1>6. ASSUME NEW w \in Workers, NEW i \in Invitations, BeginAccept(w, i) PROVE IInv'
  BY <1>1, <1>6, BeginAcceptInv
<1>7. ASSUME NEW w \in Workers, Advance(w) PROVE IInv'
  BY <1>1, <1>7, ClaimAcceptanceInv, ClaimRejectedInv, TakeSnapshotInv, AddPolicyInv,
     VerifyRolesInv, VerifyFailsInv, CompleteAcceptanceInv, CompleteFailsInv,
     ReleaseAcceptanceInv, AbortAcceptanceInv DEF Advance
<1>8. ASSUME NEW w \in Workers, Fault(w) PROVE IInv'
  BY <1>1, <1>8, SnapshotFailsInv, AddPolicyFailsInv, AddPolicyIgnoredInv, ContextDoneInv,
     CrashInv DEF Fault
<1> QED
  BY <1>2, <1>3, <1>4, <1>5, <1>6, <1>7, <1>8 DEF Next

\* Every reachable state has the declared types.
THEOREM TypeCorrect == Spec => []TypeOK
<1>1. Init => TypeOK
  BY InitInv DEF IInv
<1> QED
  BY <1>1, TypeStep, PTL DEF Spec

\* The inductive invariant holds in every reachable state.
THEOREM InductiveInvariant == Spec => []IInv
  BY InitInv, InvStep, PTL DEF Spec

\* Claim rows and provisioning memberships come and go together.
THEOREM ClaimsAreBacked == Spec => []ClaimBacked
<1>1. IInv => ClaimBacked
  BY DEF IInv
<1> QED
  BY <1>1, InductiveInvariant, PTL

\* No acceptance starts outside the validity window, whenever it is recovered.
THEOREM WindowKept == Spec => []StartedInWindow
<1>1. IInv => StartedInWindow
  BY DEF IInv
<1> QED
  BY <1>1, InductiveInvariant, PTL

\* No Casbin edge outlives or precedes the membership it names, whatever
\* crashes, superseded attempts and late calls there are.
THEOREM PoliciesNeverOrphaned == Spec => []NoOrphanPolicies
<1>1. IInv => NoOrphanPolicies
  BY DEF IInv
<1> QED
  BY <1>1, InductiveInvariant, PTL

\* An accepted invitation has its whole bundle in Casbin.
THEOREM AcceptanceGivesRoles == Spec => []AcceptedHasRoles
<1>1. IInv => AcceptedHasRoles
  BY DEF IInv
<1> QED
  BY <1>1, InductiveInvariant, PTL

\* A claim is taken from a request only after the lease it asked for.
THEOREM LeaseFences == Spec => []SupersededOnlyAfterLease
<1>1. IInv => SupersededOnlyAfterLease
  BY DEF IInv
<1> QED
  BY <1>1, InductiveInvariant, PTL

LEMMA EarlyAccess == IInv => NoEarlyAccess
<1> SUFFICES ASSUME IInv, NEW i \in Invitations, Effective(i) # {}
             PROVE  status[i] = "accepted"
  BY DEF NoEarlyAccess
<1>1. UserEdge \in policies[i] /\ ActiveMember(SlotOf[i])
  BY DEF Effective
<1>2. member[i] # "absent"
  BY <1>1 DEF IInv, NoOrphanPolicies
<1>3. member[i] # "provisioning"
  BY <1>1 DEF IInv, OneCurrentMember, ActiveMember
<1>4. member[i] \in {"active", "left"}
  BY <1>2, <1>3 DEF IInv, TypeOK
<1> QED
  BY <1>4 DEF IInv, MemberMatchesStatus

\* The hard gate: no invited role is effective before its invitation is
\* accepted, since an unfinished acceptance holds the pair's one current row.
THEOREM HardGate == Spec => []NoEarlyAccess
  BY EarlyAccess, InductiveInvariant, PTL

-----------------------------------------------------------------------------
(***************************************************************************)
(* The saga implements AcceptancePromise: whatever the two stores, the     *)
(* leases and the faults do, what a user sees is one atomic acceptance.    *)
(* The inductive invariant gives the mapping a closed form                 *)
(* (EffectiveMatches): an invitation's roles are effective exactly when it *)
(* is accepted and its pair has an active membership.  So every step that  *)
(* changes neither is invisible, however many Casbin edges it adds.        *)
(***************************************************************************)

\* Casbin never holds, is never about to receive, and no request ever means to
\* add an edge outside the bundle of the invitation.
InvitedEdges ==
  /\ \A i \in Invitations : policies[i] \union late[i] \subseteq Required(i)
  /\ \A w \in Workers : pc[w] = "add" => todo[w] \subseteq Required(inv[w])

LEMMA InitEdges == Init => InvitedEdges
  BY DEF Init, InvitedEdges

\* A step that moves no request to "add" and touches no edge keeps InvitedEdges.
LEMMA EdgesKept ==
  ASSUME InvitedEdges, UNCHANGED casbin,
         \A w \in Workers : pc'[w] = "add" =>
           pc[w] = "add" /\ inv'[w] = inv[w] /\ todo'[w] \subseteq todo[w]
  PROVE  InvitedEdges'
  BY DEF InvitedEdges, casbin, Required

LEMMA EdgesStep == TypeOK /\ InvitedEdges /\ [Next]_vars => InvitedEdges'
<1> SUFFICES ASSUME TypeOK, InvitedEdges, [Next]_vars PROVE InvitedEdges'
  OBVIOUS
<1>1. CASE UNCHANGED vars
  BY <1>1, EdgesKept DEF vars, casbin, handler, locals
<1>2. CASE Tick
  BY <1>2, EdgesKept DEF Tick, casbin, handler, locals
<1>3. ASSUME NEW i \in Invitations, Invite(i) PROVE InvitedEdges'
  BY <1>3, EdgesKept DEF Invite, casbin, handler, locals
<1>4. ASSUME NEW i \in Invitations, DeliverLate(i) PROVE InvitedEdges'
  BY <1>4 DEF DeliverLate, InvitedEdges, TypeOK, Required, handler, locals
<1>5. ASSUME NEW s \in Slots, Kick(s) \/ ApproveApplication(s) PROVE InvitedEdges'
  BY <1>5, EdgesKept DEF Kick, ApproveApplication, casbin, handler, locals
<1>6. ASSUME NEW w \in Workers, NEW i \in Invitations, BeginAccept(w, i) PROVE InvitedEdges'
  <2>1. \A v \in Workers : pc'[v] = "add" => pc[v] = "add" /\ inv'[v] = inv[v] /\ todo'[v] = todo[v]
    BY <1>6 DEF BeginAccept, TypeOK
  <2> QED
    BY <1>6, <2>1, EdgesKept DEF BeginAccept
<1>7. ASSUME NEW w \in Workers, Advance(w) PROVE InvitedEdges'
  <2>1. CASE ClaimAcceptance(w)
    <3>1. \A v \in Workers : pc'[v] = "add" => pc[v] = "add" /\ inv'[v] = inv[v] /\ todo'[v] = todo[v]
      BY <2>1 DEF ClaimAcceptance, TypeOK
    <3> QED
      BY <2>1, <3>1, EdgesKept DEF ClaimAcceptance
  <2>2. CASE \/ ClaimRejected(w) \/ CompleteAcceptance(w) \/ ReleaseAcceptance(w)
             \/ AbortAcceptance(w)
    <3>1. Finish(w) /\ UNCHANGED casbin
      BY <2>2 DEF ClaimRejected, CompleteAcceptance, ReleaseAcceptance, AbortAcceptance
    <3>2. \A v \in Workers : pc'[v] = "add" => pc[v] = "add" /\ inv'[v] = inv[v] /\ todo'[v] = todo[v]
      BY <3>1 DEF Finish, TypeOK
    <3> QED
      BY <3>1, <3>2, EdgesKept
  <2>3. CASE VerifyRoles(w) \/ VerifyFails(w) \/ CompleteFails(w)
    <3>1. /\ UNCHANGED casbin /\ UNCHANGED locals
          /\ \E place \in {"complete", "release", "abort"} : pc' = [pc EXCEPT ![w] = place]
      BY <2>3 DEF VerifyRoles, VerifyFails, CompleteFails, Goto, AfterSyncError
    <3>2. \A v \in Workers : pc'[v] = "add" => pc[v] = "add" /\ inv'[v] = inv[v] /\ todo'[v] = todo[v]
      BY <3>1 DEF locals, TypeOK
    <3> QED
      BY <3>1, <3>2, EdgesKept
  <2>4. CASE TakeSnapshot(w)
    <3>1. \A v \in Workers : inv'[v] = inv[v] /\ (v # w => pc'[v] = pc[v] /\ todo'[v] = todo[v])
      BY <2>4 DEF TakeSnapshot, TypeOK
    <3>2. todo'[w] \subseteq Required(inv[w])
      BY <2>4 DEF TakeSnapshot, TypeOK
    <3> QED
      BY <2>4, <3>1, <3>2 DEF TakeSnapshot, InvitedEdges, casbin, Required
  <2>5. CASE AddPolicy(w)
    <3>1. pc[w] = "add" /\ inv[w] \in Invitations
      BY <2>5 DEF AddPolicy, TypeOK
    <3>2. PICK e \in NextEdges(todo[w]) :
            /\ policies' = [policies EXCEPT ![inv[w]] = @ \union {e}]
            /\ todo' = [todo EXCEPT ![w] = @ \ {e}]
      BY <2>5 DEF AddPolicy
    <3>3. e \in Required(inv[w])
      BY <3>1, <3>2 DEF NextEdges, InvitedEdges
    <3>4. \A v \in Workers : todo'[v] \subseteq todo[v]
      BY <3>2 DEF TypeOK
    <3>5. \A i \in Invitations : policies'[i] \subseteq Required(i)
      BY <3>2, <3>3 DEF InvitedEdges, TypeOK
    <3> QED
      BY <2>5, <3>4, <3>5 DEF AddPolicy, InvitedEdges, Required
  <2> QED
    BY <1>7, <2>1, <2>2, <2>3, <2>4, <2>5 DEF Advance
<1>8. ASSUME NEW w \in Workers, Fault(w) PROVE InvitedEdges'
  <2>1. CASE SnapshotFails(w) \/ ContextDone(w)
    <3>1. /\ UNCHANGED casbin /\ UNCHANGED locals
          /\ \E place \in {"release", "abort"} : pc' = [pc EXCEPT ![w] = place]
      BY <2>1 DEF SnapshotFails, ContextDone, Goto, AfterSyncError
    <3>2. \A v \in Workers : pc'[v] = "add" => pc[v] = "add" /\ inv'[v] = inv[v] /\ todo'[v] = todo[v]
      BY <3>1 DEF locals, TypeOK
    <3> QED
      BY <3>1, <3>2, EdgesKept
  <2>2. CASE AddPolicyFails(w)
    <3>1. pc[w] = "add" /\ inv[w] \in Invitations /\ pc' = [pc EXCEPT ![w] = "release"]
            /\ inv' = inv /\ todo' = todo
      BY <2>2 DEF AddPolicyFails, TypeOK
    <3>2. PICK e \in NextEdges(todo[w]) :
            \/ policies' = [policies EXCEPT ![inv[w]] = @ \union {e}] /\ late' = late
            \/ late' = [late EXCEPT ![inv[w]] = @ \union {e}] /\ policies' = policies
            \/ late' = late /\ policies' = policies
      BY <2>2 DEF AddPolicyFails, casbin
    <3>3. e \in Required(inv[w])
      BY <3>1, <3>2 DEF NextEdges, InvitedEdges
    <3>4. \A i \in Invitations : policies'[i] \union late'[i] \subseteq Required(i)
      <4>1. \A i \in Invitations : policies'[i] \subseteq policies[i] \union (IF i = inv[w] THEN {e} ELSE {})
        BY <3>1, <3>2 DEF TypeOK
      <4>2. \A i \in Invitations : late'[i] \subseteq late[i] \union (IF i = inv[w] THEN {e} ELSE {})
        BY <3>1, <3>2 DEF TypeOK
      <4> QED
        BY <3>3, <4>1, <4>2 DEF InvitedEdges
    <3>5. \A v \in Workers : pc'[v] = "add" => pc[v] = "add"
      BY <3>1 DEF TypeOK
    <3> QED
      BY <3>1, <3>4, <3>5 DEF InvitedEdges, Required
  <2>3. CASE AddPolicyIgnored(w)
    <3>1. \A v \in Workers : todo'[v] \subseteq todo[v]
      BY <2>3 DEF AddPolicyIgnored, TypeOK
    <3> QED
      BY <2>3, <3>1, EdgesKept DEF AddPolicyIgnored
  <2>4. CASE Crash(w)
    <3>1. \A v \in Workers : pc'[v] = "add" => pc[v] = "add" /\ inv'[v] = inv[v] /\ todo'[v] = todo[v]
      BY <2>4 DEF Crash, Finish, TypeOK
    <3> QED
      BY <2>4, <3>1, EdgesKept DEF Crash
  <2> QED
    BY <1>8, <2>1, <2>2, <2>3, <2>4 DEF Fault
<1> QED
  BY <1>1, <1>2, <1>3, <1>4, <1>5, <1>6, <1>7, <1>8 DEF Next

-----------------------------------------------------------------------------
(* The mapping, and what is invisible through it. *)

EffectiveMatches ==
  \A i \in Invitations :
    Effective(i) = IF status[i] = "accepted" /\ ActiveMember(SlotOf[i]) THEN RolesOf[i] ELSE {}

LEMMA EffectiveRoles == IInv /\ InvitedEdges => EffectiveMatches
<1> SUFFICES ASSUME IInv, InvitedEdges, NEW i \in Invitations
             PROVE  Effective(i) = IF status[i] = "accepted" /\ ActiveMember(SlotOf[i])
                                   THEN RolesOf[i] ELSE {}
  BY DEF EffectiveMatches
<1>1. RolesOf[i] \subseteq Roles /\ UserEdge \notin RolesOf[i]
  BY ConstantsAssumption
<1>2. CASE status[i] = "accepted"
  <2>1. policies[i] = RolesOf[i] \union {UserEdge}
    BY <1>2 DEF IInv, AcceptedHasRoles, InvitedEdges, Required
  <2> QED
    BY <1>1, <1>2, <2>1 DEF Effective
<1>3. CASE status[i] # "accepted"
  BY <1>3, EarlyAccess DEF NoEarlyAccess
<1> QED
  BY <1>2, <1>3

\* Where status and activity stay, the user sees nothing.
LEMMA Invisible ==
  ASSUME EffectiveMatches, EffectiveMatches',
         status' = status, \A s \in Slots : ActiveMember(s)' <=> ActiveMember(s)
  PROVE  UNCHANGED Promise!vars
<1>1. \A i \in Invitations : SlotOf[i] \in Slots
  BY ConstantsAssumption
<1>2. \A i \in Invitations : Effective(i)' = Effective(i)
  BY <1>1 DEF EffectiveMatches
<1>3. {s \in Slots : ActiveMember(s)}' = {s \in Slots : ActiveMember(s)}
  OBVIOUS
<1>4. [i \in Invitations |-> Effective(i)]' = [i \in Invitations |-> Effective(i)]
  BY <1>2
<1> QED
  BY <1>3, <1>4 DEF Promise!vars

\* Only completing, leaving and an approval change who is active.
LEMMA ActivityKept ==
  ASSUME joined' = joined, \A i \in Invitations : member'[i] = "active" <=> member[i] = "active"
  PROVE  \A s \in Slots : ActiveMember(s)' <=> ActiveMember(s)
  BY DEF ActiveMember

LEMMA CompletingAccepts ==
  ASSUME IInv, EffectiveMatches, EffectiveMatches', NEW w \in Workers, CompleteAcceptance(w)
  PROVE  Promise!Next
<1> DEFINE i == inv[w]
<1>1. /\ i \in Invitations /\ SlotOf[i] \in Slots
      /\ status[i] = "pending" /\ member[i] = "provisioning"
      /\ status' = [status EXCEPT ![i] = "accepted"]
      /\ member' = [member EXCEPT ![i] = "active"]
      /\ joined' = joined
      /\ \A j \in Invitations : SlotOf[j] = SlotOf[i] => status[j] # "accepted"
  BY ConstantsAssumption DEF CompleteAcceptance, Completable, IInv, TypeOK
<1> HIDE DEF i
<1>2. ~ActiveMember(SlotOf[i])
  BY <1>1 DEF IInv, OneCurrentMember, ActiveMember
<1>3. \A s \in Slots : ActiveMember(s)' <=> ActiveMember(s) \/ s = SlotOf[i]
  BY <1>1 DEF ActiveMember, IInv, TypeOK
<1>4. {s \in Slots : ActiveMember(s)}' = {s \in Slots : ActiveMember(s)} \union {SlotOf[i]}
  BY <1>1, <1>3
<1>5. \A j \in Invitations : Effective(j)' = IF j = i THEN RolesOf[i] ELSE Effective(j)
  <2> SUFFICES ASSUME NEW j \in Invitations
               PROVE  Effective(j)' = IF j = i THEN RolesOf[i] ELSE Effective(j)
    OBVIOUS
  <2>1. SlotOf[j] \in Slots
    BY ConstantsAssumption
  <2>2. Effective(j) = IF status[j] = "accepted" /\ ActiveMember(SlotOf[j]) THEN RolesOf[j] ELSE {}
    BY DEF EffectiveMatches
  <2>3. Effective(j)' =
          IF status'[j] = "accepted" /\ ActiveMember(SlotOf[j])' THEN RolesOf[j] ELSE {}
    BY DEF EffectiveMatches
  <2>4. status'[j] = IF j = i THEN "accepted" ELSE status[j]
    BY <1>1 DEF IInv, TypeOK
  <2> QED
    BY <1>1, <1>3, <2>1, <2>2, <2>3, <2>4
<1>6. [j \in Invitations |-> Effective(j)]'
        = [[j \in Invitations |-> Effective(j)] EXCEPT ![i] = RolesOf[i]]
  BY <1>1, <1>5
<1>7. Promise!Accept(i)
  BY <1>1, <1>2, <1>4, <1>6 DEF Promise!Accept
<1> QED
  BY <1>1, <1>7 DEF Promise!Next

LEMMA KickLeaves ==
  ASSUME IInv, EffectiveMatches, EffectiveMatches', NEW s \in Slots, Kick(s)
  PROVE  Promise!Next
<1>1. ActiveMember(s) /\ status' = status
  BY DEF Kick
<1>2. \A t \in Slots : ActiveMember(t)' <=> ActiveMember(t) /\ t # s
  BY DEF Kick, ActiveMember, IInv, TypeOK
<1>3. {t \in Slots : ActiveMember(t)}' = {t \in Slots : ActiveMember(t)} \ {s}
  BY <1>2
<1>4. \A j \in Invitations : SlotOf[j] \in Slots
  BY ConstantsAssumption
<1>5. \A j \in Invitations : Effective(j)' = IF SlotOf[j] = s THEN {} ELSE Effective(j)
  BY <1>1, <1>2, <1>4 DEF EffectiveMatches
<1>6. [j \in Invitations |-> Effective(j)]'
        = [j \in Invitations |-> IF SlotOf[j] = s THEN {}
                                 ELSE [k \in Invitations |-> Effective(k)][j]]
  BY <1>5
<1>7. Promise!Leave(s)
  BY <1>1, <1>3, <1>6 DEF Promise!Leave
<1> QED
  BY <1>7 DEF Promise!Next

LEMMA ApprovalReturns ==
  ASSUME IInv, EffectiveMatches, EffectiveMatches', NEW s \in Slots, ApproveApplication(s)
  PROVE  Promise!Next
<1>1. ~ActiveMember(s) /\ status' = status /\ member' = member
        /\ joined' = [joined EXCEPT ![s] = TRUE]
  BY DEF ApproveApplication, CurrentMember, ActiveMember
<1>2. \A t \in Slots : ActiveMember(t)' <=> ActiveMember(t) \/ t = s
  BY <1>1 DEF ActiveMember, IInv, TypeOK
<1>3. {t \in Slots : ActiveMember(t)}' = {t \in Slots : ActiveMember(t)} \union {s}
  BY <1>2
<1>4. \A j \in Invitations : SlotOf[j] \in Slots
  BY ConstantsAssumption
<1>5. \A j \in Invitations :
        Effective(j)' = IF SlotOf[j] = s /\ status[j] = "accepted" THEN RolesOf[j] ELSE Effective(j)
  BY <1>1, <1>2, <1>4 DEF EffectiveMatches
<1>6. [j \in Invitations |-> Effective(j)]'
        = [j \in Invitations |-> IF SlotOf[j] = s /\ status[j] = "accepted" THEN RolesOf[j]
                                 ELSE [k \in Invitations |-> Effective(k)][j]]
  BY <1>5
<1>7. Promise!Return(s)
  BY <1>1, <1>3, <1>6 DEF Promise!Return
<1> QED
  BY <1>7 DEF Promise!Next

LEMMA InviteInvites ==
  ASSUME IInv, EffectiveMatches, EffectiveMatches', NEW i \in Invitations, Invite(i)
  PROVE  Promise!Next
<1>1. /\ status[i] = "none" /\ status' = [status EXCEPT ![i] = "pending"]
      /\ \A j \in Invitations : SlotOf[j] = SlotOf[i] => status[j] # "pending"
      /\ joined' = joined /\ member' = member
  BY DEF Invite
<1>2. \A s \in Slots : ActiveMember(s)' <=> ActiveMember(s)
  BY <1>1, ActivityKept
<1>3. \A j \in Invitations : status'[j] = "accepted" <=> status[j] = "accepted"
  BY <1>1 DEF IInv, TypeOK
<1>4. \A j \in Invitations : SlotOf[j] \in Slots
  BY ConstantsAssumption
<1>5. \A j \in Invitations : Effective(j)' = Effective(j)
  BY <1>2, <1>3, <1>4 DEF EffectiveMatches
<1>6. /\ {s \in Slots : ActiveMember(s)}' = {s \in Slots : ActiveMember(s)}
      /\ [j \in Invitations |-> Effective(j)]' = [j \in Invitations |-> Effective(j)]
  BY <1>2, <1>5
<1>7. Promise!Invite(i)
  BY <1>1, <1>6 DEF Promise!Invite
<1> QED
  BY <1>7 DEF Promise!Next

LEMMA RefinedStep ==
  ASSUME IInv, EffectiveMatches, EffectiveMatches', [Next]_vars
  PROVE  [Promise!Next]_(Promise!vars)
<1>1. CASE UNCHANGED vars
  BY <1>1, ActivityKept, Invisible DEF vars, database
<1>2. CASE Tick
  BY <1>2, ActivityKept, Invisible DEF Tick, database
<1>3. ASSUME NEW i \in Invitations, Invite(i) PROVE Promise!Next
  BY <1>3, InviteInvites
<1>4. ASSUME NEW i \in Invitations, DeliverLate(i) PROVE UNCHANGED Promise!vars
  BY <1>4, ActivityKept, Invisible DEF DeliverLate, database
<1>5. ASSUME NEW s \in Slots, Kick(s) \/ ApproveApplication(s) PROVE Promise!Next
  BY <1>5, KickLeaves, ApprovalReturns
<1>6. ASSUME NEW w \in Workers, NEW i \in Invitations, BeginAccept(w, i)
      PROVE  UNCHANGED Promise!vars
  BY <1>6, ActivityKept, Invisible DEF BeginAccept, database
<1>7. ASSUME NEW w \in Workers, Advance(w) PROVE Promise!Next \/ UNCHANGED Promise!vars
  <2>1. CASE CompleteAcceptance(w)
    BY <2>1, CompletingAccepts
  <2>2. CASE ClaimAcceptance(w)
    <3>1. status' = status /\ joined' = joined /\ member' = [member EXCEPT ![inv[w]] = "provisioning"]
      BY <2>2 DEF ClaimAcceptance
    <3>2. inv[w] \in Invitations /\ member[inv[w]] # "active"
      BY <2>2 DEF ClaimAcceptance, MembershipClaimable, IInv, TypeOK
    <3>3. \A i \in Invitations : member'[i] = "active" <=> member[i] = "active"
      BY <3>1, <3>2 DEF IInv, TypeOK
    <3> QED
      BY <3>1, <3>3, ActivityKept, Invisible
  <2>3. CASE AbortAcceptance(w)
    <3>1. status' = status /\ joined' = joined
      BY <2>3 DEF AbortAcceptance
    <3>2. \A i \in Invitations : member'[i] = "active" <=> member[i] = "active"
      BY <2>3 DEF AbortAcceptance, IInv, TypeOK
    <3> QED
      BY <3>1, <3>2, ActivityKept, Invisible
  <2>4. CASE \/ ClaimRejected(w) \/ TakeSnapshot(w) \/ AddPolicy(w) \/ VerifyRoles(w)
             \/ VerifyFails(w) \/ CompleteFails(w) \/ ReleaseAcceptance(w)
    <3>1. status' = status /\ joined' = joined /\ member' = member
      BY <2>4 DEF ClaimRejected, TakeSnapshot, AddPolicy, VerifyRoles, VerifyFails, CompleteFails,
                 ReleaseAcceptance, database
    <3> QED
      BY <3>1, ActivityKept, Invisible
  <2> QED
    BY <1>7, <2>1, <2>2, <2>3, <2>4 DEF Advance
<1>8. ASSUME NEW w \in Workers, Fault(w) PROVE UNCHANGED Promise!vars
  <2>1. status' = status /\ joined' = joined /\ member' = member
    BY <1>8 DEF Fault, SnapshotFails, AddPolicyFails, AddPolicyIgnored, ContextDone, Crash, database
  <2> QED
    BY <2>1, ActivityKept, Invisible
<1> QED
  BY <1>1, <1>2, <1>3, <1>4, <1>5, <1>6, <1>7, <1>8 DEF Next

LEMMA RefinedInit == Init => Promise!Init
<1> SUFFICES ASSUME Init PROVE Promise!Init
  OBVIOUS
<1>1. \A i \in Invitations : Effective(i) = {}
  BY DEF Init, Effective
<1> QED
  BY <1>1 DEF Init, Promise!Init

\* The acceptance of an invitation, two stores, crashes, superseded attempts and
\* late calls included, implements the one atomic event of AcceptancePromise.
THEOREM AcceptanceRefines == Spec => AcceptanceIsAtomic
<1>1. Init => InvitedEdges
  BY InitEdges
<1>2. IInv /\ InvitedEdges /\ [Next]_vars => InvitedEdges'
  BY EdgesStep DEF IInv
<1>3. IInv /\ EffectiveMatches /\ EffectiveMatches' /\ [Next]_vars
        => [Promise!Next]_(Promise!vars)
  BY RefinedStep
<1>4. Spec => [](IInv /\ InvitedEdges)
  BY <1>1, <1>2, InductiveInvariant, PTL DEF Spec
<1>5. Spec => []EffectiveMatches
  BY <1>4, EffectiveRoles, PTL
<1> QED
  BY <1>3, <1>5, InductiveInvariant, RefinedInit, PTL DEF Spec, AcceptanceIsAtomic, Promise!Spec

================================================================================
