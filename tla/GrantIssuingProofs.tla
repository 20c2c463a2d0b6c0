--------------------------- MODULE GrantIssuingProofs ---------------------------
(***************************************************************************)
(* For any organizations, items, plans, bundles and requests, and however  *)
(* memberships and ownership change between two questions: grants are      *)
(* issued within means, and issued and revoked by members.  The argument   *)
(* is that an answer, once given, is a moment of the request, and that     *)
(* nothing is written before all questions are answered.                   *)
(***************************************************************************)
EXTENDS GrantIssuing, QuotaTablesProofs

-----------------------------------------------------------------------------
(* Applications: at most one pending per organization, and final reviews,   *)
(* each paid with one unit.                                                 *)

\* An id has a row only once its request is over: Authorize, which still
\* chooses the organization, never moves an existing application.
RowsAreMadeLast ==
  \A op \in Ops :
    /\ pc[op] # "over" => application[op] = "none"
    /\ pc[op] # "new" => of[op] \in Organizations

ReviewsInv == RowsTypeOK /\ RowsAreMadeLast /\ OnePending /\ ReviewIsFinal

rows == <<application, membership, audit>>

\* Steps of requests that make no row yet.
LEMMA RequestStep ==
  ASSUME NEW op \in Ops, NEW to \in {"authorized", "not_member", "not_pending", "over"},
         ReviewsInv, pc[op] # "over", pc' = [pc EXCEPT ![op] = to], UNCHANGED <<rows, invited>>,
         of' \in [Ops -> Organizations \union {NoOrganization}], of'[op] \in Organizations,
         \A p \in Ops : p # op => of'[p] = of[p]
  PROVE  ReviewsInv'
<1>1. RowsTypeOK'
  BY DEF ReviewsInv, RowsTypeOK, rows
<1>2. application[op] = "none" /\ membership[op] = "absent"
  BY DEF ReviewsInv, RowsTypeOK, RowsAreMadeLast, ReviewIsFinal
<1>3. RowsAreMadeLast'
  BY <1>2 DEF ReviewsInv, RowsTypeOK, RowsAreMadeLast, rows
<1>4. OnePending'
  BY <1>2 DEF ReviewsInv, OnePending, rows
<1>5. ReviewIsFinal'
  BY <1>2 DEF ReviewsInv, ReviewIsFinal, rows
<1> QED BY <1>1, <1>3, <1>4, <1>5 DEF ReviewsInv

\* The index admits the row only when the organization has no pending one.
LEMMA CreatePreserves ==
  ASSUME NEW op \in Ops, ReviewsInv, CreateApplication(op)
  PROVE  ReviewsInv'
<1>1. /\ application[op] = "none" /\ pc[op] = "not_pending"
      /\ pc' = [pc EXCEPT ![op] = "over"]
      /\ application' = [application EXCEPT ![op] = "pending"]
      /\ UNCHANGED <<of, membership, invited, audit>>
  BY DEF ReviewsInv, RowsAreMadeLast, CreateApplication, Step
<1>2. \A p \in Ops : of[p] = of[op] => application[p] # "pending"
  BY DEF CreateApplication, IndexAdmits, HasPending
<1>3. RowsTypeOK'
  BY <1>1 DEF ReviewsInv, RowsTypeOK
<1>4. RowsAreMadeLast'
  <2>1. of[op] \in Organizations
    BY <1>1 DEF ReviewsInv, RowsAreMadeLast
  <2>2. \A p \in Ops : p # op => pc'[p] = pc[p] /\ application'[p] = application[p]
    BY <1>1 DEF ReviewsInv, RowsTypeOK
  <2>3. pc'[op] = "over" /\ UNCHANGED of
    BY <1>1 DEF ReviewsInv, RowsTypeOK
  <2> QED
    BY <2>1, <2>2, <2>3 DEF ReviewsInv, RowsAreMadeLast
<1>5. OnePending'
  BY <1>1, <1>2 DEF ReviewsInv, RowsTypeOK, OnePending
<1>6. ReviewIsFinal'
  BY <1>1 DEF ReviewsInv, RowsTypeOK, ReviewIsFinal
<1> QED BY <1>3, <1>4, <1>5, <1>6 DEF ReviewsInv

\* A review, with what it does to the membership rows.
LEMMA ReviewPreserves ==
  ASSUME NEW op \in Ops, NEW status \in {"approved", "rejected"},
         ReviewsInv, Reviewable(op), status = "approved" => ~CurrentMember(of[op]), Review(op, status),
         membership' = IF status = "approved" THEN [membership EXCEPT ![op] = "active"] ELSE membership
  PROVE  ReviewsInv'
<1>1. /\ application[op] = "pending" /\ audit[op] = 0 /\ membership[op] = "absent"
  BY DEF ReviewsInv, RowsTypeOK, ReviewIsFinal, Reviewable
<1>2. /\ application' = [application EXCEPT ![op] = status]
      /\ audit' = [audit EXCEPT ![op] = @ + 1]
      /\ UNCHANGED <<of, invited, pc>>
  BY DEF Review
<1>3. RowsTypeOK'
  BY <1>1, <1>2 DEF ReviewsInv, RowsTypeOK
<1>4. RowsAreMadeLast'
  BY <1>1, <1>2 DEF ReviewsInv, RowsTypeOK, RowsAreMadeLast
<1>5. OnePending'
  BY <1>2 DEF ReviewsInv, RowsTypeOK, OnePending
<1>6. ASSUME status = "approved"
      PROVE  /\ invited[of[op]] = "none"
             /\ \A p \in Ops : of[p] = of[op] => membership[p] # "active"
  <2>1. of[op] \in Organizations
    BY <1>1 DEF ReviewsInv, RowsAreMadeLast
  <2> QED
    BY <1>6, <2>1 DEF CurrentMember, ActiveMember, ReviewsInv, RowsTypeOK
<1>7. ReviewIsFinal'
  BY <1>1, <1>2, <1>6 DEF ReviewsInv, RowsTypeOK, ReviewIsFinal
<1> QED BY <1>3, <1>4, <1>5, <1>7 DEF ReviewsInv

\* Invitations and ended memberships; only Kick touches rows made by approvals,
\* and it leaves them there.
LEMMA OthersPreserve ==
  ASSUME NEW o \in Organizations, ReviewsInv, ClaimInvitation(o) \/ EndClaim(o) \/ Kick(o)
  PROVE  ReviewsInv'
<1>1. /\ UNCHANGED <<application, of, pc, audit>>
      /\ invited' \in [Organizations -> {"none", "provisioning", "active"}]
  BY DEF ReviewsInv, RowsTypeOK, ClaimInvitation, EndClaim, Kick
<1>2. /\ membership' \in [Ops -> {"absent", "active", "left"}]
      /\ \A op \in Ops : membership'[op] = "absent" <=> membership[op] = "absent"
  BY DEF ReviewsInv, RowsTypeOK, ClaimInvitation, EndClaim, Kick
<1>3. RowsTypeOK'
  BY <1>1, <1>2 DEF ReviewsInv, RowsTypeOK
<1>4. RowsAreMadeLast' /\ OnePending'
  BY <1>1 DEF ReviewsInv, RowsAreMadeLast, OnePending
<1>5. ASSUME NEW op \in Ops, membership'[op] = "active"
      PROVE  membership[op] = "active" /\ of[op] \in Organizations
  <2>1. membership[op] = "active"
    BY <1>5 DEF ReviewsInv, RowsTypeOK, ClaimInvitation, EndClaim, Kick
  <2>2. application[op] = "approved"
    BY <2>1 DEF ReviewsInv, ReviewIsFinal
  <2> QED
    BY <2>1, <2>2 DEF ReviewsInv, RowsAreMadeLast
<1>6. ASSUME NEW op \in Ops, membership'[op] = "active"
      PROVE  invited'[of[op]] = "none"
  <2>1. invited[of[op]] = "none"
    BY <1>5, <1>6 DEF ReviewsInv, ReviewIsFinal
  <2>2. CASE ClaimInvitation(o) \/ EndClaim(o)
    <3>1. of[op] # o
      BY <1>5, <1>6, <2>1, <2>2 DEF ClaimInvitation, EndClaim, CurrentMember, ActiveMember
    <3> QED
      BY <1>5, <1>6, <2>1, <2>2, <3>1 DEF ClaimInvitation, EndClaim, ReviewsInv, RowsTypeOK
  <2>3. CASE Kick(o)
    BY <1>5, <1>6, <2>1, <2>3 DEF Kick, ReviewsInv, RowsTypeOK
  <2> QED
    BY <2>2, <2>3
<1>7. ReviewIsFinal'
  BY <1>1, <1>2, <1>5, <1>6 DEF ReviewsInv, ReviewIsFinal
<1> QED BY <1>3, <1>4, <1>7 DEF ReviewsInv

LEMMA ReviewsInvInit == Init => ReviewsInv
BY DEF Init, ReviewsInv, RowsTypeOK, RowsAreMadeLast, OnePending, ReviewIsFinal

LEMMA ReviewsInvStep == ReviewsInv /\ [Next]_vars => ReviewsInv'
<1> SUFFICES ASSUME ReviewsInv, [Next]_vars PROVE ReviewsInv'
  OBVIOUS
<1>1. CASE UNCHANGED vars
  BY <1>1 DEF vars, ReviewsInv, RowsTypeOK, RowsAreMadeLast, OnePending, ReviewIsFinal
<1>2. ASSUME NEW op \in Ops, NEW o \in Organizations, Authorize(op, o)
      PROVE  ReviewsInv'
  <2>1. /\ pc[op] # "over" /\ pc' = [pc EXCEPT ![op] = "authorized"]
        /\ of' = [of EXCEPT ![op] = o] /\ UNCHANGED <<rows, invited>>
    BY <1>2 DEF Authorize, Step, rows
  <2>2. /\ of' \in [Ops -> Organizations \union {NoOrganization}]
        /\ \A p \in Ops : p # op => of'[p] = of[p]
    BY <2>1 DEF ReviewsInv, RowsTypeOK
  <2>3. of'[op] \in Organizations
    BY <2>1 DEF ReviewsInv, RowsTypeOK
  <2> QED BY <2>1, <2>2, <2>3, RequestStep
<1>3. ASSUME NEW op \in Ops, CheckMember(op) \/ CheckPending(op) \/ ApplyEnds(op)
      PROVE  ReviewsInv'
  <2>1. /\ pc[op] # "over" /\ UNCHANGED <<rows, invited, of>>
        /\ \E to \in {"not_member", "not_pending", "over"} : pc' = [pc EXCEPT ![op] = to]
    BY <1>3 DEF CheckMember, CheckPending, ApplyEnds, Step, rows
  <2>2. of \in [Ops -> Organizations \union {NoOrganization}]
    BY DEF ReviewsInv, RowsTypeOK
  <2>3. of'[op] \in Organizations
    BY <1>3, <2>1 DEF ReviewsInv, RowsAreMadeLast, CheckMember, CheckPending, ApplyEnds, Step
  <2> QED BY <2>1, <2>2, <2>3, RequestStep
<1>4. ASSUME NEW op \in Ops, Approve(op) \/ Reject(op)
      PROVE  ReviewsInv'
  BY <1>4, ReviewPreserves DEF Approve, Reject
<1> QED
  BY <1>1, <1>2, <1>3, <1>4, CreatePreserves, OthersPreserve DEF Next

\* However many requests find no pending application at the same time, and
\* whatever is reviewed meanwhile, an organization has one pending at most.
THEOREM AtMostOnePending == Spec => []OnePending
<1>1. ReviewsInv => OnePending
  BY DEF ReviewsInv
<1> QED BY <1>1, ReviewsInvInit, ReviewsInvStep, PTL DEF Spec

\* A review is made once and is final: approved applications and no others have
\* a membership row, a reviewed one has exactly one audit row, and no approval
\* makes a second current membership (ReviewApplication, the unique indexes).
THEOREM ReviewsAreFinal == Spec => []ReviewIsFinal
<1>1. ReviewsInv => ReviewIsFinal
  BY DEF ReviewsInv
<1> QED BY <1>1, ReviewsInvInit, ReviewsInvStep, PTL DEF Spec

\* One unit is used for each application; every other step leaves both alone.
Existing == {op \in Ops : application[op] # "none"}

PaidInv == AtRest(db) /\ Total(db.used, Entitlements) = Cardinality(Existing)

LEMMA CreatePays ==
  ASSUME NEW op \in Ops, ReviewsInv, PaidInv, CreateApplication(op)
  PROVE  PaidInv'
<1>1. /\ application[op] = "none"
      /\ application' = [application EXCEPT ![op] = "pending"]
      /\ db' \in ConsumeQuotas(db, op, {}, 1)
  BY DEF ReviewsInv, RowsAreMadeLast, CreateApplication, Step
<1>2. AtRest(db') /\ Total(db'.used, Entitlements) = Total(db.used, Entitlements) + 1
  <2>1. AtRest(db) /\ {} \in SUBSET Grants /\ 1 \in Nat
    BY DEF PaidInv
  <2> QED
    BY <1>1, <2>1, ConsumeTotal
<1>3. Existing' = Existing \union {op} /\ op \notin Existing
  BY <1>1 DEF ReviewsInv, RowsTypeOK, Existing
<1>4. IsFiniteSet(Existing)
  BY TablesAssumption, FS_Subset DEF Existing
<1>5. Cardinality(Existing') = Cardinality(Existing) + 1
  BY <1>3, <1>4, FS_AddElement
<1> QED
  BY <1>2, <1>5 DEF PaidInv

LEMMA PaidInvInit == Init => PaidInv
<1> SUFFICES ASSUME Init PROVE PaidInv
  OBVIOUS
<1>1. Existing = {}
  BY DEF Init, Existing
<1> QED
  BY <1>1, EmptyAtRest, FS_EmptySet DEF Init, PaidInv

LEMMA PaidInvStep == ReviewsInv /\ PaidInv /\ [Next]_vars => PaidInv'
<1> SUFFICES ASSUME ReviewsInv, PaidInv, [Next]_vars PROVE PaidInv'
  OBVIOUS
<1>1. ASSUME NEW op \in Ops, NEW status \in {"approved", "rejected"},
             Reviewable(op), Review(op, status)
      PROVE  UNCHANGED db /\ Existing' = Existing
  BY <1>1 DEF Review, Reviewable, Existing, ReviewsInv, RowsTypeOK
<1>2. ASSUME UNCHANGED db, Existing' = Existing PROVE PaidInv'
  BY <1>2 DEF PaidInv
<1>3. ASSUME NEW op \in Ops, Approve(op) \/ Reject(op) PROVE PaidInv'
  BY <1>1, <1>2, <1>3 DEF Approve, Reject
<1>4. ASSUME UNCHANGED <<application, db>> PROVE PaidInv'
  BY <1>2, <1>4 DEF Existing
<1>5. ASSUME NEW op \in Ops,
             (\E o \in Organizations : Authorize(op, o)) \/ CheckMember(op) \/ CheckPending(op) \/ ApplyEnds(op)
      PROVE  PaidInv'
  BY <1>4, <1>5 DEF Authorize, CheckMember, CheckPending, ApplyEnds
<1>6. ASSUME NEW o \in Organizations, ClaimInvitation(o) \/ EndClaim(o) \/ Kick(o) PROVE PaidInv'
  BY <1>4, <1>6 DEF ClaimInvitation, EndClaim, Kick
<1>7. CASE UNCHANGED vars
  BY <1>4, <1>7 DEF vars
<1> QED
  BY <1>3, <1>5, <1>6, <1>7, CreatePays DEF Next

LEMMA ApplicationsInvariant == Spec => [](ReviewsInv /\ PaidInv)
BY ReviewsInvInit, ReviewsInvStep, PaidInvInit, PaidInvStep, PTL DEF Spec

\* Every application, audit row and unit of quota keeps its type (the membership
\* application tables).
THEOREM ApplicationTypesHold == Spec => []TypeOK
<1>1. ReviewsInv /\ PaidInv => TypeOK
  BY DEF ReviewsInv, PaidInv, AtRest, TypeOK
<1> QED BY <1>1, ApplicationsInvariant, PTL

\* One unit of the applicant's quota for each application, whichever of his
\* requests lose the race for the index, and in any order.
THEOREM ApplicationsArePaid == Spec => []ApplicationsPaid
<1>1. ReviewsInv /\ PaidInv => ApplicationsPaid
  BY DEF PaidInv, Existing, ApplicationsPaid
<1> QED BY <1>1, ApplicationsInvariant, PTL

-----------------------------------------------------------------------------
(* Grants. *)

USE IssuingAssumption

Questionable == {"member", "manager"} \union Items

OpenOrDone ==
  [state : {"open", "done"}, of : Organizations, bundle : Bundles \union {<<>>},
   target : Requests, left : SUBSET Questionable]

IssueTypeOK ==
  /\ request \in [Requests -> {None, Over} \union OpenOrDone]
  /\ grant \in [Requests -> [status : {"none", "active", "revoked"},
                             of : Organizations \union {NoOrganization},
                             content : {{}} \union {Content(b) : b \in Bundles}]]
  /\ seen \in [Requests -> SUBSET Questionable]

\* The questions a request has to have answered.
Due(r) == IF request[r].target = r THEN Questions(request[r].bundle) ELSE RevokeQuestions(r)

RequestInv(r) ==
  request[r] \in OpenOrDone =>
    /\ request[r].left \subseteq Due(r)
    /\ Due(r) \ request[r].left \subseteq seen[r]
    /\ request[r].target = r => request[r].bundle \in Bundles
    /\ request[r].target # r => grant[request[r].target].status # "none"
    /\ Open(r) => Witnessed(r) \subseteq seen[r]
    /\ Done(r) => /\ request[r].left = {}
                  /\ grant[request[r].target].status # "none"
                  /\ grant[request[r].target].of = request[r].of

GrantInv(g) ==
  IF grant[g].status = "none" THEN grant[g].content = {}
  ELSE /\ request[g] \in OpenOrDone /\ Done(g) /\ request[g].target = g
       /\ Manage \notin DOMAIN request[g].bundle
       /\ grant[g].content = Content(request[g].bundle)

IssueInv == IssueTypeOK /\ \A r \in Requests : RequestInv(r) /\ GrantInv(r)

-----------------------------------------------------------------------------
(* The operators. *)

LEMMA QuestionsAreItems ==
  ASSUME NEW b \in Bundles \union {<<>>}
  PROVE  /\ Questions(b) \subseteq {"member", "manager"} \union DOMAIN b
         /\ Questions(b) \subseteq Questionable
         /\ \A i \in DOMAIN b : b[i] = "allow" => i \in Questions(b)
<1>1. DOMAIN b \subseteq Items
  <2>1. CASE b \in Bundles
    BY <2>1
  <2>2. CASE b = <<>>
    BY <2>2
  <2> QED
    BY <2>1, <2>2
<1> QED
  BY <1>1 DEF Questions, Questionable

\* What a bundle allows it asks about, or asks about the plan it comes with.
LEMMA ContentIsAsked ==
  ASSUME NEW b \in Bundles, NEW c \in Content(b)
  PROVE  /\ c[2] = "allow" => c[3] \in Questions(b) /\ <<c[3], "allow", c[3]>> \in Content(b)
         /\ Manage \notin DOMAIN b => c[1] # Manage
<1>1. CASE c \in {<<i, b[i], i>> : i \in DOMAIN b}
  <2>1. PICK i \in DOMAIN b : c = <<i, b[i], i>>
    BY <1>1
  <2>2. c[1] = i /\ c[2] = b[i] /\ c[3] = i
    BY <2>1
  <2> QED
    BY <2>1, <2>2 DEF Questions, Content
<1>2. CASE c \in Materialized(b)
  <2>1. PICK p \in DOMAIN b \intersect Plans :
          c \in {<<i, IF b[p] = "deny" THEN "deny" ELSE Rules[p][i], p>> : i \in DOMAIN Rules[p]}
    BY <1>2 DEF Materialized
  <2>2. PICK i \in DOMAIN Rules[p] : c = <<i, IF b[p] = "deny" THEN "deny" ELSE Rules[p][i], p>>
    BY <2>1
  <2>3. c[1] = i /\ c[3] = p /\ (c[2] = "allow" => b[p] # "deny")
    BY <2>2
  <2>4. b[p] \in {"allow", "deny"}
    BY <2>1 DEF Effects
  <2>5. KindOf[i] \in {"feature", "quota"}
    BY <2>1, <2>2
  <2>6. c[1] # Manage
    BY <2>3, <2>5
  <2>7. b[p] = "allow" => <<p, "allow", p>> \in Content(b)
    BY <2>1 DEF Content
  <2> QED
    BY <2>1, <2>3, <2>4, <2>6, <2>7 DEF Questions
<1> QED
  BY <1>1, <1>2 DEF Content

-----------------------------------------------------------------------------
(* The steps. *)

LEMMA IssueInvInit == IssueInit => IssueInv
<1> SUFFICES ASSUME IssueInit PROVE IssueInv
  OBVIOUS
<1>1. IssueTypeOK
  BY DEF IssueInit, IssueTypeOK, NoGrant
<1>2. \A r \in Requests : request[r] \notin OpenOrDone
  BY DEF IssueInit, None, OpenOrDone
<1> QED
  BY <1>1, <1>2 DEF IssueInit, IssueInv, RequestInv, GrantInv, NoGrant

\* What a step does to the history.
Noticed == seen' = [r \in Requests |-> seen[r] \union Witnessed(r)']

LEMMA NoticedFacts ==
  ASSUME IssueTypeOK, Noticed,
         \A r \in Requests : Open(r)' => request'[r] \in OpenOrDone
  PROVE  /\ seen' \in [Requests -> SUBSET Questionable]
         /\ \A r \in Requests : seen[r] \subseteq seen'[r] /\ Witnessed(r)' \subseteq seen'[r]
<1>1. \A r \in Requests : Witnessed(r)' \subseteq Questionable
  <2> SUFFICES ASSUME NEW r \in Requests, Open(r)'
               PROVE  DOMAIN request'[r].bundle \subseteq Items
    BY DEF Witnessed, Questionable
  <2>1. request'[r].bundle \in Bundles \union {<<>>}
    BY DEF OpenOrDone
  <2>2. CASE request'[r].bundle = <<>>
    BY <2>2
  <2> QED
    BY <2>1, <2>2
<1> QED
  BY <1>1 DEF IssueTypeOK, Noticed

\* One request changes, and no grant: all that has to be shown is about it.
LEMMA RequestChange ==
  ASSUME IssueInv, Noticed, grant' = grant, NEW r \in Requests, ~Done(r),
         NEW new \in {None, Over} \union OpenOrDone, request' = [request EXCEPT ![r] = new],
         new \in OpenOrDone =>
           /\ new.state = "open"
           /\ new.left \subseteq Due(r)'
           /\ Due(r)' \ new.left \subseteq seen[r] \union Witnessed(r)'
           /\ new.target = r => new.bundle \in Bundles
           /\ new.target # r => grant[new.target].status # "none"
  PROVE  IssueInv'
<1>1. \A q \in Requests : request'[q] = IF q = r THEN new ELSE request[q]
  BY DEF IssueInv, IssueTypeOK
<1>2. request' \in [Requests -> {None, Over} \union OpenOrDone]
  BY DEF IssueInv, IssueTypeOK
<1>3. \A q \in Requests : Open(q)' => request'[q] \in OpenOrDone
  BY <1>2 DEF Open, None, Over
<1>4. /\ seen' \in [Requests -> SUBSET Questionable]
      /\ \A q \in Requests : seen[q] \subseteq seen'[q] /\ Witnessed(q)' \subseteq seen'[q]
  BY <1>3, NoticedFacts DEF IssueInv
<1>5. IssueTypeOK'
  BY <1>2, <1>4 DEF IssueInv, IssueTypeOK
<1>6. ASSUME NEW q \in Requests PROVE GrantInv(q)'
  BY <1>1 DEF IssueInv, GrantInv, Done
<1>7. RequestInv(r)'
  BY <1>1, <1>4 DEF RequestInv, Done
<1>8. ASSUME NEW q \in Requests, q # r PROVE RequestInv(q)'
  BY <1>1, <1>4, <1>8 DEF IssueInv, RequestInv, Due, Done, Open
<1> QED
  BY <1>5, <1>6, <1>7, <1>8 DEF IssueInv

\* A request writes: it is over, and its grant is new, or revoked.
LEMMA RequestWrites ==
  ASSUME IssueInv, Noticed, NEW r \in Requests, Open(r), request[r].left = {},
         request' = [request EXCEPT ![r] = [request[r] EXCEPT !.state = "done"]],
         CreateGrant(r) \/ RevokeGrant(r)
  PROVE  IssueInv'
<1> DEFINE g == request[r].target
           new == [request[r] EXCEPT !.state = "done"]
<1>1. request[r] \in OpenOrDone
  BY DEF IssueInv, IssueTypeOK, Open, None, Over
<1>2. /\ new \in OpenOrDone /\ new.state = "done" /\ new.left = {} /\ new.of = request[r].of
      /\ new.target = g /\ new.bundle = request[r].bundle
  BY <1>1 DEF OpenOrDone
<1>3. /\ g \in Requests /\ request[r].of \in Organizations
      /\ g = r => request[r].bundle \in Bundles
      /\ Due(r) \subseteq seen[r]
  BY <1>1 DEF IssueInv, RequestInv, OpenOrDone
<1>4. \A q \in Requests : request'[q] = IF q = r THEN new ELSE request[q]
  BY DEF IssueInv, IssueTypeOK
<1>5. \A q \in Requests : q # g => grant'[q] = grant[q]
  BY <1>3 DEF CreateGrant, RevokeGrant, IssueInv, IssueTypeOK
<1>6. /\ grant'[g].status # "none" /\ grant'[g].of = request[r].of
      /\ grant'[g].content = IF g = r THEN Content(request[r].bundle) ELSE grant[g].content
      /\ g = r => Manage \notin DOMAIN request[r].bundle
      /\ g # r => grant[g].status = "active" /\ grant[g].of = request[r].of
  <2>1. CASE CreateGrant(r)
    BY <1>3, <2>1 DEF CreateGrant, Insertable, IssueInv, IssueTypeOK
  <2>2. CASE RevokeGrant(r)
    BY <1>3, <2>2 DEF RevokeGrant, Revocable, IssueInv, IssueTypeOK
  <2> QED
    BY <2>1, <2>2
<1>7. grant' \in [Requests -> [status : {"none", "active", "revoked"},
                               of : Organizations \union {NoOrganization},
                               content : {{}} \union {Content(b) : b \in Bundles}]]
  <2>1. CASE CreateGrant(r)
    BY <1>3, <2>1 DEF CreateGrant, IssueInv, IssueTypeOK
  <2>2. CASE RevokeGrant(r)
    <3>1. grant' = [grant EXCEPT ![g].status = "revoked"]
      BY <2>2 DEF RevokeGrant
    <3>2. grant[g] \in [status : {"none", "active", "revoked"},
                       of : Organizations \union {NoOrganization},
                       content : {{}} \union {Content(b) : b \in Bundles}]
      BY <1>3 DEF IssueInv, IssueTypeOK
    <3>3. [grant[g] EXCEPT !.status = "revoked"]
            \in [status : {"none", "active", "revoked"},
                of : Organizations \union {NoOrganization},
                content : {{}} \union {Content(b) : b \in Bundles}]
      BY <3>2
    <3> QED
      BY <1>3, <3>1, <3>3 DEF IssueInv, IssueTypeOK
  <2> QED
    BY <2>1, <2>2
<1>8. request' \in [Requests -> {None, Over} \union OpenOrDone]
  BY <1>2 DEF IssueInv, IssueTypeOK
<1>a. g = request[r].target
  OBVIOUS
<1> HIDE DEF g, new
<1>9. \A q \in Requests : Open(q)' => request'[q] \in OpenOrDone
  BY <1>8 DEF Open, None, Over
<1>10. /\ seen' \in [Requests -> SUBSET Questionable]
       /\ \A q \in Requests : seen[q] \subseteq seen'[q] /\ Witnessed(q)' \subseteq seen'[q]
  BY <1>9, NoticedFacts DEF IssueInv
<1>11. IssueTypeOK'
  BY <1>7, <1>8, <1>10 DEF IssueTypeOK
<1>12. \A q \in Requests :
         /\ grant[q].status # "none" => grant'[q].status # "none" /\ grant'[q].of = grant[q].of
         /\ q # r => grant'[q].content = grant[q].content
                     /\ (grant[q].status = "none" <=> grant'[q].status = "none")
  <2>1. g = r => grant[g].status = "none"
    BY <1>3 DEF IssueInv, GrantInv, Done, Open
  <2> QED
    BY <1>3, <1>5, <1>6, <2>1
<1>13. GrantInv(r)'
  <2>1. CASE g = r
    BY <1>2, <1>4, <1>6, <2>1 DEF GrantInv, Done
  <2>2. CASE g # r
    <3>1. grant'[r] = grant[r]
      BY <1>5, <2>2
    <3>2. grant[r].status = "none" /\ grant[r].content = {}
      BY DEF IssueInv, GrantInv, Done, Open
    <3> QED
      BY <3>1, <3>2 DEF GrantInv
  <2> QED
    BY <2>1, <2>2
<1>14. ASSUME NEW q \in Requests, q # r PROVE GrantInv(q)'
  BY <1>4, <1>12, <1>14 DEF IssueInv, GrantInv, Done
<1>15. RequestInv(r)'
  <2>1. request'[r] = new /\ Due(r)' = Due(r)
    BY <1>2, <1>4, <1>a DEF Due, RevokeQuestions
  <2> QED
    BY <1>2, <1>3, <1>6, <1>10, <2>1 DEF RequestInv, Open
<1>16. ASSUME NEW q \in Requests, q # r PROVE RequestInv(q)'
  <2> SUFFICES ASSUME request[q] \in OpenOrDone PROVE RequestInv(q)'
    BY <1>4, <1>16 DEF RequestInv
  <2>1. request'[q] = request[q] /\ Due(q)' = Due(q) /\ request[q].target \in Requests
    BY <1>4, <1>16 DEF Due, RevokeQuestions, OpenOrDone
  <2>2. /\ request[q].left \subseteq Due(q)
        /\ Due(q) \ request[q].left \subseteq seen[q]
        /\ request[q].target = q => request[q].bundle \in Bundles
        /\ request[q].target # q => grant[request[q].target].status # "none"
        /\ Done(q) => /\ request[q].left = {}
                      /\ grant[request[q].target].status # "none"
                      /\ grant[request[q].target].of = request[q].of
    BY <2>1 DEF IssueInv, RequestInv
  <2>3. Done(q)' = Done(q) /\ Due(q)' = Due(q)
    BY <2>1 DEF Done
  <2>4. Done(q)' => /\ request[q].left = {}
                    /\ grant'[request[q].target].status # "none"
                    /\ grant'[request[q].target].of = request[q].of
    BY <1>12, <2>1, <2>2, <2>3
  <2>5. request[q].target # q => grant'[request[q].target].status # "none"
    BY <1>12, <2>1, <2>2
  <2>6. Due(q)' \ request[q].left \subseteq seen'[q]
    BY <1>10, <2>2, <2>3
  <2>7. Open(q)' => Witnessed(q)' \subseteq seen'[q]
    BY <1>10
  <2> QED
    BY <2>1, <2>2, <2>3, <2>4, <2>5, <2>6, <2>7 DEF RequestInv
<1> QED
  BY <1>11, <1>13, <1>14, <1>15, <1>16 DEF IssueInv

\* Nothing of the requests changes, but what is true may.
LEMMA WorldChange ==
  ASSUME IssueInv, Noticed, request' = request, grant' = grant
  PROVE  IssueInv'
<1>1. \A q \in Requests : Open(q)' => request'[q] \in OpenOrDone
  BY DEF IssueInv, IssueTypeOK, Open, None, Over
<1>2. /\ seen' \in [Requests -> SUBSET Questionable]
      /\ \A q \in Requests : seen[q] \subseteq seen'[q] /\ Witnessed(q)' \subseteq seen'[q]
  BY <1>1, NoticedFacts DEF IssueInv
<1>3. IssueTypeOK'
  BY <1>2 DEF IssueInv, IssueTypeOK
<1>4. ASSUME NEW q \in Requests PROVE RequestInv(q)' /\ GrantInv(q)'
  BY <1>2 DEF IssueInv, RequestInv, GrantInv, Due, Done, Open
<1> QED
  BY <1>3, <1>4 DEF IssueInv

LEMMA AskingInv ==
  ASSUME IssueInv, Noticed, NEW r \in Requests, NEW o \in Organizations,
         \/ \E b \in Bundles : AskToIssue(r, o, b)
         \/ \E g \in Requests : AskToRevoke(r, o, g)
  PROVE  IssueInv'
<1>1. ~Done(r)
  <2>1. request[r] = None
    BY DEF AskToIssue, AskToRevoke
  <2> QED
    BY <2>1 DEF Done, None
<1>2. ASSUME NEW b \in Bundles, AskToIssue(r, o, b) PROVE IssueInv'
  <2> DEFINE new == [state |-> "open", of |-> o, bundle |-> b, target |-> r, left |-> Questions(b)]
  <2>1. request' = [request EXCEPT ![r] = new] /\ grant' = grant
    BY <1>2 DEF AskToIssue, Become
  <2>2. new \in OpenOrDone
    BY QuestionsAreItems DEF OpenOrDone
  <2>3. request'[r] = new
    BY <2>1 DEF IssueInv, IssueTypeOK
  <2>4. Due(r)' = Questions(b)
    BY <2>3 DEF Due
  <2>5. /\ new.state = "open" /\ new.left = Due(r)' /\ new.target = r /\ new.bundle \in Bundles
    BY <2>4
  <2> HIDE DEF new
  <2> QED
    BY <1>1, <2>1, <2>2, <2>5, RequestChange
<1>3. ASSUME NEW g \in Requests, AskToRevoke(r, o, g) PROVE IssueInv'
  <2> DEFINE new == [state |-> "open", of |-> o, bundle |-> <<>>, target |-> g,
                     left |-> RevokeQuestions(r)]
  <2>1. request' = [request EXCEPT ![r] = new] /\ grant' = grant /\ g # r /\ grant[g].status # "none"
    BY <1>3 DEF AskToRevoke, Become
  <2>2. new \in OpenOrDone
    BY DEF OpenOrDone, RevokeQuestions, Questionable
  <2>3. request'[r] = new
    BY <2>1 DEF IssueInv, IssueTypeOK
  <2>4. Due(r)' = RevokeQuestions(r)
    BY <2>1, <2>3 DEF Due, RevokeQuestions
  <2>5. /\ new.state = "open" /\ new.left = Due(r)' /\ new.target = g
    BY <2>4
  <2> HIDE DEF new
  <2> QED
    BY <1>1, <2>1, <2>2, <2>5, RequestChange
<1> QED
  BY <1>2, <1>3

LEMMA AnswerYesInv ==
  ASSUME IssueInv, Noticed, NEW r \in Requests, AnswerYes(r)
  PROVE  IssueInv'
<1> DEFINE now == AskedTogether(request[r].left)
           new == [request[r] EXCEPT !.left = @ \ now]
<1>1. request[r] \in OpenOrDone /\ Open(r) /\ ~Done(r)
  BY DEF IssueInv, IssueTypeOK, AnswerYes, Asking, Open, Done, None, Over
<1>2. request' = [request EXCEPT ![r] = new] /\ grant' = grant
  BY DEF AnswerYes
<1>3. \A q \in now : Holds(request[r].of, q)
  BY DEF AnswerYes
<1> HIDE DEF now
<1>4. /\ new \in OpenOrDone /\ new.state = "open" /\ new.target = request[r].target
      /\ new.bundle = request[r].bundle /\ new.left = request[r].left \ now
  BY <1>1 DEF OpenOrDone, Open
<1>5. request'[r] = new
  BY <1>2 DEF IssueInv, IssueTypeOK
<1>6. Due(r)' = Due(r)
  BY <1>4, <1>5 DEF Due, RevokeQuestions
<1>7. /\ request[r].left \subseteq Due(r)
      /\ Due(r) \ request[r].left \subseteq seen[r]
      /\ Witnessed(r) \subseteq seen[r]
      /\ request[r].target = r => request[r].bundle \in Bundles
      /\ request[r].target # r => grant[request[r].target].status # "none"
  BY <1>1 DEF IssueInv, RequestInv
<1>8. Due(r) \subseteq {"member", "manager"} \union DOMAIN request[r].bundle
  <2>1. request[r].bundle \in Bundles \union {<<>>}
    BY <1>1 DEF OpenOrDone
  <2> QED
    BY <2>1, QuestionsAreItems DEF Due, RevokeQuestions
<1>9. request[r].left \intersect now \subseteq Witnessed(r)
  BY <1>1, <1>3, <1>7, <1>8 DEF Witnessed
<1> HIDE DEF new
<1>10. /\ new.left \subseteq Due(r)'
       /\ Due(r)' \ new.left \subseteq seen[r] \union Witnessed(r)'
       /\ new.target = r => new.bundle \in Bundles
       /\ new.target # r => grant[new.target].status # "none"
  BY <1>4, <1>6, <1>7, <1>9
<1> QED
  BY <1>1, <1>2, <1>4, <1>10, RequestChange

LEMMA IssueInvStep == IssueInv /\ [IssueNext]_<<vars, issuing>> => IssueInv'
<1> SUFFICES ASSUME IssueInv, [IssueNext]_<<vars, issuing>> PROVE IssueInv'
  OBVIOUS
<1>1. CASE UNCHANGED <<vars, issuing>>
  <2>1. /\ request' = request /\ grant' = grant /\ seen' = seen
        /\ \A r \in Requests : Witnessed(r)' = Witnessed(r)
    BY <1>1 DEF vars, issuing, Witnessed, Open, Holds, ActiveMember
  <2> QED
    BY <2>1 DEF IssueInv, IssueTypeOK, RequestInv, GrantInv, Due, Done, Open
<1>2. CASE IssueNext
  <2>1. Noticed
    BY <1>2 DEF IssueNext, Noticed
  <2>2. CASE UNCHANGED <<owned, request, grant, changes>>
    BY <2>1, <2>2, WorldChange
  <2>3. CASE Issuing
    <3>1. ASSUME NEW r \in Requests, NEW o \in Organizations,
                 \/ \E b \in Bundles : AskToIssue(r, o, b)
                 \/ \E g \in Requests : AskToRevoke(r, o, g)
          PROVE  IssueInv'
      BY <2>1, <3>1, AskingInv
    <3>2. ASSUME NEW r \in Requests, AnswerNo(r) \/ RequestEnds(r) PROVE IssueInv'
      <4>1. ~Done(r) /\ grant' = grant /\ request' = [request EXCEPT ![r] = Over]
        BY <3>2 DEF AnswerNo, RequestEnds, Asking, Open, Done, Become
      <4>2. Over \notin OpenOrDone
        BY DEF Over, OpenOrDone
      <4> QED
        BY <2>1, <4>1, <4>2, RequestChange
    <3>3. ASSUME NEW r \in Requests, CreateGrant(r) \/ RevokeGrant(r) PROVE IssueInv'
      <4>1. /\ Open(r) /\ request[r].left = {}
            /\ request' = [request EXCEPT ![r] = [request[r] EXCEPT !.state = "done"]]
        BY <3>3 DEF CreateGrant, RevokeGrant, Become
      <4> QED
        BY <2>1, <3>3, <4>1, RequestWrites
    <3>4. ASSUME NEW c \in Changing, OwnershipChanges(c[1], c[2]) PROVE IssueInv'
      BY <2>1, <3>4, WorldChange DEF OwnershipChanges
    <3> QED
      BY <2>1, <2>3, <3>1, <3>2, <3>3, <3>4, AnswerYesInv DEF Issuing
  <2> QED
    BY <1>2, <2>2, <2>3 DEF IssueNext
<1> QED
  BY <1>1, <1>2

-----------------------------------------------------------------------------
(* The theorems. *)

LEMMA IssueInvariant == IssueSpec => []IssueInv
  BY IssueInvInit, IssueInvStep, PTL DEF IssueSpec

\* What is issued or revoked is so by a member of the grant's own organization
\* who may manage its grants, and no grant hands the management on.
THEOREM ManagersAreMembers == IssueSpec => []ManagedByMembers
<1>1. IssueInv => ManagedByMembers
  <2> SUFFICES ASSUME IssueInv, NEW r \in Requests
               PROVE  /\ Done(r) => /\ {"member", "manager"} \subseteq seen[r]
                                    /\ grant[request[r].target].of = request[r].of
                      /\ \A c \in grant[r].content : c[1] # Manage
    BY DEF ManagedByMembers
  <2>1. ASSUME Done(r)
        PROVE  {"member", "manager"} \subseteq seen[r] /\ grant[request[r].target].of = request[r].of
    <3>1. request[r] \in OpenOrDone
      BY <2>1 DEF IssueInv, IssueTypeOK, Done, None, Over
    <3> QED
      BY <2>1, <3>1 DEF IssueInv, RequestInv, Due, Questions, RevokeQuestions
  <2>2. ASSUME NEW c \in grant[r].content PROVE c[1] # Manage
    <3>1. /\ request[r] \in OpenOrDone /\ request[r].bundle \in Bundles
          /\ grant[r].content = Content(request[r].bundle) /\ Manage \notin DOMAIN request[r].bundle
      BY <2>2 DEF IssueInv, GrantInv, RequestInv
    <3> QED
      BY <2>2, <3>1, ContentIsAsked
  <2> QED
    BY <2>1, <2>2
<1> QED
  BY <1>1, IssueInvariant, PTL

\* No grant allows what its organization, in the course of the request, neither
\* had nor had the plan of.
THEOREM GrantsWithinMeans == IssueSpec => []WithinMeans
<1>1. IssueInv => WithinMeans
  <2> SUFFICES ASSUME IssueInv, NEW r \in Requests, NEW c \in grant[r].content, c[2] = "allow"
               PROVE  c[3] \in seen[r] /\ <<c[3], "allow", c[3]>> \in grant[r].content
    BY DEF WithinMeans
  <2>1. /\ request[r] \in OpenOrDone /\ Done(r) /\ request[r].target = r
        /\ request[r].bundle \in Bundles /\ grant[r].content = Content(request[r].bundle)
    BY DEF IssueInv, GrantInv, RequestInv
  <2>2. Questions(request[r].bundle) \subseteq seen[r]
    BY <2>1 DEF IssueInv, RequestInv, Due
  <2> QED
    BY <2>1, <2>2, ContentIsAsked
<1> QED
  BY <1>1, IssueInvariant, PTL

\* Issuing leaves applications alone: what is proved of them holds here too.
THEOREM IssuingKeepsReviews == IssueSpec => [](ReviewIsFinal /\ ApplicationsPaid)
<1>1. IssueInit => Init
  BY DEF IssueInit
<1>2. [IssueNext]_<<vars, issuing>> => [Next]_vars
  BY DEF IssueNext
<1> QED
  BY <1>1, <1>2, ReviewsAreFinal, ApplicationsArePaid, PTL DEF IssueSpec, Spec

================================================================================
