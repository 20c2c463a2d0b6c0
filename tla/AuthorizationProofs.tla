-------------------------- MODULE AuthorizationProofs --------------------------
(***************************************************************************)
(* What Authorization promises, for any invoices, grants and bundles, and  *)
(* however memberships, grants and the clock change between two questions. *)
(***************************************************************************)
EXTENDS Authorization, TLAPS

-----------------------------------------------------------------------------
(* The inductive invariant. *)

\* A membership that there is has an id; 0 stands for none.
CurrentIds == \A o \in Organizations : membership[o].status # "none" => membership[o].id # 0

\* A grant that was in force at a moment is still there, and its target was the
\* user's membership of that moment.
TrueMoment(m) ==
  \A g \in m.grants :
    /\ grants[g] # Absent
    /\ grants[g].bundle.target = "organization_member" => m.partner = grants[g].membership
    /\ grants[g].bundle.target = "organization" => m.partner # 0

TrueMoments == \A m \in moments : TrueMoment(m)

\* The hard gate's question about membership was answered with yes.
NothingFound == {"organization_grant_required", "organization_membership_required", "policy_invalid"}
Entered ==
  \/ request.step \in {"gate", "permission", "feature", "quota"}
  \/ request.step = "decided" /\ request.code \notin NothingFound

\* Who entered did so as a member or by the grants of one moment.
Entry ==
  request # Idle =>
    /\ moments # {}
    /\ request.step \in {"member", "external"} => request.access = {}
    /\ request.step = "external" => request.endpoint = "approve"
    /\ request.access # {} =>
         request.endpoint = "approve" /\ \E m \in moments : request.access = m.grants
    /\ request.endpoint \in OfOrganization /\ request.step # "decided" => Moment \in moments
    /\ request.endpoint \in OfOrganization /\ Entered =>
         request.access # {} \/ \E m \in moments : m.member

\* The grants that a request goes by, and what their items said so far.
Present == \A g \in request.access : grants[g] # Absent /\ grants[g].bundle.effect = "allow"
SaidPermission ==
  /\ \E g \in request.access :
       grants[g].bundle.permission = "allow" \/ grants[g].bundle.role = "allow"
  /\ \A g \in request.access : grants[g].bundle.permission # "deny"
SaidFeature ==
  /\ \E g \in request.access : "allow" \in grants[g].bundle.feature
  /\ \A g \in request.access : "deny" \notin grants[g].bundle.feature
SaidQuota ==
  /\ \E g \in request.access : "allow" \in grants[g].bundle.quota
  /\ \A g \in request.access : "deny" \notin grants[g].bundle.quota

Answers ==
  request # Idle /\ request.access # {} =>
    /\ Present
    /\ request.step \in {"feature", "quota"} \/ request.code = "allow" => SaidPermission
    /\ request.step = "quota" \/ request.code = "allow" => SaidFeature
    /\ request.code = "allow" => SaidQuota

IInv == TypeOK /\ CurrentIds /\ TrueMoments /\ Entry /\ Answers

-----------------------------------------------------------------------------
(* What others change. *)

\* A grant is only ever created and revoked.
LEMMA GrantsStay ==
  ASSUME TypeOK, Change, NEW g \in Grants, grants[g] # Absent
  PROVE  /\ grants'[g] # Absent
         /\ grants'[g].bundle = grants[g].bundle
         /\ grants'[g].membership = grants[g].membership
<1>1. grants[g] \in GrantRows
  BY DEF TypeOK
<1>2. CASE grants' = grants
  BY <1>2
<1>3. ASSUME NEW h \in Grants, NEW b \in Bundles, CreateExternalGrant(h, b)
      PROVE  grants'[g] = grants[g]
  <2>1. g # h
    BY <1>3 DEF CreateExternalGrant
  <2> QED BY <1>3, <2>1 DEF CreateExternalGrant, TypeOK
<1>4. ASSUME NEW h \in Grants, RevokeExternalGrant(h)
      PROVE  grants'[g] = grants[g] \/ grants'[g] = [grants[g] EXCEPT !.active = FALSE]
  BY <1>4 DEF RevokeExternalGrant, TypeOK
<1>5. /\ [grants[g] EXCEPT !.active = FALSE] \in GrantRows
      /\ [grants[g] EXCEPT !.active = FALSE].bundle = grants[g].bundle
      /\ [grants[g] EXCEPT !.active = FALSE].membership = grants[g].membership
  BY <1>1 DEF GrantRows
<1> QED
  BY <1>2, <1>3, <1>4, <1>5, AbsentAssumption DEF Change, Claim, Activate, AbortClaim, Kick, Tick

\* They keep the types of what they change.
LEMMA ChangeTypes ==
  ASSUME TypeOK, CurrentIds, Change
  PROVE  /\ now' \in 0 .. MaxTime
         /\ membership' \in [Organizations -> Memberships]
         /\ grants' \in [Grants -> GrantRows \union {Absent}]
         /\ CurrentIds'
<1>1. ASSUME NEW o \in Organizations, Claim(o) \/ Activate(o) \/ AbortClaim(o) \/ Kick(o)
      PROVE  membership' \in [Organizations -> Memberships] /\ CurrentIds'
  <2>1. membership[o] \in Memberships
    BY DEF TypeOK
  <2>2. CASE Claim(o)
    <3>1. [id |-> membership[o].id + 1, status |-> "provisioning"] \in Memberships
          /\ membership[o].id + 1 # 0
      BY <2>1 DEF Memberships
    <3> QED BY <2>2, <3>1 DEF Claim, TypeOK, CurrentIds
  <2>3. CASE Activate(o)
    <3>1. /\ [membership[o] EXCEPT !.status = "active"] \in Memberships
          /\ [membership[o] EXCEPT !.status = "active"].id = membership[o].id
          /\ membership[o].id # 0
      BY <2>1, <2>3 DEF Memberships, Activate, CurrentIds
    <3> QED BY <2>3, <3>1 DEF Activate, TypeOK, CurrentIds
  <2>4. CASE AbortClaim(o)
    <3>1. [id |-> membership[o].id - 1, status |-> "none"] \in Memberships
      BY <2>1, <2>4 DEF Memberships, AbortClaim, CurrentIds
    <3> QED BY <2>4, <3>1 DEF AbortClaim, TypeOK, CurrentIds
  <2>5. CASE Kick(o)
    <3>1. /\ [membership[o] EXCEPT !.status = "none"] \in Memberships
          /\ [membership[o] EXCEPT !.status = "none"].status = "none"
      BY <2>1 DEF Memberships
    <3> QED BY <2>5, <3>1 DEF Kick, TypeOK, CurrentIds
  <2> QED BY <1>1, <2>2, <2>3, <2>4, <2>5
<1>2. ASSUME NEW g \in Grants, NEW b \in Bundles, CreateExternalGrant(g, b)
      PROVE  grants' \in [Grants -> GrantRows \union {Absent}]
  <2>1. membership["partner"].id \in Nat
    BY DEF TypeOK, Organizations, Memberships
  <2>2. [bundle |-> b, active |-> TRUE,
         membership |-> IF b.target = "organization_member" THEN membership["partner"].id ELSE 0]
          \in GrantRows
    BY <2>1 DEF GrantRows
  <2> QED BY <1>2, <2>2 DEF CreateExternalGrant, TypeOK
<1>3. ASSUME NEW g \in Grants, RevokeExternalGrant(g)
      PROVE  grants' \in [Grants -> GrantRows \union {Absent}]
  <2>1. grants[g] \in GrantRows
    BY <1>3 DEF RevokeExternalGrant, TypeOK
  <2>2. [grants[g] EXCEPT !.active = FALSE] \in GrantRows
    BY <2>1 DEF GrantRows
  <2> QED BY <1>3, <2>2 DEF RevokeExternalGrant, TypeOK
<1>4. Tick => now' \in 0 .. MaxTime
  BY AuthorizationAssumption DEF Tick, TypeOK
<1>5. membership' = membership => CurrentIds'
  BY DEF CurrentIds
<1> QED
  BY <1>1, <1>2, <1>3, <1>4, <1>5
  DEF Change, TypeOK, Claim, Activate, AbortClaim, Kick, CreateExternalGrant, RevokeExternalGrant, Tick

\* What is written down about a moment is true of it.
LEMMA MomentIsTrue ==
  ASSUME membership' \in [Organizations -> Memberships], CurrentIds'
  PROVE  Moment' \in Moments /\ TrueMoment(Moment)'
<1>1. /\ membership'["partner"].id \in Nat
      /\ membership'["partner"].status = "active" => membership'["partner"].id # 0
  BY DEF CurrentIds, Organizations, Memberships
<1>2. Moment' \in Moments
  BY <1>1 DEF Moment, Moments, InForce
<1>3. ASSUME NEW g \in Moment'.grants
      PROVE  /\ grants'[g] # Absent
             /\ grants'[g].bundle.target = "organization_member" =>
                  Moment'.partner = grants'[g].membership
             /\ grants'[g].bundle.target = "organization" => Moment'.partner # 0
  <2>1. /\ grants'[g] # Absent
        /\ grants'[g].bundle.target # "global_user" => membership'["partner"].status = "active"
        /\ grants'[g].bundle.target = "organization_member" =>
             membership'["partner"].id = grants'[g].membership
    BY <1>3 DEF Moment, InForce, Targeted, IsMember
  <2>2. Moment'.partner =
          IF membership'["partner"].status = "active" THEN membership'["partner"].id ELSE 0
    BY DEF Moment
  <2> QED BY <1>1, <2>1, <2>2
<1> QED BY <1>2, <1>3 DEF TrueMoment

-----------------------------------------------------------------------------
(* What a request does. *)

\* A step goes on to another question or decides, and stays the same request.
LEMMA DecideTypes ==
  ASSUME TypeOK, Decide
  PROVE  /\ request \in Requests /\ request # Idle /\ request' \in Requests
         /\ request.step # "decided" /\ request.code = "none"
         /\ request'.step = "decided" <=> request'.code # "none"
         /\ request'.endpoint = request.endpoint
         /\ request'.invoice = request.invoice
         /\ request'.at = request.at
<1>1. /\ request \in Requests /\ request # Idle
      /\ request.step \in {"member", "external", "gate", "permission", "feature", "quota"}
  BY DEF Decide, CheckMember, ResolveExternal, PassGate, AskPermission, AskFeature, AskQuota, Fail,
         At, TypeOK
<1>2. request.code = "none"
  BY <1>1 DEF TypeOK
<1>3. \/ \E step \in {"external", "gate", "permission", "feature", "quota"} : GoTo(step)
      \/ \E code \in Codes \ {"none"} : Answer(code)
      \/ \E G \in SUBSET Grants : request' = [request EXCEPT !.access = G, !.step = "gate"]
  <2>1. CASE CheckMember
    BY <2>1 DEF CheckMember, Codes
  <2>2. CASE ResolveExternal
    BY <2>2 DEF ResolveExternal, InForce, Codes
  <2>3. CASE PassGate
    BY <2>3 DEF PassGate, Codes
  <2>4. CASE AskPermission
    BY <2>4 DEF AskPermission, GoOnIf, Codes
  <2>5. CASE AskFeature
    BY <2>5 DEF AskFeature, GoOnIf, Codes
  <2>6. CASE AskQuota
    BY <2>6 DEF AskQuota, Codes
  <2>7. CASE Fail
    BY <2>7 DEF Fail, Codes
  <2> QED BY <2>1, <2>2, <2>3, <2>4, <2>5, <2>6, <2>7 DEF Decide
<1>4. ASSUME NEW step \in {"external", "gate", "permission", "feature", "quota"}, GoTo(step)
      PROVE  /\ request' \in Requests
             /\ request'.step = "decided" <=> request'.code # "none"
             /\ request'.endpoint = request.endpoint
             /\ request'.invoice = request.invoice
             /\ request'.at = request.at
  BY <1>1, <1>2, <1>4 DEF GoTo, Requests, Steps
<1>5. ASSUME NEW code \in Codes \ {"none"}, Answer(code)
      PROVE  /\ request' \in Requests
             /\ request'.step = "decided" <=> request'.code # "none"
             /\ request'.endpoint = request.endpoint
             /\ request'.invoice = request.invoice
             /\ request'.at = request.at
  BY <1>1, <1>2, <1>5 DEF Answer, Requests, Steps
<1>6. ASSUME NEW G \in SUBSET Grants, request' = [request EXCEPT !.access = G, !.step = "gate"]
      PROVE  /\ request' \in Requests
             /\ request'.step = "decided" <=> request'.code # "none"
             /\ request'.endpoint = request.endpoint
             /\ request'.invoice = request.invoice
             /\ request'.at = request.at
  BY <1>1, <1>2, <1>6 DEF Requests, Steps
<1> QED BY <1>1, <1>2, <1>3, <1>4, <1>5, <1>6

\* A question leaves what the invariant says of the moments, and adds to what it
\* says of the request exactly what was asked.
LEMMA DecidePreserves ==
  ASSUME IInv, Decide, UNCHANGED <<world, moments>>
  PROVE  IInv'
<1>1. TypeOK /\ CurrentIds /\ TrueMoments /\ Entry /\ Answers
  BY DEF IInv
<1>2. UNCHANGED <<now, membership, grants, moments>>
  BY DEF world
<1>3. /\ request \in Requests /\ request # Idle /\ request' \in Requests
      /\ request.step # "decided" /\ request.code = "none"
      /\ request'.step = "decided" <=> request'.code # "none"
      /\ request'.endpoint = request.endpoint
      /\ request'.invoice = request.invoice
      /\ request'.at = request.at
  BY <1>1, DecideTypes
<1>4. TypeOK' /\ CurrentIds' /\ TrueMoments'
  BY <1>1, <1>2, <1>3 DEF TypeOK, CurrentIds, TrueMoments, TrueMoment
<1>5. Moment' = Moment
  BY <1>2, <1>3 DEF Moment, InForce, Targeted, IsMember, Concerns
<1>6. /\ moments # {}
      /\ request.step \in {"member", "external"} => request.access = {}
      /\ request.step = "external" => request.endpoint = "approve"
      /\ request.access # {} =>
           request.endpoint = "approve" /\ \E m \in moments : request.access = m.grants
      /\ request.endpoint \in OfOrganization => Moment \in moments
  BY <1>1, <1>3 DEF Entry
<1>7. request.endpoint \in OfOrganization /\ request.step \in {"gate", "permission", "feature", "quota"} =>
        request.access # {} \/ \E m \in moments : m.member
  BY <1>1, <1>3 DEF Entry, Entered
<1>8. request.access # {} =>
        /\ Present
        /\ request.step \in {"feature", "quota"} => SaidPermission
        /\ request.step = "quota" => SaidFeature
  BY <1>1, <1>3 DEF Answers
<1>9. CASE CheckMember
  <2>1. request.step = "member" /\ request.access = {} /\ request'.access = {}
    BY <1>3, <1>6, <1>9 DEF CheckMember, At, GoTo, Answer, Requests
  <2>2. \/ GoTo("gate") /\ (request.endpoint \notin OfOrganization \/ IsMember("owner"))
        \/ GoTo("external") /\ request.endpoint = "approve"
        \/ Answer("organization_membership_required")
    BY <1>9 DEF CheckMember, Explicit
  <2>3. IsMember("owner") => Moment.member
    BY DEF IsMember, Moment
  <2>4. CASE GoTo("gate") /\ (request.endpoint \notin OfOrganization \/ IsMember("owner"))
    <3>1. request'.step = "gate"
      BY <1>3, <2>4 DEF GoTo, Requests
    <3>2. request.endpoint \in OfOrganization => \E m \in moments : m.member
      BY <1>6, <2>3, <2>4
    <3>3. Entry'
      BY <1>2, <1>3, <1>5, <1>6, <2>1, <3>1, <3>2 DEF Entry
    <3> QED BY <1>4, <2>1, <3>3 DEF IInv, Answers
  <2>5. CASE GoTo("external") /\ request.endpoint = "approve"
    <3>1. request'.step = "external"
      BY <1>3, <2>5 DEF GoTo, Requests
    <3>2. Entry'
      BY <1>2, <1>3, <1>5, <1>6, <2>1, <2>5, <3>1 DEF Entry, Entered
    <3> QED BY <1>4, <2>1, <3>2 DEF IInv, Answers
  <2>6. CASE Answer("organization_membership_required")
    <3>1. request'.step = "decided" /\ request'.code = "organization_membership_required"
      BY <1>3, <2>6 DEF Answer, Requests
    <3>2. Entry'
      BY <1>2, <1>6, <2>1, <3>1 DEF Entry, Entered, NothingFound
    <3> QED BY <1>4, <2>1, <3>2 DEF IInv, Answers
  <2> QED BY <2>2, <2>4, <2>5, <2>6
<1>10. CASE ResolveExternal
  <2> DEFINE found == {g \in InForce : Concerns(g)}
  <2>1. request.step = "external" /\ request.access = {} /\ request.endpoint = "approve"
    BY <1>6, <1>10 DEF ResolveExternal, At
  <2>2. CASE Answer("organization_grant_required")
    <3>1. /\ request'.step = "decided" /\ request'.code = "organization_grant_required"
          /\ request'.access = {}
      BY <1>3, <2>1, <2>2 DEF Answer, Requests
    <3>2. Entry'
      BY <1>2, <1>6, <3>1 DEF Entry, Entered, NothingFound
    <3> QED BY <1>4, <3>1, <3>2 DEF IInv, Answers
  <2>3. CASE ~Answer("organization_grant_required")
    <3>1. /\ \A g \in found : grants[g].bundle.effect # "deny"
          /\ request' = [request EXCEPT !.access = found, !.step = "gate"]
          /\ found # {}
      BY <1>10, <2>3 DEF ResolveExternal, Bundle
    <3>2. Moment \in moments /\ Moment.grants = found
      BY <1>6, <2>1 DEF OfOrganization, Moment
    <3>3. request'.access = Moment.grants /\ request'.step = "gate" /\ request'.access # {}
      BY <1>3, <3>1, <3>2 DEF Requests
    <3>4. Entry'
      BY <1>2, <1>3, <1>5, <1>6, <2>1, <3>2, <3>3 DEF Entry
    <3>5. ASSUME NEW g \in found
          PROVE  grants[g] # Absent /\ grants[g].bundle.effect = "allow"
      <4>1. g \in Grants /\ grants[g] # Absent
        BY DEF InForce
      <4>2. grants[g].bundle \in BundleTypes
        BY <1>1, <4>1, AuthorizationAssumption DEF TypeOK, GrantRows
      <4> QED BY <3>1, <4>1, <4>2 DEF BundleTypes, Effects
    <3>6. Present'
      BY <1>2, <3>2, <3>3, <3>5 DEF Present
    <3>7. Answers'
      BY <1>3, <3>3, <3>6 DEF Answers
    <3> QED BY <1>4, <3>4, <3>7 DEF IInv
  <2> QED BY <2>2, <2>3
<1>11. SUFFICES ASSUME PassGate \/ AskPermission \/ AskFeature \/ AskQuota \/ Fail
       PROVE  IInv'
  BY <1>9, <1>10 DEF Decide
<1>12. /\ request'.access = request.access
       /\ Present => Present'
       /\ SaidPermission => SaidPermission'
       /\ SaidFeature => SaidFeature'
       /\ SaidQuota => SaidQuota'
  <2>1. request'.access = request.access
    BY <1>3, <1>11 DEF PassGate, AskPermission, AskFeature, AskQuota, Fail, GoOnIf, GoTo, Answer, Requests
  <2> QED BY <1>2, <2>1 DEF Present, SaidPermission, SaidFeature, SaidQuota
<1>13. CASE Fail
  <2>1. request'.step = "decided" /\ request'.code = "policy_invalid"
    BY <1>3, <1>13 DEF Fail, Answer, Requests
  <2>2. Entry'
    BY <1>2, <1>3, <1>6, <1>12, <2>1 DEF Entry, Entered, NothingFound
  <2>3. Answers'
    BY <1>8, <1>12, <2>1 DEF Answers
  <2> QED BY <1>4, <2>2, <2>3 DEF IInv
<1>14. ASSUME request.step \in {"gate", "permission", "feature", "quota"},
              request'.step \notin {"member", "external"}
       PROVE  Entry'
  BY <1>2, <1>3, <1>5, <1>6, <1>7, <1>12, <1>14 DEF Entry
<1>15. CASE PassGate
  <2>1. request.step = "gate"
    BY <1>15 DEF PassGate, At
  <2>2. \/ request'.step = "permission"
        \/ request'.step = "decided" /\ request'.code = "hard_contract_denied"
        \/ request'.step = "decided" /\ request'.code = "allow" /\ request.endpoint # "approve"
    BY <1>3, <1>15 DEF PassGate, GoTo, Answer, Requests, Permitted
  <2>3. Answers'
    BY <1>3, <1>6, <1>8, <1>12, <2>2 DEF Answers
  <2> QED BY <1>4, <1>14, <2>1, <2>2, <2>3 DEF IInv
<1>16. CASE AskPermission
  <2>1. request.step = "permission"
    BY <1>16 DEF AskPermission, At
  <2>2. \/ request'.step = "feature" /\ (request.access # {} => SaidPermission)
        \/ request'.step = "decided" /\ request'.code = "permission_denied"
        \/ request'.step = "decided" /\ request'.code = "allow" /\ request.endpoint # "approve"
    <3>1. PICK yes \in BOOLEAN, policies \in SUBSET Effects :
            /\ request.access # {} => yes = ExternalPermission(request.access, policies)
            /\ IF yes /\ request.endpoint \notin Metered THEN Answer("allow")
               ELSE GoOnIf(yes, "feature", "permission_denied")
      BY <1>16 DEF AskPermission
    <3>2. ExternalPermission(request.access, policies) => SaidPermission
      BY DEF ExternalPermission, SaidPermission, Bundle
    <3>3. CASE yes
      <4>1. request.access # {} => SaidPermission
        BY <3>1, <3>2, <3>3
      <4> QED BY <1>3, <3>1, <3>3, <4>1 DEF GoOnIf, GoTo, Answer, Requests, Metered
    <3>4. CASE ~yes
      BY <1>3, <3>1, <3>4 DEF GoOnIf, GoTo, Answer, Requests
    <3> QED BY <3>3, <3>4
  <2>3. Answers'
    BY <1>3, <1>6, <1>8, <1>12, <2>2 DEF Answers
  <2> QED BY <1>4, <1>14, <2>1, <2>2, <2>3 DEF IInv
<1>17. CASE AskFeature
  <2>1. request.step = "feature"
    BY <1>17 DEF AskFeature, At
  <2>2. \/ request'.step = "quota" /\ (request.access # {} => SaidFeature)
        \/ request'.step = "decided" /\ request'.code = "feature_disabled"
    <3>1. PICK yes \in BOOLEAN :
            /\ request.access # {} => yes = ExternalFeature(request.access)
            /\ GoOnIf(yes, "quota", "feature_disabled")
      BY <1>17 DEF AskFeature
    <3>2. ExternalFeature(request.access) => SaidFeature
      BY DEF ExternalFeature, SaidFeature, Bundle
    <3>3. CASE yes
      <4>1. request.access # {} => SaidFeature
        BY <3>1, <3>2, <3>3
      <4> QED BY <1>3, <3>1, <3>3, <4>1 DEF GoOnIf, GoTo, Requests
    <3>4. CASE ~yes
      BY <1>3, <3>1, <3>4 DEF GoOnIf, Answer, Requests
    <3> QED BY <3>3, <3>4
  <2>3. Answers'
    BY <1>3, <1>8, <1>12, <2>1, <2>2 DEF Answers
  <2> QED BY <1>4, <1>14, <2>1, <2>2, <2>3 DEF IInv
<1>18. CASE AskQuota
  <2>1. request.step = "quota"
    BY <1>18 DEF AskQuota, At
  <2>2. /\ request'.step = "decided"
        /\ request'.code \in {"allow", "quota_exceeded"}
        /\ request'.code = "allow" /\ request.access # {} => SaidQuota
    <3>1. PICK yes \in BOOLEAN, left \in BOOLEAN :
            /\ request.access # {} => yes = ExternalQuota(request.access, left)
            /\ Answer(IF yes THEN "allow" ELSE "quota_exceeded")
      BY <1>18 DEF AskQuota
    <3>2. ExternalQuota(request.access, left) => SaidQuota
      BY DEF ExternalQuota, SaidQuota, Bundle
    <3>3. CASE yes
      <4>1. request.access # {} => SaidQuota
        BY <3>1, <3>2, <3>3
      <4> QED BY <1>3, <3>1, <3>3, <4>1 DEF Answer, Requests
    <3>4. CASE ~yes
      BY <1>3, <3>1, <3>4 DEF Answer, Requests
    <3> QED BY <3>3, <3>4
  <2>3. Answers'
    BY <1>3, <1>8, <1>12, <2>1, <2>2 DEF Answers
  <2> QED BY <1>4, <1>14, <2>1, <2>2, <2>3 DEF IInv
<1> QED BY <1>11, <1>13, <1>15, <1>16, <1>17, <1>18

\* A request begins with one moment, and nothing said.
LEMMA BeginPreserves ==
  ASSUME IInv, NEW e \in Endpoints, NEW i \in Invoices \union {"none"}, NEW assured \in BOOLEAN,
         Begin(e, i, assured), UNCHANGED world, moments' = {Moment'}
  PROVE  IInv'
<1>1. TypeOK /\ CurrentIds
  BY DEF IInv
<1>2. UNCHANGED <<now, membership, grants>>
  BY DEF world
<1>3. request' = [endpoint |-> e, invoice |-> i, at |-> now, assured |-> assured, step |-> "member",
                  access |-> {}, code |-> "none"]
  BY DEF Begin
<1>4. /\ request' \in Requests
      /\ request'.step = "member" /\ request'.code = "none" /\ request'.access = {}
  BY <1>1, <1>3 DEF TypeOK, Requests, Steps, Codes
<1>5. CurrentIds' /\ membership' \in [Organizations -> Memberships]
  BY <1>1, <1>2 DEF CurrentIds, TypeOK
<1>6. Moment' \in Moments /\ TrueMoment(Moment)'
  BY <1>5, MomentIsTrue
<1>7. TypeOK'
  BY <1>1, <1>2, <1>4, <1>6 DEF TypeOK
<1>8. TrueMoments'
  BY <1>6 DEF TrueMoments, TrueMoment
<1>9. Entry'
  BY <1>4 DEF Entry, Entered
<1>10. Answers'
  BY <1>4 DEF Answers
<1> QED BY <1>5, <1>7, <1>8, <1>9, <1>10 DEF IInv

\* What others change adds a moment and takes back nothing that was said.
LEMMA ChangePreserves ==
  ASSUME IInv, Change, UNCHANGED request, ~At("decided"),
         moments' = IF request = Idle \/ request.endpoint \notin OfOrganization THEN moments
                    ELSE moments \union {Moment'}
  PROVE  IInv'
<1>1. TypeOK /\ CurrentIds /\ TrueMoments /\ Entry /\ Answers
  BY DEF IInv
<1>2. /\ now' \in 0 .. MaxTime
      /\ membership' \in [Organizations -> Memberships]
      /\ grants' \in [Grants -> GrantRows \union {Absent}]
      /\ CurrentIds'
  BY <1>1, ChangeTypes
<1>3. Moment' \in Moments /\ TrueMoment(Moment)'
  BY <1>2, MomentIsTrue
<1>4. moments \subseteq moments' /\ moments' \subseteq moments \union {Moment'}
  OBVIOUS
<1>5. TypeOK'
  BY <1>1, <1>2, <1>3, <1>4 DEF TypeOK
<1>6. ASSUME NEW g \in Grants, grants[g] # Absent
      PROVE  /\ grants'[g] # Absent
             /\ grants'[g].bundle = grants[g].bundle
             /\ grants'[g].membership = grants[g].membership
  BY <1>1, <1>6, GrantsStay
<1>7. ASSUME NEW m \in moments
      PROVE  TrueMoment(m)'
  <2>1. m.grants \subseteq Grants /\ TrueMoment(m)
    BY <1>1 DEF TypeOK, Moments, TrueMoments
  <2> QED BY <1>6, <2>1 DEF TrueMoment
<1>8. TrueMoments'
  <2>1. ASSUME NEW m \in moments'
        PROVE  TrueMoment(m)'
    <3>1. CASE m \in moments
      BY <1>7, <3>1
    <3>2. CASE m = Moment'
      BY <1>3, <3>2 DEF TrueMoment
    <3> QED BY <1>4, <2>1, <3>1, <3>2
  <2> QED BY <2>1 DEF TrueMoments, TrueMoment
<1>9. Entry'
  <2>1. request # Idle /\ request.endpoint \in OfOrganization => Moment' \in moments'
    OBVIOUS
  <2> QED BY <1>1, <1>4, <2>1 DEF Entry, Entered
<1>10. Answers'
  <2>1. CASE request = Idle \/ request.access = {}
    BY <2>1 DEF Answers
  <2>2. CASE request # Idle /\ request.access # {}
    <3>1. request.access \subseteq Grants
      BY <1>1, <2>2 DEF TypeOK, Requests
    <3>2. Present
      BY <1>1, <2>2 DEF Answers
    <3>3. \A g \in request.access : grants'[g] # Absent /\ grants'[g].bundle = grants[g].bundle
      BY <1>6, <3>1, <3>2 DEF Present
    <3>4. /\ Present'
          /\ SaidPermission => SaidPermission'
          /\ SaidFeature => SaidFeature'
          /\ SaidQuota => SaidQuota'
      BY <3>2, <3>3 DEF Present, SaidPermission, SaidFeature, SaidQuota
    <3> QED BY <1>1, <2>2, <3>4 DEF Answers
  <2> QED BY <2>1, <2>2
<1> QED BY <1>2, <1>5, <1>8, <1>9, <1>10 DEF IInv

-----------------------------------------------------------------------------
(* The theorems. *)

\* The inductive invariant holds in every reachable state.
THEOREM AuthorizationInvariant == Spec => []IInv
<1>1. Init => IInv
  <2> SUFFICES ASSUME Init
               PROVE  IInv
    OBVIOUS
  <2>1. TypeOK
    BY AuthorizationAssumption DEF Init, TypeOK, Memberships, Organizations
  <2>2. CurrentIds
    BY DEF Init, CurrentIds
  <2> QED BY <2>1, <2>2 DEF Init, IInv, TrueMoments, Entry, Answers
<1>2. IInv /\ [Next]_vars => IInv'
  <2> SUFFICES ASSUME IInv, [Next]_vars
               PROVE  IInv'
    OBVIOUS
  <2>1. CASE \E e \in Endpoints, i \in Invoices \union {"none"}, assured \in BOOLEAN :
               Begin(e, i, assured) /\ UNCHANGED world /\ moments' = {Moment'}
    BY <2>1, BeginPreserves
  <2>2. CASE Decide /\ UNCHANGED <<world, moments>>
    BY <2>2, DecidePreserves
  <2>3. CASE Finish /\ moments' = {} /\ UNCHANGED world
    <3>1. TypeOK'
      BY <2>3 DEF IInv, TypeOK, Finish, world
    <3>2. CurrentIds'
      BY <2>3 DEF IInv, CurrentIds, world
    <3> QED BY <2>3, <3>1, <3>2 DEF IInv, Finish, TrueMoments, Entry, Answers
  <2>4. CASE Change /\ UNCHANGED request /\ ~At("decided")
             /\ moments' = IF request = Idle \/ request.endpoint \notin OfOrganization THEN moments
                           ELSE moments \union {Moment'}
    BY <2>4, ChangePreserves
  <2>5. CASE UNCHANGED vars
    <3>1. UNCHANGED <<now, membership, grants, request, moments>>
      BY <2>5 DEF vars
    <3>2. Moment' = Moment
      BY <3>1 DEF Moment, InForce, Targeted, IsMember, Concerns
    <3>3. TypeOK' /\ CurrentIds' /\ TrueMoments'
      BY <3>1 DEF IInv, TypeOK, CurrentIds, TrueMoments, TrueMoment
    <3>4. Entry'
      BY <3>1, <3>2 DEF IInv, Entry, Entered
    <3>5. Answers'
      BY <3>1 DEF IInv, Answers, Present, SaidPermission, SaidFeature, SaidQuota
    <3> QED BY <3>3, <3>4, <3>5 DEF IInv
  <2> QED BY <2>1, <2>2, <2>3, <2>4, <2>5 DEF Next
<1> QED BY <1>1, <1>2, PTL DEF Spec

\* Every variable keeps its type.
THEOREM TypeCorrect == Spec => []TypeOK
<1>1. IInv => TypeOK
  BY DEF IInv
<1> QED BY <1>1, AuthorizationInvariant, PTL

\* HardEngine.membershipAllowed: nobody is allowed on an organization's endpoint
\* who was not its member at some moment, but for approvals by external grants.
THEOREM NobodyPassesTheGate == Spec => []MembershipGate
<1>1. IInv => MembershipGate
  <2> SUFFICES ASSUME IInv, Allowed, request.endpoint \in OfOrganization
               PROVE  \/ request.access = {} /\ \E m \in moments : m.member
                      \/ request.access # {} /\ request.endpoint = "approve"
    BY DEF MembershipGate
  <2>1. request # Idle /\ Entered
    BY DEF Allowed, At, Entered, NothingFound
  <2> QED BY <2>1 DEF IInv, Entry
<1> QED BY <1>1, AuthorizationInvariant, PTL

\* ResolveExternalAccess and the answers of its grants: an external decision is
\* that of the grants of one moment, and not one of them denies anything.
THEOREM OneMomentDecides == Spec => []OneMoment
<1>1. IInv => OneMoment
  <2> SUFFICES ASSUME IInv, Allowed, request.access # {}
               PROVE  \E m \in moments :
                        LET G == m.grants
                        IN /\ request.access = G
                           /\ \A g \in G : Bundle(g).effect = "allow" /\ Bundle(g).permission # "deny"
                           /\ \E g \in G : "allow" \in Bundle(g).feature
                           /\ \E g \in G : "allow" \in Bundle(g).quota
                           /\ \E g \in G : Bundle(g).permission = "allow" \/ Bundle(g).role = "allow"
                           /\ \A g \in G : "deny" \notin Bundle(g).feature \union Bundle(g).quota
    BY DEF OneMoment
  <2>1. request # Idle /\ request.code = "allow"
    BY DEF Allowed, At
  <2>2. PICK m \in moments : request.access = m.grants
    BY <2>1 DEF IInv, Entry
  <2>3. Present /\ SaidPermission /\ SaidFeature /\ SaidQuota
    BY <2>1 DEF IInv, Answers
  <2> QED BY <2>2, <2>3 DEF Present, SaidPermission, SaidFeature, SaidQuota, Bundle
<1> QED BY <1>1, AuthorizationInvariant, PTL

\* The targets of external_grants_v2: what was given to a membership is lost with
\* it, also for who joins again.
THEOREM KicksAreFinal == Spec => []KickIsFinal
<1>1. IInv => KickIsFinal
  <2> SUFFICES ASSUME IInv, Allowed
               PROVE  \E m \in moments : \A g \in request.access :
                        /\ Bundle(g).target = "organization_member" => m.partner = grants[g].membership
                        /\ Bundle(g).target = "organization" => m.partner # 0
    BY DEF KickIsFinal
  <2>1. /\ moments # {}
        /\ request.access # {} => \E m \in moments : request.access = m.grants
    BY DEF Allowed, At, IInv, Entry
  <2>2. CASE request.access = {}
    BY <2>1, <2>2
  <2>3. CASE request.access # {}
    <3>1. PICK m \in moments : request.access = m.grants
      BY <2>1, <2>3
    <3> QED BY <3>1 DEF IInv, TrueMoments, TrueMoment, Bundle
  <2> QED BY <2>2, <2>3
<1> QED BY <1>1, AuthorizationInvariant, PTL

\* The order of HardEngine.Evaluate: who is a stranger throughout learns nothing
\* else about a request that is wrong.
THEOREM StrangersFindNothing == Spec => []OutsidersFindNothing
<1>1. IInv => OutsidersFindNothing
  <2> SUFFICES ASSUME IInv, At("decided"), request.endpoint \in OfOrganization,
                      \A m \in moments : ~m.member /\ m.grants = {},
                      request.code \notin NothingFound
               PROVE  FALSE
    BY DEF OutsidersFindNothing, NothingFound
  <2>1. request # Idle /\ Entered
    BY DEF At, Entered
  <2> QED BY <2>1 DEF IInv, Entry
<1> QED BY <1>1, AuthorizationInvariant, PTL

================================================================================
