----------------------------- MODULE Authorization -----------------------------
(***************************************************************************)
(* One request of one user through the middleware: the hard gate of        *)
(* HardEngine.Evaluate, then Engine.decide.  Every question is a query of  *)
(* its own, and between two of them memberships start and end, grants are  *)
(* created and revoked, and time passes.                                   *)
(*                                                                         *)
(* What Casdoor answers, which features a subject has and how much quota   *)
(* is left may change between any two questions, so each answer is any.    *)
(* The items of a grant do not change once it is created.  The resources   *)
(* belong to one organization, the owner; the user may be its member, or   *)
(* of a partner that the owner gives grants to.                            *)
(***************************************************************************)
EXTENDS Naturals, FiniteSets

CONSTANTS
  Invoices,
  System,          \* the protected ones among them
  Grants,          \* ids of external grants
  Bundles,         \* what a grant may be
  Absent,          \* no such grant
  Idle,            \* no request
  MaxTime,         \* bound on the clock
  MaxMemberships,  \* bounds on the memberships of the user in each organization
  MaxMoments       \* bound on the different moments of one request

Effects == {"allow", "deny"}
Organizations == {"owner", "partner"}

\* The catalog: "manage" stands for the strictly isolated endpoints of an
\* organization, "apply" for those of a user.
Endpoints == {"approve", "manage", "apply", "me"}
OfOrganization == {"approve", "manage"}

\* Mutant of Explicit: external grants open every endpoint of an organization.
ExplicitEverywhere == {"approve", "manage"}

Explicit == {"approve"}                       \* TenantAccess = ExplicitGrant
Assured == {"approve", "manage", "apply"}     \* RequireMFA
Permitted == {"approve", "manage", "apply"}   \* RequirePermission
Metered == {"approve", "apply"}               \* FeatureKey and QuotaKey

\* A grant of the user, or of his organization or one membership in it.  An item
\* of another operation, or of another key, changes nothing and is left out.
BundleTypes ==
  [operation : OfOrganization, effect : Effects, invoice : Invoices \union {"any"},
   target : {"global_user", "organization", "organization_member"},
   from : Nat, until : Nat, permission : Effects \union {"none"}, role : Effects \union {"none"},
   feature : SUBSET Effects, quota : SUBSET Effects]

ASSUME AuthorizationAssumption ==
  /\ System \subseteq Invoices
  /\ Bundles \subseteq BundleTypes
  /\ \A b \in Bundles : b.from < b.until /\ (b.operation = "manage" => b.permission = "none")
  /\ MaxTime \in Nat /\ MaxMoments \in Nat
  /\ MaxMemberships \in [Organizations -> Nat]

VARIABLES
  now,         \* the clock
  membership,  \* the latest row of organization_members in each organization
  grants,      \* external_grants_v2 with their items
  request,     \* the request that runs, and its decision
  moments      \* history: what held since a request for an organization began

world == <<now, membership, grants>>
vars == <<now, membership, grants, request, moments>>

Memberships == [id : Nat, status : {"none", "provisioning", "active"}]
GrantRows == [bundle : Bundles, membership : Nat, active : BOOLEAN]
Steps == {"member", "external", "gate", "permission", "feature", "quota", "decided"}
Codes == {"none", "allow", "hard_contract_denied", "permission_denied", "feature_disabled",
          "quota_exceeded", "organization_grant_required", "organization_membership_required",
          "policy_invalid"}
Requests ==
  [endpoint : Endpoints, invoice : Invoices \union {"none"}, at : 0 .. MaxTime, assured : BOOLEAN, step : Steps,
   access : SUBSET Grants, code : Codes]
Moments == [member : BOOLEAN, partner : Nat, grants : SUBSET Grants]

ASSUME AbsentAssumption == Absent \notin GrantRows

TypeOK ==
  /\ now \in 0 .. MaxTime
  /\ membership \in [Organizations -> Memberships]
  /\ grants \in [Grants -> GrantRows \union {Absent}]
  /\ request \in Requests \union {Idle}
  /\ request # Idle => (request.step = "decided" <=> request.code # "none")
  /\ moments \in SUBSET Moments

Init ==
  /\ now = 0
  /\ membership = [o \in Organizations |-> [id |-> 0, status |-> "none"]]
  /\ grants = [g \in Grants |-> Absent]
  /\ request = Idle
  /\ moments = {}

-----------------------------------------------------------------------------
(* Questions. *)

\* Mutant of IsMember: a row that an acceptance still provisions counts.
IsMemberOrSoon(o) == membership[o].status # "none"

IsMember(o) == membership[o].status = "active"

\* Mutant of Targeted: any membership of the user in the organization does.
TargetedUser(g) == grants[g].bundle.target # "global_user" => IsMember("partner")

\* The target of a grant is the user: himself, his current membership, or the one
\* membership it was given to.
Targeted(g) ==
  /\ grants[g].bundle.target # "global_user" => IsMember("partner")
  /\ grants[g].bundle.target = "organization_member" => membership["partner"].id = grants[g].membership

\* The grant concerns what is asked for, and was valid when the request began.
Concerns(g) ==
  LET b == grants[g].bundle
  IN /\ b.operation = request.endpoint
     /\ b.invoice \in {"any", request.invoice}
     /\ b.from <= request.at /\ request.at < b.until

InForce == {g \in Grants : grants[g] # Absent /\ grants[g].active /\ Targeted(g)}
Bundle(g) == grants[g].bundle

\* externalDirectPermission and externalDirectoryPermission; policies are the
\* effects that Casdoor has for the operation on what a role leads to.
ExternalPermission(G, policies) ==
  /\ \E g \in G : Bundle(g).permission = "allow" \/ (Bundle(g).role = "allow" /\ "allow" \in policies)
  /\ \A g \in G :
       /\ Bundle(g).permission # "deny"
       /\ Bundle(g).role # "none" => "deny" \notin policies
       /\ Bundle(g).role = "deny" => policies = {}

\* Mutant of ExternalFeature: it asks all grants in force, not those resolved.
ExternalFeatureInForce(G) ==
  /\ \E g \in InForce : "allow" \in Bundle(g).feature
  /\ \A g \in InForce : "deny" \notin Bundle(g).feature

ExternalFeature(G) ==
  /\ \E g \in G : "allow" \in Bundle(g).feature
  /\ \A g \in G : "deny" \notin Bundle(g).feature

\* The cost is 1: what is left over all grants is enough if one has any left.
ExternalQuota(G, left) ==
  /\ \E g \in G : "allow" \in Bundle(g).quota
  /\ \A g \in G : "deny" \notin Bundle(g).quota
  /\ left

-----------------------------------------------------------------------------
(* The request. *)

At(step) == request # Idle /\ request.step = step

GoTo(step) == request' = [request EXCEPT !.step = step]
Answer(code) == request' = [request EXCEPT !.step = "decided", !.code = code]
GoOnIf(yes, step, denial) == IF yes THEN GoTo(step) ELSE Answer(denial)

\* EndpointResolver.Resolve, after the loader found the invoice, if it is about one.
Begin(e, i, assured) ==
  /\ request = Idle
  /\ i = "none" <=> e # "approve"
  /\ e \in Assured \/ assured
  /\ request' = [endpoint |-> e, invoice |-> i, at |-> now, assured |-> assured, step |-> "member",
                 access |-> {}, code |-> "none"]

\* Mutant of CheckMember: assurance is looked at first.
CheckMemberLater ==
  /\ At("member")
  /\ IF request.endpoint \in Assured /\ ~request.assured THEN Answer("hard_contract_denied")
     ELSE IF request.endpoint \notin OfOrganization \/ IsMember("owner") THEN GoTo("gate")
     ELSE IF request.endpoint \in Explicit THEN GoTo("external")
     ELSE Answer("organization_membership_required")

CheckMember ==
  /\ At("member")
  /\ IF request.endpoint \notin OfOrganization \/ IsMember("owner") THEN GoTo("gate")
     ELSE IF request.endpoint \in Explicit THEN GoTo("external")
     ELSE Answer("organization_membership_required")

\* Mutant of ResolveExternal: a grant that denies is no reason to refuse the others.
ResolveAllows ==
  /\ At("external")
  /\ LET allowing == {g \in InForce : Concerns(g) /\ Bundle(g).effect = "allow"}
     IN IF allowing = {} THEN Answer("organization_grant_required")
        ELSE request' = [request EXCEPT !.access = allowing, !.step = "gate"]

\* ResolveExternalAccess: one query; one grant that denies refuses all.
ResolveExternal ==
  /\ At("external")
  /\ LET found == {g \in InForce : Concerns(g)}
     IN IF found = {} \/ \E g \in found : Bundle(g).effect = "deny"
        THEN Answer("organization_grant_required")
        ELSE request' = [request EXCEPT !.access = found, !.step = "gate"]

\* resourceAllowed, assuranceAllowed and evaluateTenant, which the loaders fulfil.
PassGate ==
  /\ At("gate")
  /\ IF (request.endpoint = "approve" /\ request.invoice \in System)
          \/ (request.endpoint \in Assured /\ ~request.assured)
     THEN Answer("hard_contract_denied")
     ELSE IF request.endpoint \in Permitted THEN GoTo("permission") ELSE Answer("allow")

\* A subject's own permission, feature and quota may be anything.
AskPermission ==
  /\ At("permission")
  /\ \E yes \in BOOLEAN, policies \in SUBSET Effects :
       /\ request.access # {} => yes = ExternalPermission(request.access, policies)
       /\ IF yes /\ request.endpoint \notin Metered THEN Answer("allow")
          ELSE GoOnIf(yes, "feature", "permission_denied")

\* Mutant of AskFeature: the features of the organization do for a grant, too.
AskFeatureOfOwner ==
  /\ At("feature")
  /\ \E yes \in BOOLEAN : GoOnIf(yes, "quota", "feature_disabled")

AskFeature ==
  /\ At("feature")
  /\ \E yes \in BOOLEAN :
       /\ request.access # {} => yes = ExternalFeature(request.access)
       /\ GoOnIf(yes, "quota", "feature_disabled")

AskQuota ==
  /\ At("quota")
  /\ \E yes, left \in BOOLEAN :
       /\ request.access # {} => yes = ExternalQuota(request.access, left)
       /\ Answer(IF yes THEN "allow" ELSE "quota_exceeded")

\* A query or Casdoor fails.
Fail ==
  /\ request # Idle /\ request.step \in {"member", "external", "permission", "feature", "quota"}
  /\ Answer("policy_invalid")

Finish == At("decided") /\ request' = Idle

-----------------------------------------------------------------------------
(* The rest of the system. *)

\* ClaimAcceptance of an invitation; a review's approval activates right away.
Claim(o) ==
  /\ membership[o].status = "none" /\ membership[o].id < MaxMemberships[o]
  /\ membership' = [membership EXCEPT ![o] = [id |-> @.id + 1, status |-> "provisioning"]]
  /\ UNCHANGED <<now, grants>>

Activate(o) ==
  /\ membership[o].status = "provisioning"
  /\ membership' = [membership EXCEPT ![o].status = "active"]
  /\ UNCHANGED <<now, grants>>

\* The row is deleted; the next one may have its id, to which nothing refers.
AbortClaim(o) ==
  /\ membership[o].status = "provisioning"
  /\ membership' = [membership EXCEPT ![o] = [id |-> @.id - 1, status |-> "none"]]
  /\ UNCHANGED <<now, grants>>

Kick(o) ==
  /\ membership[o].status = "active"
  /\ membership' = [membership EXCEPT ![o].status = "none"]
  /\ UNCHANGED <<now, grants>>

\* The trigger of external_grants_v2 wants an active membership as the target.
CreateExternalGrant(g, b) ==
  /\ grants[g] = Absent
  /\ b.target = "organization_member" => IsMember("partner")
  /\ grants' = [grants EXCEPT ![g] =
       [bundle |-> b, active |-> TRUE,
        membership |-> IF b.target = "organization_member" THEN membership["partner"].id ELSE 0]]
  /\ UNCHANGED <<now, membership>>

RevokeExternalGrant(g) ==
  /\ grants[g] # Absent /\ grants[g].active
  /\ grants' = [grants EXCEPT ![g].active = FALSE]
  /\ UNCHANGED <<now, membership>>

Tick == now < MaxTime /\ now' = now + 1 /\ UNCHANGED <<membership, grants>>

Decide ==
  CheckMember \/ ResolveExternal \/ PassGate \/ AskPermission \/ AskFeature \/ AskQuota \/ Fail

Change ==
  \/ \E o \in Organizations : Claim(o) \/ Activate(o) \/ AbortClaim(o) \/ Kick(o)
  \/ \E g \in Grants : (\E b \in Bundles : CreateExternalGrant(g, b)) \/ RevokeExternalGrant(g)
  \/ Tick

-----------------------------------------------------------------------------
(* The history, and what runs. *)

Moment ==
  [member |-> membership["owner"].status = "active",
   partner |-> IF membership["partner"].status = "active" THEN membership["partner"].id ELSE 0,
   grants |-> {g \in InForce : Concerns(g)}]

\* A decision is final when it is made: what changes until it is sent is the same
\* as what changes afterwards, and left out.
Next ==
  \/ /\ \E e \in Endpoints, i \in Invoices \union {"none"}, assured \in BOOLEAN : Begin(e, i, assured)
     /\ UNCHANGED world /\ moments' = {Moment'}
  \/ Decide /\ UNCHANGED <<world, moments>>
  \/ Finish /\ moments' = {} /\ UNCHANGED world
  \/ /\ Change /\ UNCHANGED request /\ ~At("decided")
     /\ moments' = IF request = Idle \/ request.endpoint \notin OfOrganization THEN moments
                   ELSE moments \union {Moment'}
     /\ Cardinality(moments') <= MaxMoments

Spec == Init /\ [][Next]_vars

-----------------------------------------------------------------------------
(* What must hold. *)

Allowed == At("decided") /\ request.code = "allow"

\* README.md:72, 84: an organization's endpoint asks for a membership that was
\* active at some moment of the request, whatever Casdoor says; only the
\* approval of an invoice may be granted to others.
MembershipGate ==
  Allowed /\ request.endpoint \in OfOrganization =>
    \/ request.access = {} /\ \E m \in moments : m.member
    \/ request.access # {} /\ request.endpoint = "approve"

\* README.md:76, 84: although permission, feature and quota are asked one after
\* the other, an external request is decided by the grants of one moment: some
\* of their items say yes to each, and not one of them says no to anything, so
\* that a grant that denies is not overruled by another.
OneMoment ==
  Allowed /\ request.access # {} =>
    \E m \in moments :
      LET G == m.grants
      IN /\ request.access = G
         /\ \A g \in G : Bundle(g).effect = "allow" /\ Bundle(g).permission # "deny"
         /\ \E g \in G : "allow" \in Bundle(g).feature
         /\ \E g \in G : "allow" \in Bundle(g).quota
         /\ \E g \in G : Bundle(g).permission = "allow" \/ Bundle(g).role = "allow"
         /\ \A g \in G : "deny" \notin Bundle(g).feature \union Bundle(g).quota

\* README.md:80-82: what a kicked member may do by grants: what his membership
\* was given is lost with it, also when he joins again; what his organization was
\* given he has while he is a member.
KickIsFinal ==
  Allowed =>
    \E m \in moments : \A g \in request.access :
      /\ Bundle(g).target = "organization_member" => m.partner = grants[g].membership
      /\ Bundle(g).target = "organization" => m.partner # 0

\* Who was neither a member nor the target of a grant at any moment is told that
\* there is nothing (the codes that abortDecision answers with 404), whatever
\* else is wrong with his request.
OutsidersFindNothing ==
  At("decided") /\ request.endpoint \in OfOrganization
    /\ (\A m \in moments : ~m.member /\ m.grants = {}) =>
      request.code \in {"organization_grant_required", "organization_membership_required", "policy_invalid"}

================================================================================
