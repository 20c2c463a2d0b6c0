----------------------------- MODULE GrantIssuing -----------------------------
(***************************************************************************)
(* The user of MembershipApplications, while he is a member, issues and    *)
(* revokes external grants for his organizations.  ExternalGrantService    *)
(* asks its questions one after the other (is he a member, may he manage   *)
(* grants, does the organization own this item, and this one) and only     *)
(* then the store writes, in a transaction that repeats few of them: by    *)
(* then he may have been kicked and the items lost.                        *)
(*                                                                         *)
(* A grant id is 16 random bytes made for the request that issues it, so   *)
(* the id of a request is that of its grant.  How much quota an item lends *)
(* is GrantQuota's matter; whom a grant serves, Authorization's.           *)
(***************************************************************************)
EXTENDS MembershipApplications

CONSTANTS
  Requests,    \* requests of managers
  Items,       \* keys of permissions, roles, groups, features, plans and quotas
  KindOf,      \* which of these an item is
  Manage,      \* the permission external_grant.manage
  Rules,       \* of each plan: the effect of each feature and quota it has a rule for
  Offered,     \* of each organization: the plans in plans_v2 that it may lend
  Bundles,     \* the items of a definition, as functions to "allow" and "deny"
  MaxIssues,   \* bound on the grants that are being or have been issued
  Changing,    \* bound: the pairs of an organization and an item it may gain or lose
  MaxChanges   \* bound on how often that happens

Kinds6 == <<"permission", "role", "group", "feature", "plan", "quota">>
Plans == {i \in Items : KindOf[i] = "plan"}
Effects == {"allow", "deny"}

ASSUME IssuingAssumption ==
  /\ KindOf \in [Items -> {"permission", "role", "group", "feature", "plan", "quota"}]
  /\ Manage \in Items /\ KindOf[Manage] = "permission"
  /\ {"member", "manager"} \intersect Items = {}
  /\ DOMAIN Rules = Plans
  /\ \A p \in Plans : /\ DOMAIN Rules[p] \subseteq {i \in Items : KindOf[i] \in {"feature", "quota"}}
                      /\ \A i \in DOMAIN Rules[p] : Rules[p][i] \in Effects
  /\ Offered \in [Organizations -> SUBSET Plans]
  /\ \A b \in Bundles : DOMAIN b \subseteq Items /\ \A i \in DOMAIN b : b[i] \in Effects
  /\ Changing \subseteq Organizations \X Items
  /\ MaxIssues \in Nat /\ MaxChanges \in Nat

VARIABLES
  owned,    \* the items each organization (for a permission: its manager) has
  request,  \* what each request is after and which questions are left
  grant,    \* external_grants_v2 and its item tables
  seen,     \* history: the answers that were yes at some moment of the request
  changes   \* how often what is owned has changed

issuing == <<owned, request, grant, seen, changes>>

-----------------------------------------------------------------------------
(* The questions. *)

\* What an item gives is asked about, what it denies is not; a role or group
\* must be the organization's either way.
Questions(b) ==
  {"member", "manager"} \union
  {i \in DOMAIN b : b[i] = "allow" \/ KindOf[i] \in {"role", "group"}}

\* Mutant of RevokeQuestions: Revoke asks for the permission only.
RevokeUnlessMember(r) == {"manager"}

\* Revoke asks who is asking.
RevokeQuestions(r) == {"member", "manager"}

\* IsMember, Enforce, ValidateRoles, ValidateGroups, HasFeature, HasPlan, QuotaAvailable.
Holds(o, q) ==
  CASE q = "member"  -> ActiveMember(o)
    [] q = "manager" -> Manage \in owned[o]
    [] OTHER         -> q \in owned[o]

\* The order of Create; the roles are held against one snapshot, as the groups are.
Turn(q) ==
  CASE q = "member"  -> 1
    [] q = "manager" -> 2
    [] OTHER         -> 2 + CHOOSE n \in DOMAIN Kinds6 : Kinds6[n] = KindOf[q]

AskedTogether(left) ==
  LET next == {q \in left : \A p \in left : Turn(q) <= Turn(p)}
      one == CHOOSE q \in next : TRUE
  IN IF \E q \in next : Turn(q) \in {4, 5} THEN next ELSE {one}

-----------------------------------------------------------------------------
(* Requests. *)

None == [state |-> "none"]
Over == [state |-> "over"]
Open(r) == request[r].state = "open"

NoGrant == [status |-> "none", of |-> NoOrganization, content |-> {}]

IssueInit ==
  /\ Init
  /\ owned = [o \in Organizations |-> Items]
  /\ request = [r \in Requests |-> None]
  /\ grant = [r \in Requests |-> NoGrant]
  /\ seen = [r \in Requests |-> {}]
  /\ changes = 0

Become(r, state) == request' = [request EXCEPT ![r] = state]

\* A definition that passes validateExternalGrant arrives.
AskToIssue(r, o, b) ==
  /\ request[r] = None
  /\ Cardinality({g \in Requests : request[g] \notin {None, Over} /\ request[g].target = g}) < MaxIssues
  /\ Become(r, [state |-> "open", of |-> o, bundle |-> b, target |-> r,
                left |-> Questions(b)])
  /\ UNCHANGED <<owned, grant, changes>>

\* The id of the grant comes from the path: it may be anybody's.
AskToRevoke(r, o, g) ==
  /\ request[r] = None
  /\ g # r /\ grant[g].status # "none"
  /\ Become(r, [state |-> "open", of |-> o, bundle |-> <<>>, target |-> g,
                left |-> RevokeQuestions(r)])
  /\ UNCHANGED <<owned, grant, changes>>

Asking(r) == Open(r) /\ request[r].left # {}

AnswerYes(r) ==
  /\ Asking(r)
  /\ \A q \in AskedTogether(request[r].left) : Holds(request[r].of, q)
  /\ request' = [request EXCEPT ![r].left = @ \ AskedTogether(@)]
  /\ UNCHANGED <<owned, grant, changes>>

\* ErrExternalGrantForbidden, ErrGrantEscalation, ErrInvalidExternalGrant.
AnswerNo(r) ==
  /\ Asking(r)
  /\ \E q \in AskedTogether(request[r].left) : ~Holds(request[r].of, q)
  /\ Become(r, Over)
  /\ UNCHANGED <<owned, grant, changes>>

\* A query fails, the transaction fails, the process dies.
RequestEnds(r) ==
  /\ Open(r)
  /\ Become(r, Over)
  /\ UNCHANGED <<owned, grant, changes>>

-----------------------------------------------------------------------------
(* The store's transactions. *)

\* Mutant of Materialized: a plan's rules keep their effect in a plan that is denied.
MaterializedAsRuled(b) ==
  UNION {{<<i, Rules[p][i], p>> : i \in DOMAIN Rules[p]} : p \in DOMAIN b \intersect Plans}

\* insertPlanItems: no question is asked about what the plan stands for.
Materialized(b) ==
  UNION {{<<i, IF b[p] = "deny" THEN "deny" ELSE Rules[p][i], p>> : i \in DOMAIN Rules[p]} :
         p \in DOMAIN b \intersect Plans}

Content(b) == {<<i, b[i], i>> : i \in DOMAIN b} \union Materialized(b)

\* What the transaction itself refuses: the one item that is never lent, a plan
\* that is not the organization's to lend, quota that is gone (allocateGrantQuota).
Insertable(o, b) ==
  /\ Manage \notin DOMAIN b
  /\ DOMAIN b \intersect Plans \subseteq Offered[o]
  /\ \A c \in Content(b) : KindOf[c[1]] = "quota" /\ c[2] = "allow" => c[1] \in owned[o]

CreateGrant(r) ==
  LET b == request[r].bundle
      o == request[r].of
  IN /\ Open(r) /\ request[r].left = {} /\ request[r].target = r
     /\ Insertable(o, b)
     /\ grant' = [grant EXCEPT ![r] = [status |-> "active", of |-> o, content |-> Content(b)]]
     /\ Become(r, [request[r] EXCEPT !.state = "done"])
     /\ UNCHANGED <<owned, changes>>

\* The last UPDATE: else the transaction rolls back, its releases of quota with it.
Revocable(g, o) == grant[g].status = "active" /\ grant[g].of = o

RevokeGrant(r) ==
  LET g == request[r].target
  IN /\ Open(r) /\ request[r].left = {} /\ g # r
     /\ Revocable(g, request[r].of)
     /\ grant' = [grant EXCEPT ![g].status = "revoked"]
     /\ Become(r, [request[r] EXCEPT !.state = "done"])
     /\ UNCHANGED <<owned, changes>>

-----------------------------------------------------------------------------
(* Meanwhile. *)

\* An administrator of Casdoor, a plan's end, usage: an item is lost or gained.
OwnershipChanges(o, i) ==
  /\ changes < MaxChanges
  /\ changes' = changes + 1
  /\ owned' = [owned EXCEPT ![o] = IF i \in @ THEN @ \ {i} ELSE @ \union {i}]
  /\ UNCHANGED <<request, grant>>

Issuing ==
  \/ \E r \in Requests :
       \/ \E o \in Organizations :
            \/ \E b \in Bundles : AskToIssue(r, o, b)
            \/ \E g \in Requests : AskToRevoke(r, o, g)
       \/ AnswerYes(r)
       \/ AnswerNo(r)
       \/ RequestEnds(r)
       \/ CreateGrant(r)
       \/ RevokeGrant(r)
  \/ \E c \in Changing : OwnershipChanges(c[1], c[2])

\* What is so while the request is open is a moment of the request.
Witnessed(r) ==
  IF ~Open(r) THEN {}
  ELSE {q \in {"member", "manager"} \union DOMAIN request[r].bundle : Holds(request[r].of, q)}

IssueNext ==
  /\ \/ Next /\ UNCHANGED <<owned, request, grant, changes>>
     \/ Issuing /\ UNCHANGED vars
  /\ seen' = [r \in Requests |-> seen[r] \union Witnessed(r)']

IssueSpec == IssueInit /\ [][IssueNext]_<<vars, issuing>>

-----------------------------------------------------------------------------
(* What must hold. *)

Done(r) == request[r].state = "done"

\* README.md:84: management is not delegated.  Whatever was issued or revoked,
\* its author was a member of the grant's own organization and was permitted to
\* manage, each at a moment of his own request, and no grant hands this on.
ManagedByMembers ==
  \A r \in Requests :
    /\ Done(r) => /\ {"member", "manager"} \subseteq seen[r]
                  /\ grant[request[r].target].of = request[r].of
    /\ \A c \in grant[r].content : c[1] # Manage

\* "organization grant exceeds owner entitlements" (ErrGrantEscalation): all that
\* a grant allows the organization had at a moment of the request, or it had the
\* plan it comes with; and a plan that is denied allows nothing.
WithinMeans ==
  \A r \in Requests : \A c \in grant[r].content :
    c[2] = "allow" => c[3] \in seen[r] /\ <<c[3], "allow", c[3]>> \in grant[r].content

================================================================================
