----------------------------- MODULE Entitlements -----------------------------
(***************************************************************************)
(* A subject's subscription, the features and quota rows that its plan is  *)
(* materialized into, and manual overrides, while operations and external  *)
(* grants use the quota rows.  All tables are the subject's.  A command is *)
(* one transaction; one that a key, an index, a CHECK or a foreign key     *)
(* refuses rolls back, so its conditions are guards.                       *)
(*                                                                         *)
(* Time is the number of the current period.  An operation costs 1 and a   *)
(* grant is allocated 1, so each takes from one row.                       *)
(***************************************************************************)
EXTENDS Integers, FiniteSets, Functions

CONSTANTS
  Subscriptions,  \* ids that commands name
  Plans,
  FeatureRules,   \* plan_feature_rules_v2: effect by plan and feature
  QuotaRules,     \* plan_quota_rules_v2: effect and limit by plan and key
  Manual,         \* the id of the override of each feature and key
  Keys,
  Features,
  Periods,
  Ops,            \* operation ids of the quota engine
  Grants,         \* external grants of the subject
  Limits          \* limits an override may set

Effects == {"allow", "deny"}

ASSUME EntitlementsAssumption ==
  /\ \A p \in Plans : /\ DOMAIN FeatureRules[p] \subseteq Features /\ DOMAIN QuotaRules[p] \subseteq Keys
                      /\ \A f \in DOMAIN FeatureRules[p] : FeatureRules[p][f] \in Effects
                      /\ \A k \in DOMAIN QuotaRules[p] : QuotaRules[p][k] \in [effect : Effects, limit : Nat]
  /\ Manual \notin Subscriptions /\ Periods \subseteq Nat /\ Limits \subseteq Nat
  /\ IsFiniteSet(Ops) /\ IsFiniteSet(Grants)

VARIABLES
  subscription,  \* rows of subscriptions_v2, by id
  features,      \* rows of subject_feature_entitlements_v2: effect by <<source, feature>>
  quotas,        \* rows of subject_quota_entitlements_v2, by <<source, key, materialized period>>
  reservation,   \* of each operation: the row it names, and its status
  ledger,        \* operations with a reserve entry
  allocation,    \* of each grant: the owner's row, and whether the amount is lent, used or returned
  now            \* the current period

subjectTables == <<subscription, features, quotas, reservation, ledger, allocation, now>>

Sources == Subscriptions \union {Manual}
RowIds == Sources \X Keys \X Periods
Rows == [effect : Effects, limit : Nat, used : Nat, reserved : Nat, period : Periods]

Absent == [row |-> <<>>, status |-> "none"]

SubjectTypeOK ==
  /\ DOMAIN subscription \subseteq Subscriptions
  /\ \A s \in DOMAIN subscription :
       subscription[s] \in [plan : Plans, status : {"trialing", "active", "cancelled"}, period : Periods]
  /\ DOMAIN features \subseteq Sources \X Features /\ Range(features) \subseteq Effects
  /\ DOMAIN quotas \subseteq RowIds /\ Range(quotas) \subseteq Rows
  /\ \A id \in DOMAIN quotas : quotas[id].used + quotas[id].reserved <= quotas[id].limit
  /\ reservation \in [Ops -> {Absent} \union [row : RowIds, status : {"reserved", "committed", "released"}]]
  /\ allocation \in [Grants -> {Absent} \union [row : RowIds, status : {"lent", "used", "returned"}]]
  /\ ledger \subseteq Ops /\ now \in Periods

SubjectInit ==
  /\ subscription = <<>> /\ features = <<>> /\ quotas = <<>>
  /\ reservation = [o \in Ops |-> Absent] /\ ledger = {}
  /\ allocation = [g \in Grants |-> Absent]
  /\ now \in Periods /\ \A p \in Periods : now <= p

-----------------------------------------------------------------------------
(* Materialization. *)

\* Mutant of Cleared: a reservation does not keep a row.
ClearedUnlessUsed(qs) == {id \in DOMAIN qs : id[1] # Manual /\ qs[id].used = 0}

\* Rows that clearPlanMaterialization deletes.
Cleared(qs) == {id \in DOMAIN qs : id[1] # Manual /\ qs[id].used = 0 /\ qs[id].reserved = 0}

PlanFeatures(s, plan) == [x \in {s} \X (DOMAIN FeatureRules[plan]) |-> FeatureRules[plan][x[2]]]

PlanQuotas(s, plan, p) ==
  [id \in {s} \X (DOMAIN QuotaRules[plan]) \X {p} |->
     [effect |-> QuotaRules[plan][id[2]].effect, limit |-> QuotaRules[plan][id[2]].limit,
      used |-> 0, reserved |-> 0, period |-> p]]

\* Mutant of Insertable: a row that exists is replaced.
InsertableAlways(rows, table) == TRUE

\* INSERT with no ON CONFLICT clause.
Insertable(rows, table) == (DOMAIN rows) \intersect DOMAIN table = {}

Insert(rows, table) == [x \in (DOMAIN rows) \union DOMAIN table |->
                          IF x \in DOMAIN rows THEN rows[x] ELSE table[x]]

\* materializePlan, into what the tables hold then.
Materialize(s, plan, p, fs, qs) ==
  /\ Insertable(PlanFeatures(s, plan), fs)
  /\ Insertable(PlanQuotas(s, plan, p), qs)
  /\ features' = Insert(PlanFeatures(s, plan), fs)
  /\ quotas' = Insert(PlanQuotas(s, plan, p), qs)

-----------------------------------------------------------------------------
(* The manager's commands. *)

\* Mutant of SubjectIndex: a subject may have several subscriptions.
SubjectIndexAbsent(s) == TRUE

\* UNIQUE(subject_type,subject_id): ON CONFLICT(id) does not cover it.
SubjectIndex(s) == DOMAIN subscription \subseteq {s}

\* Allocations have no ON DELETE: they keep their row.  Reservations cascade.
Activate(s, plan, status, p) ==
  LET gone == Cleared(quotas)
  IN /\ SubjectIndex(s)
     /\ \A g \in Grants : allocation[g].row \notin gone
     /\ subscription' = Insert([x \in {s} |-> [plan |-> plan, status |-> status, period |-> p]], subscription)
     /\ Materialize(s, plan, p,
                    Restrict(features, {x \in DOMAIN features : x[1] = Manual}),
                    Restrict(quotas, (DOMAIN quotas) \ gone))
     /\ reservation' = [o \in Ops |-> IF reservation[o].row \in gone THEN Absent ELSE reservation[o]]
     /\ UNCHANGED <<ledger, allocation, now>>

\* Mutant of Renew: the period moves, its rows are not made.
RenewPeriodOnly(s, p) ==
  /\ s \in DOMAIN subscription
  /\ subscription' = [subscription EXCEPT ![s].period = p]
  /\ UNCHANGED <<features, quotas, reservation, ledger, allocation, now>>

\* Nothing is cleared: a plan with features is refused.
Renew(s, p) ==
  /\ s \in DOMAIN subscription
  /\ subscription' = [subscription EXCEPT ![s].period = p]
  /\ Materialize(s, subscription[s].plan, p, features, quotas)
  /\ UNCHANGED <<reservation, ledger, allocation, now>>

\* The materialized rows stay.
Cancel(s) ==
  /\ s \in DOMAIN subscription /\ subscription[s].status \in {"trialing", "active"}
  /\ subscription' = [subscription EXCEPT ![s].status = "cancelled"]
  /\ UNCHANGED <<features, quotas, reservation, ledger, allocation, now>>

OverrideFeature(f, effect) ==
  /\ features' = Insert([x \in {<<Manual, f>>} |-> effect], features)
  /\ UNCHANGED <<subscription, quotas, reservation, ledger, allocation, now>>

\* CHECK(used+reserved<=quota_limit)
Fits(row) == row.used + row.reserved <= row.limit

\* The upsert leaves the counters; the id does not follow the period.
OverrideQuota(k, effect, limit, p) ==
  LET mine == {id \in DOMAIN quotas : id[1] = Manual /\ id[2] = k}
      Changed(id) == [quotas[id] EXCEPT !.effect = effect, !.limit = limit, !.period = p]
  IN /\ \A id \in mine : Fits(Changed(id))
     /\ quotas' = IF mine = {}
                  THEN Insert([id \in {<<Manual, k, p>>} |->
                                 [effect |-> effect, limit |-> limit, used |-> 0, reserved |-> 0, period |-> p]], quotas)
                  ELSE Insert([id \in mine |-> Changed(id)], quotas)
     /\ UNCHANGED <<subscription, features, reservation, ledger, allocation, now>>

-----------------------------------------------------------------------------
(* The users of the rows, as far as they read and write them. *)

InForce(k) == {id \in DOMAIN quotas : id[2] = k /\ quotas[id].period = now}

HasRoom(id) == quotas[id].effect = "allow" /\ quotas[id].used + quotas[id].reserved < quotas[id].limit

ReserveQuotas(o, k) ==
  /\ o \notin ledger /\ \A id \in InForce(k) : quotas[id].effect # "deny"
  /\ \E id \in {x \in InForce(k) : HasRoom(x)} :
       /\ quotas' = [quotas EXCEPT ![id].reserved = @ + 1]
       /\ reservation' = [reservation EXCEPT ![o] = [row |-> id, status |-> "reserved"]]
  /\ ledger' = ledger \union {o}
  /\ UNCHANGED <<subscription, features, allocation, now>>

CommitQuotas(o) ==
  /\ reservation[o].status = "reserved"
  /\ quotas' = [quotas EXCEPT ![reservation[o].row].reserved = @ - 1, ![reservation[o].row].used = @ + 1]
  /\ reservation' = [reservation EXCEPT ![o].status = "committed"]
  /\ UNCHANGED <<subscription, features, ledger, allocation, now>>

ReleaseQuotas(o) ==
  /\ reservation[o].status = "reserved"
  /\ quotas' = [quotas EXCEPT ![reservation[o].row].reserved = @ - 1]
  /\ reservation' = [reservation EXCEPT ![o].status = "released"]
  /\ UNCHANGED <<subscription, features, ledger, allocation, now>>

CreateExternalGrant(g, k) ==
  /\ allocation[g] = Absent
  /\ \E id \in {x \in InForce(k) : HasRoom(x)} :
       /\ quotas' = [quotas EXCEPT ![id].reserved = @ + 1]
       /\ allocation' = [allocation EXCEPT ![g] = [row |-> id, status |-> "lent"]]
  /\ UNCHANGED <<subscription, features, reservation, ledger, now>>

ConsumeExternal(g) ==
  /\ allocation[g].status = "lent"
  /\ quotas' = [quotas EXCEPT ![allocation[g].row].reserved = @ - 1, ![allocation[g].row].used = @ + 1]
  /\ allocation' = [allocation EXCEPT ![g].status = "used"]
  /\ UNCHANGED <<subscription, features, reservation, ledger, now>>

RevokeExternalGrant(g) ==
  /\ allocation[g].status = "lent"
  /\ quotas' = [quotas EXCEPT ![allocation[g].row].reserved = @ - 1]
  /\ allocation' = [allocation EXCEPT ![g].status = "returned"]
  /\ UNCHANGED <<subscription, features, reservation, ledger, now>>

NextPeriod ==
  /\ now + 1 \in Periods
  /\ now' = now + 1
  /\ UNCHANGED <<subscription, features, quotas, reservation, ledger, allocation>>

SubjectNext ==
  \/ \E s \in Subscriptions, p \in Periods :
       \/ \E plan \in Plans, status \in {"trialing", "active", "cancelled"} : Activate(s, plan, status, p)
       \/ Renew(s, p)
       \/ Cancel(s)
  \/ \E f \in Features, effect \in Effects : OverrideFeature(f, effect)
  \/ \E k \in Keys, effect \in Effects, limit \in Limits, p \in Periods : OverrideQuota(k, effect, limit, p)
  \/ \E o \in Ops : (\E k \in Keys : ReserveQuotas(o, k)) \/ CommitQuotas(o) \/ ReleaseQuotas(o)
  \/ \E g \in Grants : (\E k \in Keys : CreateExternalGrant(g, k)) \/ ConsumeExternal(g) \/ RevokeExternalGrant(g)
  \/ NextPeriod

SubjectSpec == SubjectInit /\ [][SubjectNext]_subjectTables

-----------------------------------------------------------------------------
(* What must hold. *)

\* The plan's feature rows are those of the plan subscribed to, whatever plans
\* came before it and however often it was activated or renewed.
FeaturesFollowPlan ==
  \A s \in DOMAIN subscription :
    Restrict(features, {x \in DOMAIN features : x[1] # Manual}) = PlanFeatures(s, subscription[s].plan)

\* Each rule of the plan has its row for the period paid for; older rows stay
\* only as long as something was taken from them or a renewal left them.
QuotasFollowPlan ==
  \A s \in DOMAIN subscription :
    LET rows == PlanQuotas(s, subscription[s].plan, subscription[s].period)
    IN \A id \in DOMAIN rows :
         /\ id \in DOMAIN quotas
         /\ quotas[id].effect = rows[id].effect
         /\ quotas[id].limit = rows[id].limit

\* No command gives quota a second time: what a row counts as used or reserved
\* is what operations and grants have used or hold of it, and it does not go; nor
\* does a command leave less quota than that, as an override of the limit could.
UsageIsNotForgotten ==
  \A id \in RowIds :
    LET Of(status) == Cardinality({o \in Ops : reservation[o] = [row |-> id, status |-> status]})
        Lent(status) == Cardinality({g \in Grants : allocation[g] = [row |-> id, status |-> status]})
        used == Of("committed") + Lent("used")
        reserved == Of("reserved") + Lent("lent")
    IN IF id \in DOMAIN quotas
       THEN /\ quotas[id].used = used /\ quotas[id].reserved = reserved
            /\ used + reserved <= quotas[id].limit
       ELSE used + reserved = 0

\* A plan change, which deletes rows and by cascade the reservations that name
\* them, ends no reservation: only its own commit or release does.
HoldersKeepTheirRows ==
  [][\A o \in Ops :
       reservation[o].status = "reserved" /\ reservation'[o] # reservation[o] =>
         reservation'[o].row = reservation[o].row /\ subscription' = subscription]_subjectTables

================================================================================
