---------------------------- MODULE IdentitySnapshot ----------------------------
(***************************************************************************)
(* GET /v1/me: what it shows a user of one scope (himself, or one of his   *)
(* organizations) and of the external grants he has.  Casdoor's rules are  *)
(* read and followed first (PolicyReachability).  Then the rows of SQLite  *)
(* are merged, table by table and row by row; the queries have no ORDER    *)
(* BY, so the rows of a table come in any order.                           *)
(*                                                                         *)
(* One operation, one feature and one quota key: every other one has a map *)
(* entry of its own.  The tables hold the rows in force; one transaction   *)
(* reads them, so they do not change.                                      *)
(***************************************************************************)
EXTENDS PolicyReachability, Integers, Totals

CONSTANTS
  Own,      \* the scope
  Grants,   \* the external grants, each a scope of its own
  Null,     \* of SQL: no limit, no end of the period
  MaxInt,   \* the largest int64
  RowLists  \* what the tables may hold, for a list of g rules

Effects == {"allow", "deny"}
Scopes == {Own} \union Grants

\* A policy is a p rule, a directory item a role or group that a grant names;
\* taken is used and reserved together, and CHECKs hold it under the limit.
PolicyRows == [table : {"policy"}, scope : {Own}, subject : Principals, effect : Effects]
FeatureRows == [table : {"feature"}, scope : {Own}, effect : Effects]
QuotaRows ==
  {row \in [table : {"quota"}, scope : {Own}, effect : Effects, limit : Nat \union {Null}, taken : Nat,
            start : Nat, end : Nat \union {Null}] :
     row.limit # Null => row.taken <= row.limit}
ItemRows ==
  [table : {"permission item", "feature item", "directory item"}, scope : Grants, effect : Effects]
AllocationRows ==
  {row \in [table : {"allocation"}, scope : Grants, effect : Effects, limit : Nat, taken : Nat] :
     row.taken <= row.limit}
Rows == PolicyRows \union FeatureRows \union QuotaRows \union ItemRows \union AllocationRows

ASSUME SnapshotAssumption ==
  /\ Own \notin Grants /\ IsFiniteSet(Grants)
  /\ Null \notin Int
  /\ MaxInt \in Nat
  /\ \A list \in RuleLists : RowLists[list] \subseteq Seq(Rows)

VARIABLES
  rows,    \* the p rules of the domain and the tables
  unread,  \* the rows still to come
  shown    \* the accumulator of each scope

vars == <<following, rows, unread, shown>>

Facts == Effects \union {"none"}
Quotas ==
  [effect : Facts, unlimited : BOOLEAN, left : Int,
   start : Nat, end : Nat \union {Null}, unbounded : BOOLEAN]

TypeOK ==
  /\ FollowTypeOK
  /\ rows \in Seq(Rows)
  /\ unread \subseteq DOMAIN rows
  /\ shown \in [Scopes -> [permission : Facts, feature : Facts, quota : Quotas]]

\* The maps are empty.
NewScope ==
  [permission |-> "none", feature |-> "none",
   quota |-> [effect |-> "none", unlimited |-> FALSE, left |-> 0,
              start |-> 0, end |-> Null, unbounded |-> FALSE]]

Init ==
  /\ FollowInit
  /\ rows \in RowLists[rules]
  /\ unread = DOMAIN rows
  /\ shown = [s \in Scopes |-> NewScope]

-----------------------------------------------------------------------------
(* Merging. *)

\* Mutant of AddFacts: the last row decides.
AddFactsLast(fact, effects) ==
  IF effects = {} THEN fact ELSE IF "deny" \in effects THEN "deny" ELSE "allow"

\* addFact, of several sources.
AddFacts(fact, effects) ==
  IF effects = {} THEN fact ELSE IF "deny" \in effects \union {fact} THEN "deny" ELSE "allow"

\* Go's int64.
Wrap(n) == ((n + MaxInt + 1) % (2 * (MaxInt + 1))) - (MaxInt + 1)

\* The first row's start is where addQuota begins.
Earlier(q, row) == IF q.effect = "none" \/ row.start < q.start THEN row.start ELSE q.start

\* The later end.  Go's nil stands both for no end and for no row yet.
Later(q, row) == IF q.end # Null /\ row.end < q.end THEN q.end ELSE row.end

\* Mutant of MergePeriod: nil is taken for "no row yet".
MergePeriodUnflagged(q, row) ==
  [q EXCEPT !.start = Earlier(q, row),
            !.end = IF row.end = Null THEN Null ELSE Later(q, row)]

MergePeriod(q, row) ==
  [q EXCEPT !.start = Earlier(q, row),
            !.unbounded = q.unbounded \/ row.end = Null,
            !.end = IF row.end = Null \/ q.unbounded THEN Null ELSE Later(q, row)]

\* Mutant of Count: what is used or reserved is not subtracted.
CountLimits(q, row) ==
  IF row.effect = "deny" THEN [q EXCEPT !.effect = "deny"]
  ELSE [q EXCEPT !.effect = AddFacts(q.effect, {"allow"}),
                 !.unlimited = q.unlimited \/ row.limit = Null,
                 !.left = IF row.limit = Null THEN q.left ELSE Wrap(q.left + row.limit)]

\* What addQuota and loadExternalQuotas share: a deny row only denies.
Count(q, row) ==
  IF row.effect = "deny" THEN [q EXCEPT !.effect = "deny"]
  ELSE [q EXCEPT !.effect = AddFacts(q.effect, {"allow"}),
                 !.unlimited = q.unlimited \/ row.limit = Null,
                 !.left = IF row.limit = Null THEN q.left ELSE Wrap(q.left + row.limit - row.taken)]

-----------------------------------------------------------------------------
(* The loaders. *)

\* The order in which the tables are read.
Loaders ==
  <<"policy", "feature", "quota", "permission item", "feature item", "directory item", "allocation">>
Turn(table) == CHOOSE i \in DOMAIN Loaders : Loaders[i] = table

\* A row of the table whose turn it is, once the rules are followed.
Take(n, tables) ==
  /\ loop = "done"
  /\ n \in unread /\ rows[n].table \in tables
  /\ \A m \in unread : Turn(rows[n].table) <= Turn(rows[m].table)
  /\ unread' = unread \ {n}
  /\ UNCHANGED <<following, rows>>

\* addCasbinPermissionFacts: one fact for every origin of the rule's subject.
AddPolicy(n) ==
  /\ Take(n, {"policy"})
  /\ LET effects == IF origins[rows[n].subject] = {} THEN {} ELSE {rows[n].effect}
     IN shown' = [shown EXCEPT ![Own].permission = AddFacts(@, effects)]

\* loadFeatures, and loadExternalFactRows for the grants' features.
AddFeature(n) ==
  /\ Take(n, {"feature", "feature item"})
  /\ shown' = [shown EXCEPT ![rows[n].scope].feature = AddFacts(@, {rows[n].effect})]

\* loadExternalFactRows for the grants' permissions.
AddPermission(n) ==
  /\ Take(n, {"permission item"})
  /\ shown' = [shown EXCEPT ![rows[n].scope].permission = AddFacts(@, {rows[n].effect})]

\* Effects of the policies of these subjects.
PoliciesOf(subjects) ==
  {rows[m].effect : m \in {p \in DOMAIN rows : rows[p].table = "policy" /\ rows[p].subject \in subjects}}

\* Mutant of ItemEffects: an item that denies passes the policies on.
ItemEffectsOfPolicies(item, policies) == policies

\* An item that denies turns what its role or group may into what it may not.
ItemEffects(item, policies) ==
  IF item = "deny" /\ policies # {} THEN {"deny"} ELSE policies

\* loadExternalDirectoryFacts
AddDirectoryItem(n) ==
  /\ Take(n, {"directory item"})
  /\ shown' = [shown EXCEPT ![rows[n].scope].permission =
                 AddFacts(@, ItemEffects(rows[n].effect, PoliciesOf(reachable)))]

\* addQuota
AddQuota(n) ==
  /\ Take(n, {"quota"})
  /\ shown' = [shown EXCEPT ![Own].quota = Count(MergePeriod(@, rows[n]), rows[n])]

\* loadExternalQuotas: an allocation has a limit and no period.
AddAllocation(n) ==
  /\ Take(n, {"allocation"})
  /\ shown' = [shown EXCEPT ![rows[n].scope].quota = Count(@, rows[n])]

Merge ==
  \E n \in unread :
    \/ AddPolicy(n) \/ AddFeature(n) \/ AddPermission(n) \/ AddDirectoryItem(n)
    \/ AddQuota(n) \/ AddAllocation(n)

Follow == FollowNext /\ UNCHANGED <<rows, unread, shown>>

Next == Follow \/ Merge

Spec == Init /\ [][Next]_vars
FairSpec == Spec /\ WF_vars(Next)

-----------------------------------------------------------------------------
(* What the authorization engine answers from the same rules and rows. *)

In(table, S) == {n \in DOMAIN rows : rows[n].table = table /\ rows[n].scope \in S}
EffectsOf(N) == {rows[n].effect : n \in N}

\* Casbin: the model's matcher and effect.
Enforce == PoliciesOf(Reach(Start, All)) = {"allow"}

HasFeature == EffectsOf(In("feature", {Own})) = {"allow"}

Available(N) == Total([n \in N |-> rows[n].limit - rows[n].taken], N)

\* SQLite's SUM fails when it overflows, and the request with it.
Answers(N) == Available(N) <= MaxInt

OwnQuotas == In("quota", {Own})
Limited(N) == {n \in N : rows[n].effect = "allow" /\ rows[n].limit # Null}

QuotaAvailable(cost) ==
  /\ EffectsOf(OwnQuotas) = {"allow"}
  /\ (\E n \in OwnQuotas : rows[n].limit = Null) \/ Available(Limited(OwnQuotas)) >= cost

\* externalDirectPermission and externalDirectoryPermission together.
ExternalPermission(G) ==
  LET direct == EffectsOf(In("permission item", G))
      items == EffectsOf(In("directory item", G))
      policies == PoliciesOf(Reach(Granted, All))
  IN /\ "allow" \in direct \/ ("allow" \in items /\ "allow" \in policies)
     /\ "deny" \notin direct
     /\ items # {} => "deny" \notin policies
     /\ "deny" \in items => policies = {}

ExternalFeature(G) == EffectsOf(In("feature item", G)) = {"allow"}

ExternalQuota(G, cost) ==
  EffectsOf(In("allocation", G)) = {"allow"} /\ Available(In("allocation", G)) >= cost

-----------------------------------------------------------------------------
(* What must hold. *)

Complete == loop = "done" /\ unread = {}

\* What /me shows of the user's scope is what the engine decides for him, though
\* it is computed from other queries, by other code, and deny rows may come
\* before or after those that allow.
OwnFactsAsDecided ==
  Complete =>
    /\ shown[Own].permission = "allow" <=> Enforce
    /\ shown[Own].feature = "allow" <=> HasFeature

\* /me shows each grant's bundle, the engine decides on all that match a request
\* together: some bundle shows "allow", and none shows "deny".
OneAllows(G, Effect(_)) == (\E g \in G : Effect(g) = "allow") /\ \A g \in G : Effect(g) # "deny"

\* What /me shows of the bundles is what the engine decides for any set of them:
\* an item that denies a role or group denies what the role or group may.
LentFactsAsDecided ==
  Complete => \A G \in SUBSET Grants :
    /\ OneAllows(G, LAMBDA g : shown[g].permission) <=> ExternalPermission(G)
    /\ OneAllows(G, LAMBDA g : shown[g].feature) <=> ExternalFeature(G)

\* The quotas shown are those the engine holds a cost against, in the scope and
\* in any set of bundles, on sums that Go lets wrap and SQLite does not.
QuotasAsDecided ==
  Complete => \A cost \in 1 .. MaxInt :
    /\ Answers(Limited(OwnQuotas)) =>
         LET q == shown[Own].quota
         IN q.effect = "allow" /\ (q.unlimited \/ q.left >= cost) <=> QuotaAvailable(cost)
    /\ \A G \in SUBSET Grants :
         Answers(In("allocation", G)) =>
           (ExternalQuota(G, cost) <=>
              /\ OneAllows(G, LAMBDA g : shown[g].quota.effect)
              /\ Total([g \in G |-> shown[g].quota.left], G) >= cost)

\* The period shown spans those of all rows, deny rows included, whichever came
\* first; it has no end if one of them has none.
PeriodSpansRows ==
  Complete /\ OwnQuotas # {} =>
    LET period == shown[Own].quota
    IN /\ \A n \in OwnQuotas : period.start <= rows[n].start
       /\ \E n \in OwnQuotas : period.start = rows[n].start
       /\ \E n \in OwnQuotas : period.end = rows[n].end
       /\ \A n \in OwnQuotas :
            period.end = Null \/ (rows[n].end # Null /\ rows[n].end <= period.end)

\* Every request for /me is answered, on cyclic rules too.
Answered == <>Complete

================================================================================
