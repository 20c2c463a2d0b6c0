------------------------------ MODULE GrantQuota ------------------------------
(***************************************************************************)
(* An owner organization lends quota to external grants while requests of  *)
(* its members and of the grantees consume it.  A request is authorized in *)
(* the middleware (a few reads) and consumes later, in the transaction of  *)
(* its handler, what the decision says: the decision may be stale by then. *)
(***************************************************************************)
EXTENDS QuotaTables

CONSTANT Bundles   \* what a grant may hold of the key: plan, explicit and deny items

ASSUME BundlesAssumption == Bundles \subseteq [plan : Nat, explicit : Nat, deny : BOOLEAN]

VARIABLES
  db,        \* the quota tables
  decision,  \* QuotaCosts of each operation's decision, in its context
  overtaken  \* history: was a grant revoked between a decision on it and its use?

vars == <<db, decision, overtaken>>

\* No decision yet, and no decision any more: its request is over.
Undecided == [grants |-> {}, cost |-> 0]
Spent == [grants |-> {}, cost |-> -1]

Outstanding(op) == decision[op].cost > 0

TypeOK ==
  /\ db \in Tables
  /\ decision \in [Ops -> [grants : SUBSET Grants, cost : {-1, 0} \union Costs]]
  /\ overtaken \in BOOLEAN

Init ==
  /\ db = EmptyTables
  /\ decision = [op \in Ops |-> Undecided]
  /\ overtaken = FALSE

\* A manager creates a grant.  The service's own QuotaAvailable test is a read
\* before the transaction, so nothing that holds then is assumed here.
Create(g) ==
  /\ \E bundle \in Bundles : db' \in CreateExternalGrant(db, g, bundle)
  /\ UNCHANGED <<decision, overtaken>>

Revoke(g) ==
  /\ db' \in RevokeExternalGrant(db, g)
  /\ overtaken' = (overtaken \/ \E op \in Ops : g \in decision[op].grants)
  /\ UNCHANGED decision

\* A member's request is allowed on the organization's own quota.
AuthorizeMember(op, cost) ==
  /\ decision[op] = Undecided
  /\ QuotaAvailable(db, cost)
  /\ decision' = [decision EXCEPT ![op] = [grants |-> {}, cost |-> cost]]
  /\ UNCHANGED <<db, overtaken>>

\* A stranger's request is allowed on the grants that match it, all in force.
AuthorizeStranger(op, grants, cost) ==
  /\ decision[op] = Undecided
  /\ grants # {}
  /\ \A g \in grants : db.grant[g] = "active"
  /\ ExternalQuota(db, grants, cost)
  /\ decision' = [decision EXCEPT ![op] = [grants |-> grants, cost |-> cost]]
  /\ UNCHANGED <<db, overtaken>>

\* The handler's transaction commits, with the quota.
Consume(op) ==
  /\ Outstanding(op)
  /\ db' \in ConsumeQuotas(db, op, decision[op].grants, decision[op].cost)
  /\ decision' = [decision EXCEPT ![op] = Spent]
  /\ UNCHANGED overtaken

\* It rolls back (no quota any more, or anything else fails), or the request
\* ends before it: the client may try again.
GiveUp(op) ==
  /\ Outstanding(op)
  /\ decision' = [decision EXCEPT ![op] = Undecided]
  /\ UNCHANGED <<db, overtaken>>

\* The period of one of the owner's rows ends.
PeriodEnds(e) ==
  /\ e \in db.open
  /\ db' = [db EXCEPT !.open = @ \ {e}]
  /\ UNCHANGED <<decision, overtaken>>

\* A deny row for the key takes effect.
DenyTakesEffect ==
  /\ ~db.denied
  /\ db' = [db EXCEPT !.denied = TRUE]
  /\ UNCHANGED <<decision, overtaken>>

Next ==
  \/ \E g \in Grants : Create(g) \/ Revoke(g)
  \/ \E op \in Ops :
       \/ \E cost \in Costs : \/ AuthorizeMember(op, cost)
                              \/ \E grants \in SUBSET Grants : AuthorizeStranger(op, grants, cost)
       \/ Consume(op)
       \/ GiveUp(op)
  \/ \E e \in Entitlements : PeriodEnds(e)
  \/ DenyTakesEffect

Spec == Init /\ [][Next]_vars

-----------------------------------------------------------------------------
(* What must hold. *)

\* What the owner's row has reserved is what active grants can still use of it:
\* lending, consuming and returning move the same amounts on both sides, as long
\* as no decision on a grant outlives it.
OwnerReservationBacked ==
  ~overtaken => \A e \in Entitlements :
    db.reserved[e] =
      Total([g \in Grants |-> Unused(db, g, e)], {g \in Grants : db.grant[g] = "active"})

\* Nothing is used that no operation paid for, and nothing paid twice: the
\* owner's counters are the members' operations plus the grants' own counters.
UsageAccounted ==
  \A e \in Entitlements :
    db.used[e] =
      Total([op \in Ops |-> IF db.directStatus[op] = "committed" THEN db.direct[op][e] ELSE 0], Ops)
      + Total([g \in Grants |-> db.lentUsed[<<g, e, "explicit">>] + db.lentUsed[<<g, e, "plan">>]], Grants)

\* No interleaving of lending and consuming oversells an entitlement or a grant.
LimitsRespected ==
  /\ \A e \in Entitlements :
       Limit[e] # Unlimited => db.used[e] + db.reserved[e] <= Limit[e]
  /\ \A a \in Allocations : db.lentUsed[a] + db.lentReserved[a] <= db.allocated[a]

\* A decision is as good as the tables it read: whenever QuotaAvailable or
\* ExternalQuota says yes, the transaction would find the quota too, and
\* QuotaAvailable never says no in vain.  (A grant with both a plan's rule and
\* an explicit item for the key is left out: its two rows of one entitlement
\* are hit by one UPDATE and consumption rolls back.)
SingleSource(g) ==
  \A e \in Entitlements : db.allocated[<<g, e, "explicit">>] = 0 \/ db.allocated[<<g, e, "plan">>] = 0

DecisionsAreUsable ==
  \A op \in Ops, cost \in Costs :
    /\ db.directStatus[op] = "none" => (QuotaAvailable(db, cost) <=> ReserveOwn(db, op, cost) # {})
    /\ \A grants \in SUBSET {g \in Grants : db.grant[g] = "active" /\ SingleSource(g)} :
         ~overtaken /\ decision[op] = Undecided /\ ExternalQuota(db, grants, cost) =>
           ConsumeQuotas(db, op, grants, cost) # {}

\* "returned when unused capacity is revoked" (README): an active grant without
\* running reservations can be revoked.
UnusedCapacityReturned ==
  \A g \in Grants :
    /\ db.grant[g] = "active"
    /\ \A a \in Allocations : a[1] = g => db.lentReserved[a] = 0
    => RevokeExternalGrant(db, g) # {}

\* Every committed operation consumed exactly its cost, from one payer: the
\* organization's own rows, or the grants of its decision.
ConsumedInFull ==
  [][\A op \in Ops : Consume(op) =>
       /\ Total(db'.used, Entitlements) = Total(db.used, Entitlements) + decision[op].cost
       /\ \A a \in Allocations : a[1] \notin decision[op].grants => db'.lentUsed[a] = db.lentUsed[a]
     ]_vars

================================================================================
