------------------------------ MODULE QuotaTables ------------------------------
(***************************************************************************)
(* The quota tables of one owner organization and one quota key, and the   *)
(* transactions on them: the quota engine (internal/shared/quota) and the  *)
(* quota part of the external grants (internal/security/infra).            *)
(*                                                                         *)
(* A transaction is an operator from the tables to the set of tables it    *)
(* may commit; the empty set means that it rolls back.  So transactions    *)
(* compose: ConsumeQuotas is ReserveQuotas, then CommitQuotas, or nothing. *)
(*                                                                         *)
(* One cost per operation: Engine.decide never issues more.  Operation ids *)
(* carry actor, resource and action (the idempotency key does), so the     *)
(* ledger's unique index comes down to (operation id, kind).               *)
(***************************************************************************)
EXTENDS Integers, Totals

CONSTANTS
  Entitlements,  \* the owner's allow rows, numbered in the order they are drained
  Limit,         \* quota_limit of each
  Unlimited,     \* quota_limit IS NULL
  IdRank,        \* the order of the rows' ids
  Grants,        \* external grants, numbered in the order of their ids
  Ops,           \* operation ids
  MaxCost        \* bound on the cost of an operation

ASSUME TablesAssumption ==
  /\ Entitlements \subseteq Nat /\ Grants \subseteq Nat
  /\ IsFiniteSet(Entitlements) /\ IsFiniteSet(Grants) /\ IsFiniteSet(Ops)
  /\ Limit \in [Entitlements -> Nat \union {Unlimited}] /\ Unlimited \notin Nat
  /\ IdRank \in [Entitlements -> Nat]
  /\ \A e, f \in Entitlements : Limit[e] = Unlimited /\ Limit[f] # Unlimited => f < e
  /\ MaxCost \in Nat

Sources == {"explicit", "plan"}
Costs == 1 .. MaxCost
Status == {"none", "reserved", "committed", "released", "expired"}
Kinds == {"reserve", "commit", "release", "expire"}

\* Rows of external_grant_quota_allocations_v2 with effect allow; a row that was
\* never inserted has allocated = 0.
Allocations == Grants \X Entitlements \X Sources

\* The tables.  `open` and `denied` are what the period tests of the queries
\* find: the allow rows in force, and whether a deny row is.
Tables ==
  [used : [Entitlements -> Nat], reserved : [Entitlements -> Nat],
   open : SUBSET Entitlements, denied : BOOLEAN,
   grant : [Grants -> {"none", "active", "revoked"}], deny : [Grants -> BOOLEAN],
   allocated : [Allocations -> Nat], lentUsed : [Allocations -> Nat],
   lentReserved : [Allocations -> Nat],
   direct : [Ops -> [Entitlements -> Nat]], directStatus : [Ops -> Status],
   external : [Ops -> [Grants \X Entitlements -> Nat]],
   externalStatus : [Ops -> [Grants \X Entitlements -> Status]],
   ledger : [Ops -> [Kinds -> Nat]]]

EmptyTables ==
  [used |-> [e \in Entitlements |-> 0], reserved |-> [e \in Entitlements |-> 0],
   open |-> Entitlements, denied |-> FALSE,
   grant |-> [g \in Grants |-> "none"], deny |-> [g \in Grants |-> FALSE],
   allocated |-> [a \in Allocations |-> 0], lentUsed |-> [a \in Allocations |-> 0],
   lentReserved |-> [a \in Allocations |-> 0],
   direct |-> [op \in Ops |-> [e \in Entitlements |-> 0]],
   directStatus |-> [op \in Ops |-> "none"],
   external |-> [op \in Ops |-> [p \in Grants \X Entitlements |-> 0]],
   externalStatus |-> [op \in Ops |-> [p \in Grants \X Entitlements |-> "none"]],
   ledger |-> [op \in Ops |-> [k \in Kinds |-> 0]]]

-----------------------------------------------------------------------------
(* How a cost is spread over rows. *)

\* The loops drain the rows in their order until nothing remains; a row takes
\* what it has free.  `before` relates a row to the later ones.  The set is
\* empty when the rows do not have enough.
Spreads(rows, free, before, cost) ==
  {t \in [rows -> 0 .. cost] :
     /\ Total(t, rows) = cost
     /\ \A r \in rows : t[r] <= free[r]
     /\ \A r, d \in rows : <<d, r>> \in before /\ t[r] > 0 => t[d] = free[d]}

Taken(t, r) == IF r \in DOMAIN t THEN t[r] ELSE 0

\* Mutant of Free: what is reserved counts as free.
FreeUnlessUsed(db, e, cost) ==
  IF Limit[e] = Unlimited THEN cost ELSE Limit[e] - db.used[e]

\* Capacity of an entitlement for a cost.
Free(db, e, cost) ==
  IF Limit[e] = Unlimited THEN cost ELSE Limit[e] - db.used[e] - db.reserved[e]

\* Numbered in the order they are drained.
Earlier == {p \in Entitlements \X Entitlements : p[1] < p[2]}

\* Mutant of OwnSpreads: what remains at the end of the loop is not tested.
OwnSpreadsInPart(db, cost) ==
  LET rows == {e \in db.open : Free(db, e, cost) > 0}
      free == [e \in rows |-> Free(db, e, cost)]
  IN Spreads(rows, free, Earlier, Min({cost, Total(free, rows)}))

OwnSpreads(db, cost) ==
  LET rows == {e \in db.open : Free(db, e, cost) > 0}
  IN Spreads(rows, [e \in rows |-> Free(db, e, cost)], Earlier, cost)

\* Capacity of an allocation row.
LentFree(db, a) == db.allocated[a] - db.lentUsed[a] - db.lentReserved[a]

\* Grants in id order, inside a grant the rows by owner_entitlement_id.  The two
\* sources of one entitlement tie, and the statements address rows by grant, key
\* and entitlement only: a row's sibling of the other source is hit by the same
\* UPDATE when it has room too (exactlyOneQuota), and its reservation has the
\* same primary key.  So a sibling may neither be taken from nor have room.
LentEarlier ==
  {p \in Allocations \X Allocations :
     \/ p[1][1] < p[2][1]
     \/ p[1][1] = p[2][1] /\ IdRank[p[1][2]] < IdRank[p[2][2]]}

LentSpreads(db, grants, cost) ==
  LET rows == {a \in Allocations : a[1] \in grants /\ LentFree(db, a) > 0}
  IN {t \in Spreads(rows, [a \in rows |-> LentFree(db, a)], LentEarlier, cost) :
        \A a, b \in rows : a # b /\ a[1] = b[1] /\ a[2] = b[2] /\ t[a] > 0 =>
                             t[b] = 0 /\ LentFree(db, b) < t[a]}

-----------------------------------------------------------------------------
(* What the authorization engine asks. *)

\* Mutant of QuotaAvailable: what is reserved counts as available.
QuotaAvailableUnlessUsed(db, cost) ==
  LET limited == {e \in db.open : Limit[e] # Unlimited}
  IN /\ db.open # {}
     /\ ~db.denied
     /\ \/ db.open # limited
        \/ Total([e \in limited |-> Limit[e] - db.used[e]], limited) >= cost

\* Repository.QuotaAvailable
QuotaAvailable(db, cost) ==
  LET limited == {e \in db.open : Limit[e] # Unlimited}
  IN /\ db.open # {}
     /\ ~db.denied
     /\ \/ db.open # limited
        \/ Total([e \in limited |-> Limit[e] - db.used[e] - db.reserved[e]], limited) >= cost

\* Repository.ExternalQuota, for the grants found in force.
ExternalQuota(db, grants, cost) ==
  LET rows == {a \in Allocations : a[1] \in grants /\ db.allocated[a] > 0}
  IN /\ rows # {}
     /\ \A g \in grants : ~db.deny[g]
     /\ Total([a \in rows |-> LentFree(db, a)], rows) >= cost

-----------------------------------------------------------------------------
(* The quota engine's transactions. *)

\* Mutant of ReserveOwn: the ledger's unique index does not reject a used id.
ReserveOwnAgain(db, op, cost) ==
  IF db.denied THEN {}
  ELSE {[db EXCEPT
          !.reserved = [e \in Entitlements |-> @[e] + Taken(t, e)],
          !.direct[op] = [e \in Entitlements |-> Taken(t, e)],
          !.directStatus[op] = "reserved",
          !.ledger[op]["reserve"] = cost] : t \in OwnSpreads(db, cost)}

\* reserveCost, the reservation rows and the ledger entry.
ReserveOwn(db, op, cost) ==
  IF db.denied \/ db.ledger[op]["reserve"] # 0 THEN {}
  ELSE {[db EXCEPT
          !.reserved = [e \in Entitlements |-> @[e] + Taken(t, e)],
          !.direct[op] = [e \in Entitlements |-> Taken(t, e)],
          !.directStatus[op] = "reserved",
          !.ledger[op]["reserve"] = cost] : t \in OwnSpreads(db, cost)}

\* What a spread takes for one grant and one entitlement.
TakenFor(t, p) == Taken(t, <<p[1], p[2], "explicit">>) + Taken(t, <<p[1], p[2], "plan">>)

\* reserveExternalCost: the grants' status is not read, and no ledger is written.
ReserveExternal(db, op, grants, cost) ==
  LET Hit(t) == {p \in Grants \X Entitlements : TakenFor(t, p) > 0}
  IN {[db EXCEPT
        !.lentReserved = [a \in Allocations |-> @[a] + Taken(t, a)],
        !.external[op] = [p \in DOMAIN @ |-> IF p \in Hit(t) THEN TakenFor(t, p) ELSE @[p]],
        !.externalStatus[op] = [p \in DOMAIN @ |-> IF p \in Hit(t) THEN "reserved" ELSE @[p]]] :
       t \in {u \in LentSpreads(db, grants, cost) :
                \A p \in Hit(u) : db.externalStatus[op][p] = "none"}}

ReserveQuotas(db, op, grants, cost) ==
  IF grants = {} THEN ReserveOwn(db, op, cost) ELSE ReserveExternal(db, op, grants, cost)

\* The reserved rows of an operation, as amounts.
Held(db, op) ==
  IF db.directStatus[op] = "reserved" THEN db.direct[op] ELSE [e \in Entitlements |-> 0]
LentHeld(db, op) ==
  [p \in Grants \X Entitlements |->
     IF db.externalStatus[op][p] = "reserved" THEN db.external[op][p] ELSE 0]

Settle(statuses, outcome) ==
  [p \in DOMAIN statuses |-> IF statuses[p] = "reserved" THEN outcome ELSE statuses[p]]

\* Mutant of Withdraw: the ledger gets the entry whatever the status.
WithdrawTwice(db, op, ledgerKind, outcome, use) ==
  LET held == db.direct[op]
      Moves(e) == held[e] > 0 /\ db.reserved[e] >= held[e]
  IN [db EXCEPT
        !.reserved = [e \in Entitlements |-> IF Moves(e) THEN @[e] - held[e] ELSE @[e]],
        !.used = [e \in Entitlements |-> IF Moves(e) /\ use THEN @[e] + held[e] ELSE @[e]],
        !.directStatus[op] = IF @ = "none" THEN @ ELSE outcome,
        !.ledger[op][ledgerKind] = Total(held, Entitlements)]

\* "AND reserved>=?": a row that does not have the amount is left alone, and for
\* the operation's own reservations nobody counts the rows.
Withdraw(db, op, ledgerKind, outcome, use) ==
  LET held == Held(db, op)
      Moves(e) == held[e] > 0 /\ db.reserved[e] >= held[e]
  IN IF db.directStatus[op] # "reserved" THEN db
     ELSE [db EXCEPT
            !.reserved = [e \in Entitlements |-> IF Moves(e) THEN @[e] - held[e] ELSE @[e]],
            !.used = [e \in Entitlements |-> IF Moves(e) /\ use THEN @[e] + held[e] ELSE @[e]],
            !.directStatus[op] = outcome,
            !.ledger[op][ledgerKind] = Total(held, Entitlements)]

\* Mutant of CommitExternal: the owner's reservation ends, its usage is not counted.
CommitExternalUncounted(db, op) ==
  LET held == LentHeld(db, op)
      Due(e) == Total([g \in Grants |-> held[<<g, e>>]], Grants)
      Moves(a) == held[<<a[1], a[2]>>] > 0 /\ db.lentReserved[a] >= held[<<a[1], a[2]>>]
      Part(a) == IF Moves(a) THEN held[<<a[1], a[2]>>] ELSE 0
  IN IF \E e \in Entitlements : db.reserved[e] < Due(e) THEN {}
     ELSE {[db EXCEPT
             !.lentReserved = [a \in Allocations |-> @[a] - Part(a)],
             !.lentUsed = [a \in Allocations |-> @[a] + Part(a)],
             !.reserved = [e \in Entitlements |-> @[e] - Due(e)],
             !.externalStatus[op] = Settle(@, "committed")]}

\* commitExternal: here the owner's row must have the amount, else it rolls back.
CommitExternal(db, op) ==
  LET held == LentHeld(db, op)
      Due(e) == Total([g \in Grants |-> held[<<g, e>>]], Grants)
      Moves(a) == held[<<a[1], a[2]>>] > 0 /\ db.lentReserved[a] >= held[<<a[1], a[2]>>]
      Part(a) == IF Moves(a) THEN held[<<a[1], a[2]>>] ELSE 0
  IN IF \E e \in Entitlements : db.reserved[e] < Due(e) THEN {}
     ELSE {[db EXCEPT
             !.lentReserved = [a \in Allocations |-> @[a] - Part(a)],
             !.lentUsed = [a \in Allocations |-> @[a] + Part(a)],
             !.reserved = [e \in Entitlements |-> @[e] - Due(e)],
             !.used = [e \in Entitlements |-> @[e] + Due(e)],
             !.externalStatus[op] = Settle(@, "committed")]}

CommitQuotas(db, op) == CommitExternal(Withdraw(db, op, "commit", "committed", TRUE), op)

ConsumeQuotas(db, op, grants, cost) ==
  UNION {CommitQuotas(d, op) : d \in ReserveQuotas(db, op, grants, cost)}

\* releaseExternal gives back to the grant; the owner's row stays lent.
ReleaseQuotas(db, op) ==
  LET held == LentHeld(db, op)
      Moves(a) == db.lentReserved[a] >= held[<<a[1], a[2]>>]
  IN [Withdraw(db, op, "release", "released", FALSE) EXCEPT
        !.lentReserved = [a \in Allocations |->
                            IF Moves(a) THEN @[a] - held[<<a[1], a[2]>>] ELSE @[a]],
        !.externalStatus[op] = Settle(@, "released")]

\* The grants' reservations are not looked at: they never expire.
ExpireOne(db, op) == Withdraw(db, op, "expire", "expired", FALSE)

-----------------------------------------------------------------------------
(* The external grants' transactions. *)

\* Mutant of AllocateGrantQuota: the owner's row is not reserved.
AllocateUnreserved(db, g, source, amount) ==
  {[db EXCEPT
     !.allocated = [a \in Allocations |->
                      IF a[1] = g /\ a[3] = source THEN Taken(t, a[2]) ELSE @[a]]] :
   t \in OwnSpreads(db, amount)}

\* allocateGrantQuota: deny rows of the owner are not asked about.
AllocateGrantQuota(db, g, source, amount) ==
  {[db EXCEPT
     !.reserved = [e \in Entitlements |-> @[e] + Taken(t, e)],
     !.allocated = [a \in Allocations |->
                      IF a[1] = g /\ a[3] = source THEN Taken(t, a[2]) ELSE @[a]]] :
   t \in OwnSpreads(db, amount)}

\* A bundle names the key in a plan's rule, as an explicit item, or as a deny.
CreateExternalGrant(db, g, bundle) ==
  IF db.grant[g] # "none" THEN {}
  ELSE UNION {AllocateGrantQuota(d, g, "explicit", bundle.explicit) :
               d \in AllocateGrantQuota([db EXCEPT !.grant[g] = "active", !.deny[g] = bundle.deny],
                                        g, "plan", bundle.plan)}

\* What a grant's allocations still hold of an entitlement.
Unused(db, g, e) ==
  LET Left(s) == db.allocated[<<g, e, s>>] - db.lentUsed[<<g, e, s>>]
  IN Left("explicit") + Left("plan")

\* Mutant of RevokeExternalGrant: running reservations do not stop it.
RevokeWhileReserved(db, g) ==
  IF db.grant[g] # "active" \/ \E e \in Entitlements : db.reserved[e] < Unused(db, g, e) THEN {}
  ELSE {[db EXCEPT
          !.reserved = [e \in Entitlements |-> @[e] - Unused(db, g, e)],
          !.grant[g] = "revoked"]}

\* Mutant of RevokeExternalGrant: all that was allocated goes back.
RevokeAllocated(db, g) ==
  LET Lent(e) == db.allocated[<<g, e, "explicit">>] + db.allocated[<<g, e, "plan">>]
  IN IF \/ db.grant[g] # "active"
        \/ \E a \in Allocations : a[1] = g /\ db.lentReserved[a] # 0
        \/ \E e \in Entitlements : db.reserved[e] < Lent(e)
     THEN {}
     ELSE {[db EXCEPT
             !.reserved = [e \in Entitlements |-> @[e] - Lent(e)], !.grant[g] = "revoked"]}

RevokeExternalGrant(db, g) ==
  IF \/ db.grant[g] # "active"
     \/ \E a \in Allocations : a[1] = g /\ db.lentReserved[a] # 0
     \/ \E e \in Entitlements : db.reserved[e] < Unused(db, g, e)
  THEN {}
  ELSE {[db EXCEPT
          !.reserved = [e \in Entitlements |-> @[e] - Unused(db, g, e)],
          !.grant[g] = "revoked"]}

================================================================================
