------------------------------ MODULE QuotaProofs ------------------------------
(***************************************************************************)
(* The quota engine keeps the books, for any rows, limits, grants, bundles,*)
(* operations and costs.                                                   *)
(*                                                                         *)
(* GrantQuota, where an operation reserves and commits at once: the        *)
(* invariant adds what the counters alone do not say, that nothing is      *)
(* reserved between transactions, an unused operation id has no row, a     *)
(* grant nobody created holds nothing, and until a revocation overtakes    *)
(* one, decisions are on active grants.                                    *)
(*                                                                         *)
(* QuotaReservations, where reservations stay and may be made on a grant   *)
(* already revoked: the invariant adds what the ledger says of each        *)
(* operation, that a grant is never lent out beyond what it has, and that  *)
(* what was reserved on an active grant keeps it active.  All of it is said*)
(* row by row, so that a row a grant has twice, or one from which a late   *)
(* reservation was committed, says nothing of the others.                  *)
(***************************************************************************)
EXTENDS GrantQuota, QuotaReservations, QuotaTablesProofs

-----------------------------------------------------------------------------
(* What is held and what is left: the summands of the owner's counters. *)

\* What the operations hold of a row, and of what a grant was lent.
HeldFor(d, e) == [op \in Ops |-> Held(d, op)[e]]
LentHeldFor(d, p) == [op \in Ops |-> LentHeld(d, op)[p]]

\* What the grants, the active ones, can still use.
LeftOver(d, e) == [g \in Grants |-> Unused(d, g, e)]
Active(d) == {g \in Grants : d.grant[g] = "active"}

LEMMA HeldTypes ==
  ASSUME NEW d \in Tables, NEW e \in Entitlements, NEW g \in Grants
  PROVE  /\ \A op \in Ops : HeldFor(d, e)[op] \in Nat /\ LentHeldFor(d, <<g, e>>)[op] \in Nat
         /\ Total(HeldFor(d, e), Ops) \in Nat /\ Total(LentHeldFor(d, <<g, e>>), Ops) \in Nat
         /\ <<g, e, "explicit">> \in Allocations /\ <<g, e, "plan">> \in Allocations
         /\ LeftOver(d, e)[g] \in Int /\ OfGrants(d.lentReserved, e)[g] \in Nat
         /\ Active(d) \in SUBSET Grants /\ IsFiniteSet(Active(d))
<1>1. \A op \in Ops : HeldFor(d, e)[op] \in Nat
  BY RowTypes DEF HeldFor, Held
<1>2. \A op \in Ops : LentHeldFor(d, <<g, e>>)[op] \in Nat
  BY LentHeldType DEF LentHeldFor
<1>3. Total(HeldFor(d, e), Ops) \in Nat /\ Total(LentHeldFor(d, <<g, e>>), Ops) \in Nat
  BY <1>1, <1>2, TablesAssumption, TotalNat
<1>4. <<g, e, "explicit">> \in Allocations /\ <<g, e, "plan">> \in Allocations
  BY DEF Allocations, Sources
<1>5. LeftOver(d, e)[g] \in Int /\ OfGrants(d.lentReserved, e)[g] \in Nat
  BY <1>4, RowTypes DEF LeftOver, Unused, OfGrants
<1>6. Active(d) \in SUBSET Grants /\ IsFiniteSet(Active(d))
  BY TablesAssumption, FS_Subset DEF Active
<1> QED
  BY <1>1, <1>2, <1>3, <1>4, <1>5, <1>6

LEMMA LeftType ==
  ASSUME NEW d \in Tables, NEW e \in Entitlements
  PROVE  Total(LeftOver(d, e), Active(d)) \in Int
<1>1. Active(d) \in SUBSET Grants /\ IsFiniteSet(Active(d))
  BY TablesAssumption, FS_Subset DEF Active
<1>2. \A g \in Active(d) : LeftOver(d, e)[g] \in Int
  BY <1>1, HeldTypes
<1> QED
  BY <1>1, <1>2, TotalInt

\* A grant comes with what it reserves and goes with what it has left.
LEMMA CreatedLeft ==
  ASSUME NEW d \in Tables, NEW g \in Grants, NEW d2, Created(d, d2, g),
         \A a \in Allocations : a[1] = g => d.lentUsed[a] = 0,
         NEW e \in Entitlements
  PROVE  Total(LeftOver(d2, e), Active(d2)) =
           Total(LeftOver(d, e), Active(d)) + d2.reserved[e] - d.reserved[e]
<1> DEFINE x == <<g, e, "explicit">>
           y == <<g, e, "plan">>
<1>1. d2 \in Tables /\ d2.lentUsed = d.lentUsed
  BY DEF Created, SameUse
<1>2. Active(d) \in SUBSET Grants /\ IsFiniteSet(Active(d)) /\ IsFiniteSet(Active(d2))
  BY <1>1, HeldTypes
<1>3. g \in Active(d2) /\ Active(d2) \ {g} = Active(d)
  BY RowTypes DEF Active, Created
<1>4. \A h \in Active(d2) : LeftOver(d2, e)[h] \in Int
  BY <1>1, HeldTypes
<1>5. Total(LeftOver(d2, e), Active(d2)) = LeftOver(d2, e)[g] + Total(LeftOver(d2, e), Active(d2) \ {g})
  BY <1>2, <1>3, <1>4, TotalStep
<1>6. ASSUME NEW h \in Active(d) PROVE LeftOver(d2, e)[h] = LeftOver(d, e)[h]
  <2>1. h \in Grants /\ h # g
    BY DEF Active, Created
  <2>2. /\ <<h, e, "explicit">> \in Allocations /\ <<h, e, "plan">> \in Allocations
        /\ <<h, e, "explicit">>[1] # g /\ <<h, e, "plan">>[1] # g
    BY <2>1 DEF Allocations, Sources
  <2>3. \A a \in Allocations : a[1] # g => d2.allocated[a] = d.allocated[a]
    BY DEF Created
  <2>4. /\ d2.allocated[<<h, e, "explicit">>] = d.allocated[<<h, e, "explicit">>]
        /\ d2.allocated[<<h, e, "plan">>] = d.allocated[<<h, e, "plan">>]
    BY <2>2, <2>3
  <2> QED
    BY <1>1, <2>1, <2>4 DEF LeftOver, Unused
<1>7. Total(LeftOver(d2, e), Active(d2) \ {g}) = Total(LeftOver(d, e), Active(d))
  <2>1. Total(LeftOver(d2, e), Active(d)) = Total(LeftOver(d, e), Active(d))
    BY <1>2, <1>6, TotalSame
  <2> QED
    BY <1>3, <2>1, Zenon
<1>8. x \in Allocations /\ y \in Allocations /\ x[1] = g /\ y[1] = g
  BY DEF Allocations, Sources
<1>9. /\ LeftOver(d2, e)[g] = (d2.allocated[x] - d2.lentUsed[x]) + (d2.allocated[y] - d2.lentUsed[y])
      /\ d2.reserved[e] = d.reserved[e] + d2.allocated[x] + d2.allocated[y]
  BY DEF LeftOver, Unused, Created
<1> HIDE DEF x, y
<1>10. /\ d2.lentUsed[x] = 0 /\ d2.lentUsed[y] = 0
       /\ d2.allocated[x] \in Nat /\ d2.allocated[y] \in Nat /\ d.reserved[e] \in Nat
  BY <1>1, <1>8, RowTypes
<1>11. Total(LeftOver(d, e), Active(d)) \in Int
  BY LeftType
<1> QED
  BY <1>5, <1>7, <1>9, <1>10, <1>11

LEMMA RevokedLeft ==
  ASSUME NEW d \in Tables, NEW g \in Grants, NEW d2, Revoked(d, d2, g), NEW e \in Entitlements
  PROVE  Total(LeftOver(d2, e), Active(d2)) =
           Total(LeftOver(d, e), Active(d)) + d2.reserved[e] - d.reserved[e]
<1>1. d2 \in Tables /\ d2.lentUsed = d.lentUsed /\ d2.allocated = d.allocated
  BY DEF Revoked, SameUse
<1>2. Active(d) \in SUBSET Grants /\ IsFiniteSet(Active(d)) /\ IsFiniteSet(Active(d2))
  BY <1>1, HeldTypes
<1>3. g \in Active(d) /\ Active(d2) = Active(d) \ {g}
  BY RowTypes DEF Active, Revoked
<1>4. \A h \in Active(d) : LeftOver(d, e)[h] \in Int
  BY <1>2, HeldTypes
<1>5. Total(LeftOver(d, e), Active(d)) = LeftOver(d, e)[g] + Total(LeftOver(d, e), Active(d) \ {g})
  BY <1>2, <1>3, <1>4, TotalStep
<1>6. LeftOver(d2, e) = LeftOver(d, e)
  BY <1>1 DEF LeftOver, Unused
<1>7. LeftOver(d, e)[g] = Unused(d, g, e) /\ d2.reserved[e] = d.reserved[e] - Unused(d, g, e)
  BY DEF LeftOver, Revoked
<1>8. LeftOver(d, e)[g] \in Int /\ Total(LeftOver(d2, e), Active(d2)) \in Int /\ d.reserved[e] \in Nat
  <2>1. \A h \in Active(d2) : LeftOver(d2, e)[h] \in Int
    BY <1>3, <1>4, <1>6
  <2> QED
    BY <1>2, <1>3, <1>4, <2>1, RowTypes, TotalInt
<1> QED
  BY <1>3, <1>5, <1>6, <1>7, <1>8

-----------------------------------------------------------------------------
(* Lending and consuming at once (GrantQuota). *)

Decisions == [grants : SUBSET Grants, cost : {-1, 0} \union Costs]

FreshIds == \A op \in Ops : db.ledger[op]["reserve"] = 0 => db.directStatus[op] = "none"

UnusedIds ==
  \A op \in Ops :
    /\ db.directStatus[op] = "none" => db.ledger[op]["reserve"] = 0
    /\ decision[op] # Spent =>
         \A p \in Grants \X Entitlements : db.externalStatus[op][p] = "none"

FreshGrants ==
  \A a \in Allocations : db.grant[a[1]] = "none" => db.allocated[a] = 0 /\ db.lentUsed[a] = 0

DecisionsStand ==
  ~overtaken => \A op \in Ops : \A g \in decision[op].grants : db.grant[g] = "active"

Rows == AtRest(db) /\ decision \in [Ops -> Decisions] /\ overtaken \in BOOLEAN

\* What operations of members used.
Own(d, e) == [op \in Ops |-> IF d.directStatus[op] = "committed" THEN d.direct[op][e] ELSE 0]

Accounted(d) ==
  \A e \in Entitlements :
    d.used[e] = Total(Own(d, e), Ops) + Total(OfGrants(d.lentUsed, e), Grants)

Backed(d) ==
  \A e \in Entitlements : d.reserved[e] = Total(LeftOver(d, e), Active(d))

Within(d) ==
  /\ \A e \in Entitlements : Limit[e] # Unlimited => d.used[e] + d.reserved[e] <= Limit[e]
  /\ \A a \in Allocations : d.lentUsed[a] <= d.allocated[a]

Books == Within(db) /\ Accounted(db) /\ (~overtaken => Backed(db))

QuotaInv == Rows /\ FreshIds /\ UnusedIds /\ FreshGrants /\ DecisionsStand /\ Books

\* Facts that the steps below need of the parts of any tables at rest.
LEMMA Parts ==
  ASSUME NEW d, AtRest(d)
  PROVE  /\ d.used \in [Entitlements -> Nat] /\ d.reserved \in [Entitlements -> Nat]
         /\ d.allocated \in [Allocations -> Nat] /\ d.lentUsed \in [Allocations -> Nat]
         /\ d.grant \in [Grants -> {"none", "active", "revoked"}]
         /\ Active(d) \in SUBSET Grants /\ IsFiniteSet(Active(d))
         /\ \A e \in Entitlements : \A op \in Ops : Own(d, e)[op] \in Int
         /\ \A e \in Entitlements : \A g \in Grants :
              LeftOver(d, e)[g] \in Int /\ OfGrants(d.lentUsed, e)[g] \in Int
         /\ \A e \in Entitlements : Total(Own(d, e), Ops) \in Int
         /\ \A e \in Entitlements : Total(OfGrants(d.lentUsed, e), Grants) \in Int
         /\ \A e \in Entitlements : Total(LeftOver(d, e), Active(d)) \in Int
<1>1. /\ d.used \in [Entitlements -> Nat] /\ d.reserved \in [Entitlements -> Nat]
      /\ d.allocated \in [Allocations -> Nat] /\ d.lentUsed \in [Allocations -> Nat]
      /\ d.grant \in [Grants -> {"none", "active", "revoked"}]
      /\ d.direct \in [Ops -> [Entitlements -> Nat]]
  BY DEF AtRest, Tables
<1>2. Active(d) \in SUBSET Grants /\ IsFiniteSet(Active(d))
  BY TablesAssumption, FS_Subset DEF Active
<1>3. \A e \in Entitlements : \A op \in Ops : Own(d, e)[op] \in Int
  BY <1>1 DEF Own
<1>4. ASSUME NEW e \in Entitlements, NEW g \in Grants
      PROVE  LeftOver(d, e)[g] \in Int /\ OfGrants(d.lentUsed, e)[g] \in Int
  <2>1. <<g, e, "explicit">> \in Allocations /\ <<g, e, "plan">> \in Allocations
    BY DEF Allocations, Sources
  <2> QED
    BY <1>1, <2>1 DEF LeftOver, Unused, OfGrants
<1>5. ASSUME NEW e \in Entitlements PROVE Total(Own(d, e), Ops) \in Int
  BY <1>3, TablesAssumption, TotalInt
<1>6. ASSUME NEW e \in Entitlements PROVE Total(OfGrants(d.lentUsed, e), Grants) \in Int
  BY <1>4, TablesAssumption, TotalInt
<1>7. ASSUME NEW e \in Entitlements PROVE Total(LeftOver(d, e), Active(d)) \in Int
  BY <1>2, <1>4, TotalInt
<1> QED
  BY <1>1, <1>2, <1>3, <1>4, <1>5, <1>6, <1>7

-----------------------------------------------------------------------------
(* What each transaction does to the books. *)

\* A new grant starts with what it reserves.
LEMMA CreateKeepsBooks ==
  ASSUME NEW d, AtRest(d), NEW g \in Grants, NEW d2, AtRest(d2), Created(d, d2, g),
         \A a \in Allocations : a[1] = g => d.lentUsed[a] = 0,
         Within(d), Accounted(d)
  PROVE  Within(d2) /\ Accounted(d2) /\ (Backed(d) => Backed(d2))
<1>1. /\ d2.used = d.used /\ d2.lentUsed = d.lentUsed
      /\ d2.direct = d.direct /\ d2.directStatus = d.directStatus
  BY DEF Created, SameUse
<1>2. Accounted(d2)
  BY <1>1 DEF Accounted, Own
<1>3. Within(d2)
  <2>1. ASSUME NEW e \in Entitlements, Limit[e] # Unlimited PROVE d2.used[e] + d2.reserved[e] <= Limit[e]
    BY <1>1, <2>1 DEF Created, Within
  <2>2. ASSUME NEW a \in Allocations PROVE d2.lentUsed[a] <= d2.allocated[a]
    <3>1. CASE a[1] = g
      <4>1. d2.lentUsed[a] = 0 /\ d2.allocated[a] \in Nat
        BY <1>1, <3>1, Parts
      <4> QED
        BY <4>1
    <3>2. CASE a[1] # g
      BY <1>1, <3>2 DEF Created, Within
    <3> QED
      BY <3>1, <3>2
  <2> QED
    BY <2>1, <2>2 DEF Within
<1>4. ASSUME Backed(d), NEW e \in Entitlements
      PROVE  d2.reserved[e] = Total(LeftOver(d2, e), Active(d2))
  <2>1. d \in Tables /\ d.reserved[e] \in Nat /\ d2.reserved[e] \in Nat
    BY Parts DEF AtRest
  <2>2. Total(LeftOver(d2, e), Active(d2)) =
          Total(LeftOver(d, e), Active(d)) + d2.reserved[e] - d.reserved[e]
    BY <2>1, CreatedLeft
  <2>3. d.reserved[e] = Total(LeftOver(d, e), Active(d))
    BY <1>4 DEF Backed
  <2> QED
    BY <2>1, <2>2, <2>3
<1> QED
  BY <1>2, <1>3, <1>4 DEF Backed

\* A revocation gives back what the grant has left.
LEMMA RevokeKeepsBooks ==
  ASSUME NEW d, AtRest(d), NEW g \in Grants, NEW d2, AtRest(d2), Revoked(d, d2, g),
         Within(d), Accounted(d)
  PROVE  Within(d2) /\ Accounted(d2) /\ (Backed(d) => Backed(d2))
<1>1. /\ d2.used = d.used /\ d2.lentUsed = d.lentUsed /\ d2.allocated = d.allocated
      /\ d2.direct = d.direct /\ d2.directStatus = d.directStatus
  BY DEF Revoked, SameUse
<1>2. Accounted(d2)
  BY <1>1 DEF Accounted, Own
<1>3. Within(d2)
  <2>1. ASSUME NEW e \in Entitlements, Limit[e] # Unlimited PROVE d2.used[e] + d2.reserved[e] <= Limit[e]
    <3>1. Unused(d, g, e) \in Nat
      <4>1. <<g, e, "explicit">> \in Allocations /\ <<g, e, "plan">> \in Allocations
        BY DEF Allocations, Sources
      <4>2. /\ d.allocated[<<g, e, "explicit">>] \in Nat /\ d.lentUsed[<<g, e, "explicit">>] \in Nat
            /\ d.allocated[<<g, e, "plan">>] \in Nat /\ d.lentUsed[<<g, e, "plan">>] \in Nat
        BY <4>1, Parts
      <4>3. /\ d.lentUsed[<<g, e, "explicit">>] <= d.allocated[<<g, e, "explicit">>]
            /\ d.lentUsed[<<g, e, "plan">>] <= d.allocated[<<g, e, "plan">>]
        BY <4>1 DEF Within
      <4> QED
        BY <4>2, <4>3 DEF Unused
    <3>2. d.reserved[e] \in Nat /\ d.used[e] \in Nat /\ Limit[e] \in Nat
      BY <2>1, Parts, TablesAssumption
    <3>3. d2.reserved[e] = d.reserved[e] - Unused(d, g, e)
      BY DEF Revoked
    <3>4. d.used[e] + d.reserved[e] <= Limit[e]
      BY <2>1 DEF Within
    <3> QED
      BY <1>1, <3>1, <3>2, <3>3, <3>4
  <2> QED
    BY <1>1, <2>1 DEF Within
<1>4. ASSUME Backed(d), NEW e \in Entitlements
      PROVE  d2.reserved[e] = Total(LeftOver(d2, e), Active(d2))
  <2>1. d \in Tables /\ d.reserved[e] \in Nat /\ d2.reserved[e] \in Nat
    BY Parts DEF AtRest
  <2>2. Total(LeftOver(d2, e), Active(d2)) =
          Total(LeftOver(d, e), Active(d)) + d2.reserved[e] - d.reserved[e]
    BY <2>1, RevokedLeft
  <2>3. d.reserved[e] = Total(LeftOver(d, e), Active(d))
    BY <1>4 DEF Backed
  <2> QED
    BY <2>1, <2>2, <2>3
<1> QED
  BY <1>2, <1>3, <1>4 DEF Backed

\* An operation on the owner's own rows becomes one more that paid.
LEMMA ConsumeOwnKeepsBooks ==
  ASSUME NEW d, AtRest(d), NEW d2, AtRest(d2), NEW op \in Ops, NEW cost, NEW took,
         Fits(d, cost, took), ConsumedOwn(d, d2, op, took), d.directStatus[op] = "none",
         Within(d), Accounted(d)
  PROVE  Within(d2) /\ Accounted(d2) /\ (Backed(d) => Backed(d2))
<1>1. /\ d2.reserved = d.reserved /\ d2.lentUsed = d.lentUsed
      /\ d2.allocated = d.allocated /\ d2.grant = d.grant
      /\ d2.used = [e \in Entitlements |-> d.used[e] + took[e]]
      /\ d2.direct = [d.direct EXCEPT ![op] = took]
      /\ d2.directStatus = [d.directStatus EXCEPT ![op] = "committed"]
      /\ took \in [Entitlements -> Nat]
  BY DEF ConsumedOwn, SameGrants, SameLent, Fits
<1>2. /\ d.direct \in [Ops -> [Entitlements -> Nat]]
      /\ d.directStatus \in [Ops -> Status]
  BY DEF AtRest, Tables
<1>3. ASSUME NEW e \in Entitlements
      PROVE  d2.used[e] = Total(Own(d2, e), Ops) + Total(OfGrants(d2.lentUsed, e), Grants)
  <2>1. Own(d, e)[op] = 0 /\ Own(d2, e)[op] = took[e]
    BY <1>1, <1>2 DEF Own
  <2>2. \A o \in Ops : o # op => Own(d2, e)[o] = Own(d, e)[o]
    BY <1>1, <1>2 DEF Own
  <2>3. \A o \in Ops : Own(d, e)[o] \in Int /\ Own(d2, e)[o] \in Int
    BY Parts
  <2>4. Total(Own(d2, e), Ops) = Total(Own(d, e), Ops) - Own(d, e)[op] + Own(d2, e)[op]
    <3>1. \A o \in Ops : /\ Own(d, e)[o] \in Int /\ Own(d2, e)[o] \in Int
                         /\ o # op => Own(d2, e)[o] = Own(d, e)[o]
      BY <2>2, <2>3
    <3>2. IsFiniteSet(Ops)
      BY TablesAssumption
    <3> QED
      BY <3>1, <3>2, TotalExcept
  <2>5. d.used[e] = Total(Own(d, e), Ops) + Total(OfGrants(d.lentUsed, e), Grants)
    BY DEF Accounted
  <2>6. Total(Own(d, e), Ops) \in Int /\ Total(OfGrants(d.lentUsed, e), Grants) \in Int /\ took[e] \in Int
    BY <1>1, Parts
  <2>7. d2.used[e] = d.used[e] + took[e]
    BY <1>1
  <2> QED
    BY <1>1, <2>1, <2>4, <2>5, <2>6, <2>7
<1>4. Within(d2)
  <2>1. ASSUME NEW e \in Entitlements, Limit[e] # Unlimited PROVE d2.used[e] + d2.reserved[e] <= Limit[e]
    <3>1. d2.used[e] = d.used[e] + took[e] /\ d2.reserved[e] = d.reserved[e]
      BY <1>1
    <3>2. took[e] > 0 => d.used[e] + d.reserved[e] + took[e] <= Limit[e]
      BY <2>1 DEF Fits
    <3>3. d.used[e] + d.reserved[e] <= Limit[e]
      BY <2>1 DEF Within
    <3>4. took[e] \in Nat /\ d.used[e] \in Nat /\ d.reserved[e] \in Nat /\ Limit[e] \in Nat
      BY <1>1, <2>1, Parts, TablesAssumption
    <3> QED
      BY <3>1, <3>2, <3>3, <3>4
  <2> QED
    BY <1>1, <2>1 DEF Within
<1>5. Backed(d) => Backed(d2)
  BY <1>1 DEF Backed, LeftOver, Unused, Active
<1> QED
  BY <1>3, <1>4, <1>5 DEF Accounted

\* What is taken of a grant leaves what it has left and joins what it used; the
\* owner's counters follow, provided that all of it came from active grants.
LEMMA ConsumeLentKeepsBooks ==
  ASSUME NEW d, AtRest(d), NEW d2, AtRest(d2), NEW grants \in SUBSET Grants, NEW cost, NEW took,
         LentFits(d, grants, cost, took), ConsumedLent(d, d2, took), Within(d), Accounted(d)
  PROVE  Within(d2) /\ Accounted(d2) /\ (Backed(d) /\ grants \subseteq Active(d) => Backed(d2))
<1>1. /\ d2.allocated = d.allocated /\ d2.grant = d.grant
      /\ d2.direct = d.direct /\ d2.directStatus = d.directStatus
      /\ \A a \in Allocations : d2.lentUsed[a] = d.lentUsed[a] + took[a]
      /\ took \in [Allocations -> Nat]
  BY DEF ConsumedLent, SameGrants, SameDirect, LentFits
<1>2. Within(d2)
  <2>1. ASSUME NEW e \in Entitlements, Limit[e] # Unlimited PROVE d2.used[e] + d2.reserved[e] <= Limit[e]
    <3>1. PICK due \in Nat : d2.reserved[e] = d.reserved[e] - due /\ d2.used[e] = d.used[e] + due
      BY DEF ConsumedLent
    <3>2. d.used[e] + d.reserved[e] <= Limit[e]
      BY <2>1 DEF Within
    <3>3. d.used[e] \in Nat /\ d.reserved[e] \in Nat /\ Limit[e] \in Nat
      BY <2>1, Parts, TablesAssumption
    <3> QED
      BY <3>1, <3>2, <3>3
  <2>2. ASSUME NEW a \in Allocations PROVE d2.lentUsed[a] <= d2.allocated[a]
    <3>1. d.lentUsed[a] <= d.allocated[a] /\ d.lentUsed[a] \in Nat /\ d.allocated[a] \in Nat
      BY Parts DEF Within
    <3>2. took[a] > 0 => took[a] <= d.allocated[a] - d.lentUsed[a] - d.lentReserved[a]
      BY DEF LentFits, LentFree
    <3>3. d.lentReserved[a] = 0 /\ took[a] \in Nat
      BY <1>1 DEF AtRest
    <3> QED
      BY <1>1, <3>1, <3>2, <3>3
  <2> QED
    BY <2>1, <2>2 DEF Within
<1>3. ASSUME NEW e \in Entitlements
      PROVE  /\ \A g \in Grants :
                  /\ OfGrants(took, e)[g] \in Nat
                  /\ OfGrants(d2.lentUsed, e)[g] = OfGrants(d.lentUsed, e)[g] + OfGrants(took, e)[g]
                  /\ LeftOver(d, e)[g] = LeftOver(d2, e)[g] + OfGrants(took, e)[g]
                  /\ g \notin grants => OfGrants(took, e)[g] = 0
             /\ d2.used[e] = d.used[e] + Total(OfGrants(took, e), Grants)
             /\ d2.reserved[e] = d.reserved[e] - Total(OfGrants(took, e), Grants)
  <2>1. ASSUME NEW g \in Grants
        PROVE  /\ OfGrants(took, e)[g] \in Nat
               /\ OfGrants(d2.lentUsed, e)[g] = OfGrants(d.lentUsed, e)[g] + OfGrants(took, e)[g]
               /\ LeftOver(d, e)[g] = LeftOver(d2, e)[g] + OfGrants(took, e)[g]
               /\ g \notin grants => OfGrants(took, e)[g] = 0
    <3> DEFINE x == <<g, e, "explicit">>
               y == <<g, e, "plan">>
    <3>1. x \in Allocations /\ y \in Allocations /\ x[1] = g /\ y[1] = g
      BY DEF Allocations, Sources
    <3>2. /\ OfGrants(took, e)[g] = took[x] + took[y]
          /\ OfGrants(d.lentUsed, e)[g] = d.lentUsed[x] + d.lentUsed[y]
          /\ OfGrants(d2.lentUsed, e)[g] = d2.lentUsed[x] + d2.lentUsed[y]
          /\ LeftOver(d, e)[g] = (d.allocated[x] - d.lentUsed[x]) + (d.allocated[y] - d.lentUsed[y])
          /\ LeftOver(d2, e)[g] = (d2.allocated[x] - d2.lentUsed[x]) + (d2.allocated[y] - d2.lentUsed[y])
      BY DEF OfGrants, LeftOver, Unused
    <3> HIDE DEF x, y
    <3>3. /\ d.lentUsed[x] \in Nat /\ d.lentUsed[y] \in Nat
          /\ d.allocated[x] \in Nat /\ d.allocated[y] \in Nat
          /\ took[x] \in Nat /\ took[y] \in Nat
      BY <1>1, <3>1, Parts
    <3>4. d2.lentUsed[x] = d.lentUsed[x] + took[x] /\ d2.lentUsed[y] = d.lentUsed[y] + took[y]
      BY <1>1, <3>1
    <3>5. g \notin grants => took[x] = 0 /\ took[y] = 0
      <4>1. \A a \in Allocations : took[a] > 0 => a[1] \in grants
        BY DEF LentFits
      <4> QED
        BY <3>1, <3>3, <4>1
    <3> QED
      BY <1>1, <3>2, <3>3, <3>4, <3>5
  <2> QED
    BY <2>1 DEF ConsumedLent
<1>4. ASSUME NEW e \in Entitlements
      PROVE  d2.used[e] = Total(Own(d2, e), Ops) + Total(OfGrants(d2.lentUsed, e), Grants)
  <2>1. Own(d2, e) = Own(d, e)
    BY <1>1 DEF Own
  <2>2. \A g \in Grants : /\ OfGrants(d.lentUsed, e)[g] \in Int /\ OfGrants(took, e)[g] \in Int
                          /\ OfGrants(d2.lentUsed, e)[g] = OfGrants(d.lentUsed, e)[g] + OfGrants(took, e)[g]
    BY <1>3, Parts
  <2>3. IsFiniteSet(Grants)
    BY TablesAssumption
  <2>4. Total(OfGrants(d2.lentUsed, e), Grants) =
          Total(OfGrants(d.lentUsed, e), Grants) + Total(OfGrants(took, e), Grants)
    BY <2>2, <2>3, TotalAdd
  <2>5. d.used[e] = Total(Own(d, e), Ops) + Total(OfGrants(d.lentUsed, e), Grants)
    BY DEF Accounted
  <2>6. /\ Total(Own(d, e), Ops) \in Int /\ Total(OfGrants(d.lentUsed, e), Grants) \in Int
        /\ Total(OfGrants(took, e), Grants) \in Int
    BY <2>2, <2>3, Parts, TotalInt
  <2>7. d2.used[e] = d.used[e] + Total(OfGrants(took, e), Grants)
    BY <1>3
  <2> QED
    BY <2>1, <2>4, <2>5, <2>6, <2>7
<1>5. ASSUME Backed(d), grants \subseteq Active(d), NEW e \in Entitlements
      PROVE  d2.reserved[e] = Total(LeftOver(d2, e), Active(d2))
  <2>1. Active(d2) = Active(d)
    BY <1>1 DEF Active
  <2>2. PICK A : A = Active(d)
    OBVIOUS
  <2>3. A \in SUBSET Grants /\ IsFiniteSet(A) /\ IsFiniteSet(Grants)
    BY <2>2, Parts, TablesAssumption
  <2>4. \A g \in Grants : OfGrants(took, e)[g] \in Int /\ (g \notin A => OfGrants(took, e)[g] = 0)
    BY <1>3, <1>5, <2>2
  <2>5. \A g \in A : /\ LeftOver(d2, e)[g] \in Int /\ OfGrants(took, e)[g] \in Int
                     /\ LeftOver(d, e)[g] = LeftOver(d2, e)[g] + OfGrants(took, e)[g]
    BY <1>3, <2>3, <2>4, Parts
  <2>6. Total(LeftOver(d, e), A) = Total(LeftOver(d2, e), A) + Total(OfGrants(took, e), A)
    BY <2>3, <2>5, TotalAdd
  <2>7. Total(OfGrants(took, e), A) = Total(OfGrants(took, e), Grants)
    BY <2>3, <2>4, TotalSupport
  <2>8. d.reserved[e] = Total(LeftOver(d, e), A)
    BY <1>5, <2>2 DEF Backed
  <2>9. d2.reserved[e] = d.reserved[e] - Total(OfGrants(took, e), Grants)
    BY <1>3
  <2>10. Total(LeftOver(d2, e), A) \in Int /\ Total(OfGrants(took, e), Grants) \in Int
    BY <2>3, <2>4, <2>5, TotalInt
  <2>11. d2.reserved[e] = Total(LeftOver(d2, e), A)
    BY <2>6, <2>7, <2>8, <2>9, <2>10
  <2> QED
    BY <2>1, <2>2, <2>11
<1> QED
  BY <1>2, <1>4, <1>5 DEF Accounted, Backed

-----------------------------------------------------------------------------
(* The steps. *)

LEMMA CreatePreserves ==
  ASSUME NEW g \in Grants, QuotaInv, Create(g)
  PROVE  QuotaInv'
<1>1. PICK bundle \in Bundles : db' \in CreateExternalGrant(db, g, bundle)
  BY DEF Create
<1>2. AtRest(db) /\ db \in Tables /\ UNCHANGED <<decision, overtaken>>
  BY DEF Create, QuotaInv, Rows, AtRest
<1>3. bundle \in [plan : Nat, explicit : Nat, deny : BOOLEAN]
  BY BundlesAssumption
<1>4. Created(db, db', g)
  BY <1>1, <1>2, <1>3, CreateEffect
<1>5. AtRest(db')
  BY <1>1, <1>2, <1>3, CreateAtRest
<1>6. FreshIds' /\ UnusedIds'
  BY <1>2, <1>4 DEF QuotaInv, FreshIds, UnusedIds, Created, SameUse
<1>7. FreshGrants'
  <2>1. ASSUME NEW a \in Allocations, db'.grant[a[1]] = "none"
        PROVE  db'.allocated[a] = 0 /\ db'.lentUsed[a] = 0
    <3>1. a[1] \in Grants
      BY DEF Allocations
    <3>2. a[1] # g /\ db.grant[a[1]] = "none"
      BY <1>2, <1>4, <2>1, <3>1, Parts DEF Created
    <3>3. db'.allocated[a] = db.allocated[a] /\ db'.lentUsed[a] = db.lentUsed[a]
      BY <1>4, <3>2 DEF Created, SameUse
    <3> QED
      BY <3>2, <3>3 DEF QuotaInv, FreshGrants
  <2> QED
    BY <2>1 DEF FreshGrants
<1>8. DecisionsStand'
  <2>1. \A h \in Grants : db.grant[h] = "active" => db'.grant[h] = "active"
    BY <1>2, <1>4, Parts DEF Created
  <2>2. \A op \in Ops : decision[op].grants \subseteq Grants
    BY DEF QuotaInv, Rows, Decisions
  <2> QED
    BY <1>2, <2>1, <2>2 DEF QuotaInv, DecisionsStand
<1>9. Books'
  <2>1. \A a \in Allocations : a[1] = g => db.lentUsed[a] = 0
    BY <1>4 DEF QuotaInv, FreshGrants, Created
  <2>2. Within(db') /\ Accounted(db') /\ (Backed(db) => Backed(db'))
    BY <1>2, <1>4, <1>5, <2>1, CreateKeepsBooks DEF QuotaInv, Books
  <2> QED
    BY <1>2, <2>2 DEF QuotaInv, Books
<1> QED
  BY <1>2, <1>5, <1>6, <1>7, <1>8, <1>9 DEF QuotaInv, Rows

LEMMA RevokePreserves ==
  ASSUME NEW g \in Grants, QuotaInv, Revoke(g)
  PROVE  QuotaInv'
<1>1. /\ db' \in RevokeExternalGrant(db, g) /\ UNCHANGED decision
      /\ overtaken' = (overtaken \/ \E op \in Ops : g \in decision[op].grants)
  BY DEF Revoke
<1>2. AtRest(db) /\ db \in Tables
  BY DEF QuotaInv, Rows, AtRest
<1>3. Revoked(db, db', g)
  BY <1>1, <1>2, RevokeEffect
<1>4. AtRest(db')
  BY <1>1, <1>2, RevokeAtRest
<1>5. FreshIds' /\ UnusedIds'
  BY <1>1, <1>3 DEF QuotaInv, FreshIds, UnusedIds, Revoked, SameUse
<1>6. \A h \in Grants : h # g => db'.grant[h] = db.grant[h]
  BY <1>2, <1>3, Parts DEF Revoked
<1>7. FreshGrants'
  <2>1. \A h \in Grants : db'.grant[h] = "none" => db.grant[h] = "none"
    BY <1>2, <1>3, <1>6, Parts DEF Revoked
  <2>2. \A a \in Allocations : a[1] \in Grants
    BY DEF Allocations
  <2> QED
    BY <1>3, <2>1, <2>2 DEF QuotaInv, FreshGrants, Revoked, SameUse
<1>8. DecisionsStand'
  <2>1. \A op \in Ops : decision[op].grants \subseteq Grants
    BY DEF QuotaInv, Rows, Decisions
  <2> QED
    BY <1>1, <1>6, <2>1 DEF QuotaInv, DecisionsStand
<1>9. Books'
  <2>1. Within(db') /\ Accounted(db') /\ (Backed(db) => Backed(db'))
    BY <1>2, <1>3, <1>4, RevokeKeepsBooks DEF QuotaInv, Books
  <2> QED
    BY <1>1, <2>1 DEF QuotaInv, Books
<1>10. Rows'
  BY <1>1, <1>4 DEF QuotaInv, Rows
<1> QED
  BY <1>5, <1>7, <1>8, <1>9, <1>10 DEF QuotaInv

LEMMA ConsumePreserves ==
  ASSUME NEW op \in Ops, QuotaInv, Consume(op)
  PROVE  QuotaInv'
<1>1. PICK grants, cost : grants = decision[op].grants /\ cost = decision[op].cost
  OBVIOUS
<1>2. /\ db' \in ConsumeQuotas(db, op, grants, cost) /\ cost > 0
      /\ decision' = [decision EXCEPT ![op] = Spent] /\ UNCHANGED overtaken
  BY <1>1 DEF Consume, Outstanding
<1>3. AtRest(db) /\ decision \in [Ops -> Decisions] /\ overtaken \in BOOLEAN
  BY DEF QuotaInv, Rows
<1>4. grants \in SUBSET Grants /\ cost \in Nat /\ cost # 0
  <2>1. decision[op] \in Decisions
    BY <1>3
  <2> QED
    BY <1>1, <1>2, <2>1, TablesAssumption DEF Decisions, Costs
<1>5. decision' \in [Ops -> Decisions] /\ \A o \in Ops : decision'[o].grants \subseteq decision[o].grants
  <2>1. Spent \in Decisions /\ Spent.grants = {}
    BY DEF Spent, Decisions
  <2> QED
    BY <1>2, <1>3, <2>1
<1>6. decision'[op] = Spent /\ \A o \in Ops : o # op => decision'[o] = decision[o]
  BY <1>2, <1>3
<1>7. CASE grants = {}
  <2>1. /\ AtRest(db')
        /\ db.ledger[op]["reserve"] = 0 /\ db'.ledger[op]["reserve"] = cost
        /\ \A o \in Ops : o # op => db'.ledger[o] = db.ledger[o]
        /\ \E took : Fits(db, cost, took) /\ ConsumedOwn(db, db', op, took)
    BY <1>2, <1>3, <1>4, <1>7, ConsumeOwnEffect
  <2>2. PICK took : Fits(db, cost, took) /\ ConsumedOwn(db, db', op, took)
    BY <2>1
  <2>3. db.directStatus[op] = "none"
    BY <2>1 DEF QuotaInv, FreshIds
  <2>4. Within(db') /\ Accounted(db') /\ (Backed(db) => Backed(db'))
    BY <1>3, <2>1, <2>2, <2>3, ConsumeOwnKeepsBooks DEF QuotaInv, Books
  <2>5. FreshIds'
    <3>1. \A o \in Ops : o # op => db'.directStatus[o] = db.directStatus[o]
      BY <1>3, <2>2 DEF ConsumedOwn, AtRest, Tables
    <3> QED
      BY <1>4, <2>1, <3>1 DEF QuotaInv, FreshIds
  <2>6. FreshGrants' /\ DecisionsStand'
    BY <1>2, <1>5, <2>2 DEF QuotaInv, FreshGrants, DecisionsStand, ConsumedOwn, SameGrants, SameLent
  <2>7. UnusedIds'
    <3>1. db'.directStatus[op] = "committed"
      BY <1>3, <2>2 DEF ConsumedOwn, AtRest, Tables
    <3>2. \A o \in Ops : o # op => db'.directStatus[o] = db.directStatus[o] /\ db'.ledger[o] = db.ledger[o]
      BY <1>3, <2>1, <2>2 DEF ConsumedOwn, AtRest, Tables
    <3>3. db'.externalStatus = db.externalStatus
      BY <2>2 DEF ConsumedOwn, SameLent
    <3> QED
      BY <1>6, <3>1, <3>2, <3>3 DEF QuotaInv, UnusedIds
  <2> QED
    BY <1>2, <1>3, <1>5, <2>1, <2>4, <2>5, <2>6, <2>7 DEF QuotaInv, Rows, Books
<1>8. CASE grants # {}
  <2>1. /\ AtRest(db')
        /\ \A o \in Ops : \A p \in Grants \X Entitlements :
             o # op => db'.externalStatus[o][p] = db.externalStatus[o][p]
        /\ \E took : LentFits(db, grants, cost, took) /\ ConsumedLent(db, db', took)
    BY <1>2, <1>3, <1>4, <1>8, ConsumeLentEffect
  <2>2. PICK took : LentFits(db, grants, cost, took) /\ ConsumedLent(db, db', took)
    BY <2>1
  <2>3. Within(db') /\ Accounted(db') /\ (Backed(db) /\ grants \subseteq Active(db) => Backed(db'))
    BY <1>3, <1>4, <2>1, <2>2, ConsumeLentKeepsBooks DEF QuotaInv, Books
  <2>4. ~overtaken => grants \subseteq Active(db)
    BY <1>1, <1>4 DEF QuotaInv, DecisionsStand, Active
  <2>5. FreshIds' /\ DecisionsStand'
    BY <1>2, <1>5, <2>2 DEF QuotaInv, FreshIds, DecisionsStand, ConsumedLent, SameDirect, SameGrants
  <2>6. FreshGrants'
    <3>1. ASSUME NEW a \in Allocations, db'.grant[a[1]] = "none"
          PROVE  db'.allocated[a] = 0 /\ db'.lentUsed[a] = 0
      <4>1. db.allocated[a] = 0 /\ db.lentUsed[a] = 0 /\ db'.allocated[a] = db.allocated[a]
        BY <2>2, <3>1 DEF QuotaInv, FreshGrants, ConsumedLent, SameGrants
      <4>2. took[a] \in Nat /\ (took[a] > 0 => took[a] <= 0 - 0 - 0)
        BY <1>3, <2>2, <4>1 DEF LentFits, LentFree, AtRest
      <4>3. db'.lentUsed[a] = 0 + took[a]
        BY <2>2, <4>1 DEF ConsumedLent
      <4> QED
        BY <4>1, <4>2, <4>3
    <3> QED
      BY <3>1 DEF FreshGrants
  <2>7. UnusedIds'
    <3>1. db'.directStatus = db.directStatus /\ db'.ledger = db.ledger
      BY <2>2 DEF ConsumedLent, SameDirect
    <3> QED
      BY <1>6, <2>1, <3>1 DEF QuotaInv, UnusedIds
  <2> QED
    BY <1>2, <1>3, <1>5, <2>1, <2>3, <2>4, <2>5, <2>6, <2>7 DEF QuotaInv, Rows, Books
<1> QED
  BY <1>7, <1>8

\* Decisions are made and dropped; periods and denials open and close.
LEMMA DecidePreserves ==
  ASSUME NEW op \in Ops, NEW new \in Decisions, QuotaInv, UNCHANGED <<db, overtaken>>,
         decision' = [decision EXCEPT ![op] = new], decision[op] # Spent,
         \A g \in new.grants : db.grant[g] = "active"
  PROVE  QuotaInv'
<1>1. decision \in [Ops -> Decisions]
  BY DEF QuotaInv, Rows
<1>2. Rows'
  BY <1>1 DEF QuotaInv, Rows
<1>3. DecisionsStand'
  BY <1>1 DEF QuotaInv, DecisionsStand
<1>4. UnusedIds'
  BY <1>1 DEF QuotaInv, UnusedIds
<1> QED
  BY <1>2, <1>3, <1>4 DEF QuotaInv, FreshIds, FreshGrants, Books

LEMMA WindowPreserves ==
  ASSUME QuotaInv, NEW open \in SUBSET Entitlements, NEW denied \in BOOLEAN,
         db' = [db EXCEPT !.open = open] \/ db' = [db EXCEPT !.denied = denied],
         UNCHANGED <<decision, overtaken>>
  PROVE  QuotaInv'
<1>1. AtRest(db) /\ db \in Tables
  BY DEF QuotaInv, Rows, AtRest
<1>2. db' \in Tables
  <2>1. CASE db' = [db EXCEPT !.open = open]
    BY <1>1, <2>1 DEF Tables
  <2>2. CASE db' = [db EXCEPT !.denied = denied]
    BY <1>1, <2>2 DEF Tables
  <2> QED
    BY <2>1, <2>2
<1>3. /\ db'.used = db.used /\ db'.reserved = db.reserved /\ db'.grant = db.grant
      /\ db'.allocated = db.allocated /\ db'.lentUsed = db.lentUsed
      /\ db'.lentReserved = db.lentReserved /\ db'.direct = db.direct
      /\ db'.directStatus = db.directStatus /\ db'.externalStatus = db.externalStatus
      /\ db'.ledger = db.ledger
  BY <1>1 DEF Tables
<1>4. AtRest(db')
  BY <1>1, <1>2, <1>3 DEF AtRest
<1>5. Books'
  BY <1>3 DEF QuotaInv, Books, Within, Accounted, Backed, Own, LeftOver, Unused, Active
<1>6. Rows' /\ FreshIds' /\ UnusedIds' /\ FreshGrants' /\ DecisionsStand'
  BY <1>3, <1>4 DEF QuotaInv, Rows, FreshIds, UnusedIds, FreshGrants, DecisionsStand
<1> QED
  BY <1>5, <1>6 DEF QuotaInv

LEMMA InitQuota == Init => QuotaInv
<1> SUFFICES ASSUME Init PROVE QuotaInv
  OBVIOUS
<1>1. AtRest(db)
  BY EmptyAtRest DEF Init
<1>2. Rows
  BY <1>1 DEF Init, Rows, Decisions, Undecided
<1>3. FreshIds /\ UnusedIds /\ FreshGrants
  BY DEF Init, FreshIds, UnusedIds, FreshGrants, EmptyTables, Allocations, Kinds
<1>4. DecisionsStand
  BY DEF Init, DecisionsStand, Undecided
<1>5. Within(db)
  BY TablesAssumption DEF Init, Within, EmptyTables
<1>6. ASSUME NEW e \in Entitlements
      PROVE  db.used[e] = Total(Own(db, e), Ops) + Total(OfGrants(db.lentUsed, e), Grants)
  <2>1. \A op \in Ops : Own(db, e)[op] = 0
    BY DEF Init, Own, EmptyTables
  <2>2. \A g \in Grants : OfGrants(db.lentUsed, e)[g] = 0
    BY DEF Init, OfGrants, EmptyTables, Allocations, Sources
  <2>3. db.used[e] = 0
    BY DEF Init, EmptyTables
  <2>4. IsFiniteSet(Ops) /\ IsFiniteSet(Grants)
    BY TablesAssumption
  <2>5. Total(Own(db, e), Ops) = 0
    BY <2>1, <2>4, TotalZero
  <2>6. Total(OfGrants(db.lentUsed, e), Grants) = 0
    BY <2>2, <2>4, TotalZero
  <2> QED
    BY <2>3, <2>5, <2>6
<1>7. ASSUME NEW e \in Entitlements PROVE db.reserved[e] = Total(LeftOver(db, e), Active(db))
  <2>1. Active(db) = {}
    BY DEF Init, Active, EmptyTables
  <2>2. db.reserved[e] = 0
    BY DEF Init, EmptyTables
  <2> QED
    BY <2>1, <2>2, TotalEmpty
<1> QED
  BY <1>2, <1>3, <1>4, <1>5, <1>6, <1>7 DEF QuotaInv, Books, Accounted, Backed

LEMMA NextQuota == QuotaInv /\ [Next]_vars => QuotaInv'
<1> SUFFICES ASSUME QuotaInv, [Next]_vars PROVE QuotaInv'
  OBVIOUS
<1>1. ASSUME NEW g \in Grants, Create(g) PROVE QuotaInv'
  BY <1>1, CreatePreserves
<1>2. ASSUME NEW g \in Grants, Revoke(g) PROVE QuotaInv'
  BY <1>2, RevokePreserves
<1>3. ASSUME NEW op \in Ops, NEW cost \in Costs, AuthorizeMember(op, cost) PROVE QuotaInv'
  <2>1. [grants |-> {}, cost |-> cost] \in Decisions /\ Undecided # Spent
    BY DEF Decisions, Undecided, Spent
  <2> QED
    BY <1>3, <2>1, DecidePreserves DEF AuthorizeMember
<1>4. ASSUME NEW op \in Ops, NEW cost \in Costs, NEW grants \in SUBSET Grants,
             AuthorizeStranger(op, grants, cost)
      PROVE  QuotaInv'
  <2>1. [grants |-> grants, cost |-> cost] \in Decisions /\ Undecided # Spent
    BY DEF Decisions, Undecided, Spent
  <2> QED
    BY <1>4, <2>1, DecidePreserves DEF AuthorizeStranger
<1>5. ASSUME NEW op \in Ops, Consume(op) PROVE QuotaInv'
  BY <1>5, ConsumePreserves
<1>6. ASSUME NEW op \in Ops, GiveUp(op) PROVE QuotaInv'
  <2>1. Undecided \in Decisions /\ Undecided.grants = {}
    BY DEF Decisions, Undecided
  <2>2. decision[op] # Spent
    BY <1>6 DEF GiveUp, Outstanding, Spent
  <2> QED
    BY <1>6, <2>1, <2>2, DecidePreserves DEF GiveUp
<1>7. ASSUME NEW e \in Entitlements, PeriodEnds(e) PROVE QuotaInv'
  <2>1. db.open \ {e} \in SUBSET Entitlements
    BY DEF QuotaInv, Rows, AtRest, Tables
  <2> QED
    BY <1>7, <2>1, WindowPreserves DEF PeriodEnds
<1>8. CASE DenyTakesEffect
  BY <1>8, WindowPreserves DEF DenyTakesEffect
<1>9. CASE UNCHANGED vars
  BY <1>9 DEF vars, QuotaInv, Rows, FreshIds, UnusedIds, FreshGrants, DecisionsStand, Books
<1> QED
  BY <1>1, <1>2, <1>3, <1>4, <1>5, <1>6, <1>7, <1>8, <1>9 DEF Next

-----------------------------------------------------------------------------
(* The theorems. *)

LEMMA QuotaInvariant == Spec => []QuotaInv
BY InitQuota, NextQuota, PTL DEF Spec

\* Every row of the quota tables and every grant keeps its type, the sums included
\* (the CHECKs of the quota tables).
THEOREM TypesHold == Spec => []TypeOK
<1>1. QuotaInv => TypeOK
  BY DEF QuotaInv, Rows, AtRest, TypeOK, Decisions
<1> QED
  BY <1>1, QuotaInvariant, PTL

\* Whatever is lent, used, given back and used at the same time, no row of the
\* owner and no grant's row exceeds its limit (reserveCost, consumeRow,
\* allocateGrantQuota).
THEOREM LimitsAreRespected == Spec => []LimitsRespected
<1>1. QuotaInv => LimitsRespected
  <2> SUFFICES ASSUME QuotaInv PROVE LimitsRespected
    OBVIOUS
  <2>1. AtRest(db) /\ Within(db)
    BY DEF QuotaInv, Rows, Books
  <2>2. \A a \in Allocations : db.lentReserved[a] = 0 /\ db.lentUsed[a] \in Nat
    BY <2>1, Parts DEF AtRest
  <2> QED
    BY <2>1, <2>2 DEF Within, LimitsRespected
<1> QED
  BY <1>1, QuotaInvariant, PTL

\* Every unit used was paid for by one operation, of a member or of a grantee.
THEOREM UsageIsAccounted == Spec => []UsageAccounted
<1>1. QuotaInv => UsageAccounted
  BY DEF QuotaInv, Books, Accounted, Own, OfGrants, UsageAccounted
<1> QED
  BY <1>1, QuotaInvariant, PTL

\* What the owner has reserved is what the active grants can still use, until a
\* revocation overtakes a decision.
THEOREM ReservationIsBacked == Spec => []OwnerReservationBacked
<1>1. QuotaInv => OwnerReservationBacked
  BY DEF QuotaInv, Books, Backed, LeftOver, Active, OwnerReservationBacked
<1> QED
  BY <1>1, QuotaInvariant, PTL

\* A request pays its whole cost at once, and of what was lent only from the grants
\* of its decision (ConsumeQuotas).
THEOREM ConsumptionIsWhole == Spec => ConsumedInFull
<1>1. ASSUME QuotaInv, NEW op \in Ops, Consume(op)
      PROVE  /\ Total(db'.used, Entitlements) = Total(db.used, Entitlements) + decision[op].cost
             /\ \A a \in Allocations : a[1] \notin decision[op].grants => db'.lentUsed[a] = db.lentUsed[a]
  <2>1. PICK grants, cost : grants = decision[op].grants /\ cost = decision[op].cost
    OBVIOUS
  <2>2. db' \in ConsumeQuotas(db, op, grants, cost) /\ cost > 0
    BY <1>1, <2>1 DEF Consume, Outstanding
  <2>3. AtRest(db)
    BY <1>1 DEF QuotaInv, Rows
  <2>4. grants \in SUBSET Grants /\ cost \in Nat
    <3>1. decision[op] \in Decisions
      BY <1>1 DEF QuotaInv, Rows
    <3> QED
      BY <2>1, <2>2, <3>1, TablesAssumption DEF Decisions, Costs
  <2>5. Total(db'.used, Entitlements) = Total(db.used, Entitlements) + cost
    BY <2>2, <2>3, <2>4, ConsumeTotal
  <2>6. ASSUME NEW a \in Allocations, a[1] \notin grants PROVE db'.lentUsed[a] = db.lentUsed[a]
    <3>1. CASE grants = {}
      <4>1. PICK took : ConsumedOwn(db, db', op, took)
        BY <2>2, <2>3, <2>4, <3>1, ConsumeOwnEffect
      <4> QED
        BY <4>1 DEF ConsumedOwn, SameLent
    <3>2. CASE grants # {}
      <4>1. PICK took : LentFits(db, grants, cost, took) /\ ConsumedLent(db, db', took)
        BY <2>2, <2>3, <2>4, <3>2, ConsumeLentEffect
      <4>2. took[a] = 0 /\ db.lentUsed[a] \in Nat
        BY <2>3, <2>6, <4>1, Parts DEF LentFits
      <4> QED
        BY <4>1, <4>2 DEF ConsumedLent
    <3> QED
      BY <3>1, <3>2
  <2> QED
    BY <2>1, <2>5, <2>6
<1>2. QuotaInv =>
        [\A op \in Ops : Consume(op) =>
           /\ Total(db'.used, Entitlements) = Total(db.used, Entitlements) + decision[op].cost
           /\ \A a \in Allocations : a[1] \notin decision[op].grants => db'.lentUsed[a] = db.lentUsed[a]
         ]_vars
  BY <1>1
<1> QED
  BY <1>2, QuotaInvariant, PTL DEF ConsumedInFull


-----------------------------------------------------------------------------
(* What the engine answers is what its transactions find. *)

FreeOf(d, rows, cost) == [e \in rows |-> Free(d, e, cost)]
Roomy(d, cost) == {e \in d.open : Free(d, e, cost) > 0}

\* QuotaAvailable finds what ReserveQuotas spreads over, no more and no less.
LEMMA AvailableIsSpread ==
  ASSUME NEW d, AtRest(d), Within(d), NEW cost \in Costs, ~d.denied
  PROVE  QuotaAvailable(d, cost) <=> OwnSpreads(d, cost) # {}
<1>1. cost \in Nat /\ cost > 0
  BY TablesAssumption DEF Costs
<1>2. PICK rows : rows = Roomy(d, cost)
  OBVIOUS
<1>3. PICK free : free = FreeOf(d, rows, cost)
  OBVIOUS
<1>4. /\ d.open \in SUBSET Entitlements /\ d.used \in [Entitlements -> Nat]
      /\ d.reserved \in [Entitlements -> Nat]
  BY DEF AtRest, Tables
<1>5. rows \in SUBSET d.open /\ IsFiniteSet(d.open) /\ IsFiniteSet(rows)
  <2>1. IsFiniteSet(Entitlements)
    BY TablesAssumption
  <2> QED
    BY <1>2, <1>4, <2>1, FS_Subset DEF Roomy
<1>6. ASSUME NEW e \in d.open
      PROVE  /\ Free(d, e, cost) \in Nat
             /\ Limit[e] # Unlimited =>
                  /\ Limit[e] - d.used[e] - d.reserved[e] \in Int
                  /\ Free(d, e, cost) = Limit[e] - d.used[e] - d.reserved[e]
             /\ Limit[e] = Unlimited => Free(d, e, cost) = cost
  <2>1. e \in Entitlements /\ d.used[e] \in Nat /\ d.reserved[e] \in Nat
    BY <1>4
  <2>2. Limit[e] # Unlimited => Limit[e] \in Nat /\ d.used[e] + d.reserved[e] <= Limit[e]
    BY <2>1, TablesAssumption DEF Within
  <2> QED
    BY <1>1, <2>1, <2>2 DEF Free
<1>7. \A e \in rows : free[e] \in Nat /\ free[e] = Free(d, e, cost)
  BY <1>3, <1>5, <1>6 DEF FreeOf
<1>8. OwnSpreads(d, cost) = Spreads(rows, free, Earlier, cost)
  BY <1>2, <1>3 DEF OwnSpreads, FreeOf, Roomy
<1>9. Ordered(rows, Earlier)
  BY <1>4, <1>5, EarlierOrdered DEF Ordered
<1>10. OwnSpreads(d, cost) # {} <=> cost <= Total(free, rows)
  BY <1>1, <1>5, <1>7, <1>8, <1>9, SpreadExists, SpreadNeeds
<1>11. ASSUME NEW e \in d.open, Limit[e] = Unlimited
       PROVE  QuotaAvailable(d, cost) /\ cost <= Total(free, rows)
  <2>1. e \in rows /\ free[e] = cost
    BY <1>1, <1>2, <1>6, <1>7, <1>11 DEF Roomy
  <2>2. free[e] <= Total(free, rows)
    BY <1>5, <1>7, <2>1, OneOfTotal
  <2>3. QuotaAvailable(d, cost)
    BY <1>11 DEF QuotaAvailable
  <2> QED
    BY <2>1, <2>2, <2>3
<1>12. ASSUME \A e \in d.open : Limit[e] # Unlimited
       PROVE  QuotaAvailable(d, cost) <=> cost <= Total(free, rows)
  <2>1. PICK left : left = [e \in d.open |-> Limit[e] - d.used[e] - d.reserved[e]]
    OBVIOUS
  <2>2. \A e \in d.open : left[e] \in Int /\ left[e] = Free(d, e, cost)
    BY <1>6, <1>12, <2>1
  <2>3. \A e \in d.open \ rows : left[e] = 0
    BY <1>2, <1>6, <2>2 DEF Roomy
  <2>4. Total(left, rows) = Total(left, d.open)
    BY <1>5, <2>2, <2>3, TotalSupport
  <2>5. Total(free, rows) = Total(left, rows)
    BY <1>5, <1>7, <2>2, TotalSame
  <2>6. d.open = {} => Total(left, d.open) = 0
    BY TotalEmpty
  <2>7. {e \in d.open : Limit[e] # Unlimited} = d.open
    BY <1>12
  <2>8. QuotaAvailable(d, cost) <=> d.open # {} /\ Total(left, d.open) >= cost
    BY <2>1, <2>7 DEF QuotaAvailable
  <2>9. Total(left, d.open) \in Int
    BY <1>5, <2>2, TotalInt
  <2> QED
    BY <1>1, <2>4, <2>5, <2>6, <2>8, <2>9
<1> QED
  BY <1>10, <1>11, <1>12

LentRoom(d, rows) == [a \in rows |-> LentFree(d, a)]
LentRoomy(d, grants) == {a \in Allocations : a[1] \in grants /\ LentFree(d, a) > 0}

OneSource(d, g) ==
  \A e \in Entitlements : d.allocated[<<g, e, "explicit">>] = 0 \/ d.allocated[<<g, e, "plan">>] = 0

\* ExternalQuota finds what ReserveQuotas can spread over the grants' rows.
LEMMA LentAvailableIsSpread ==
  ASSUME NEW d, AtRest(d), Within(d), NEW grants \in SUBSET Grants, \A g \in grants : OneSource(d, g),
         NEW cost \in Costs, ExternalQuota(d, grants, cost)
  PROVE  LentSpreads(d, grants, cost) # {}
<1>1. cost \in Nat /\ cost > 0
  BY TablesAssumption DEF Costs
<1>2. PICK rows : rows = LentRoomy(d, grants)
  OBVIOUS
<1>3. PICK free : free = LentRoom(d, rows)
  OBVIOUS
<1>4. \A a \in Allocations :
        /\ d.allocated[a] \in Nat /\ d.lentUsed[a] \in Nat /\ d.lentReserved[a] = 0
        /\ d.lentUsed[a] <= d.allocated[a]
  BY Parts DEF AtRest, Within
<1>5. \A a \in Allocations : LentFree(d, a) \in Nat /\ (d.allocated[a] = 0 => LentFree(d, a) = 0)
  BY <1>4 DEF LentFree
<1>6. PICK lent : lent = {a \in Allocations : a[1] \in grants /\ d.allocated[a] > 0}
  OBVIOUS
<1>7. rows \in SUBSET lent /\ lent \in SUBSET Allocations
  BY <1>2, <1>4, <1>5, <1>6 DEF LentRoomy
<1>8. IsFiniteSet(lent) /\ IsFiniteSet(rows)
  BY <1>7, FiniteAllocations, FS_Subset
<1>9. PICK left : left = [a \in lent |-> LentFree(d, a)]
  OBVIOUS
<1>10. Total(left, lent) >= cost
  BY <1>6, <1>9 DEF ExternalQuota
<1>11. \A a \in lent \ rows : left[a] = 0
  BY <1>2, <1>5, <1>6, <1>9 DEF LentRoomy
<1>12. Total(left, rows) = Total(left, lent)
  BY <1>5, <1>7, <1>8, <1>9, <1>11, TotalSupport
<1>13. Total(free, rows) = Total(left, rows)
  BY <1>3, <1>7, <1>8, <1>9, TotalSame DEF LentRoom
<1>14. \A a \in rows : free[a] \in Nat
  BY <1>3, <1>5, <1>7 DEF LentRoom
<1>15. Ordered(rows, LentEarlier)
  BY <1>7, LentEarlierOrdered DEF Ordered
<1>16. cost <= Total(free, rows)
  <2>1. Total(left, lent) \in Int
    BY <1>5, <1>7, <1>8, <1>9, TotalInt
  <2> QED
    BY <1>1, <1>10, <1>12, <1>13, <2>1
<1>17. PICK t : t \in Spreads(rows, free, LentEarlier, cost)
  BY <1>1, <1>8, <1>14, <1>15, <1>16, SpreadExists
<1>18. ASSUME NEW a \in rows, NEW b \in rows, a # b, a[1] = b[1], a[2] = b[2] PROVE FALSE
  <2>1. PICK g \in Grants, e \in Entitlements, s \in Sources : a = <<g, e, s>>
    BY <1>7 DEF Allocations
  <2>2. PICK h \in Grants, f \in Entitlements, r \in Sources : b = <<h, f, r>>
    BY <1>7 DEF Allocations
  <2>3. h = g /\ f = e /\ r # s
    BY <1>18, <2>1, <2>2
  <2>4. OneSource(d, g)
    BY <1>2, <2>1 DEF LentRoomy
  <2>5. d.allocated[a] = 0 \/ d.allocated[b] = 0
    BY <2>1, <2>2, <2>3, <2>4 DEF OneSource, Sources
  <2> QED
    BY <1>5, <1>7, <2>5, <1>2 DEF LentRoomy
<1>19. LentSpreads(d, grants, cost) =
         {u \in Spreads(rows, free, LentEarlier, cost) :
            \A a, b \in rows : a # b /\ a[1] = b[1] /\ a[2] = b[2] /\ u[a] > 0 =>
                                 u[b] = 0 /\ LentFree(d, b) < u[a]}
  BY <1>2, <1>3 DEF LentSpreads, LentRoomy, LentRoom
<1> QED
  BY <1>17, <1>18, <1>19

\* And what it finds can be paid: the owner's row has what active grants have left.
LEMMA LentAvailableIsConsumed ==
  ASSUME NEW d, AtRest(d), Within(d), Backed(d), NEW op \in Ops,
         \A p \in Grants \X Entitlements : d.externalStatus[op][p] = "none",
         NEW grants \in SUBSET Active(d), \A g \in grants : OneSource(d, g),
         NEW cost \in Costs, ExternalQuota(d, grants, cost)
  PROVE  ConsumeQuotas(d, op, grants, cost) # {}
<1>1. cost \in Nat /\ grants \in SUBSET Grants /\ d \in Tables
  BY TablesAssumption DEF Costs, Active, AtRest
<1>2. grants # {}
  BY DEF ExternalQuota
<1>3. PICK t : t \in LentSpreads(d, grants, cost)
  BY <1>1, LentAvailableIsSpread
<1>4. PICK d1 : d1 \in ReserveExternal(d, op, grants, cost)
  <2> DEFINE Hit(u) == {p \in Grants \X Entitlements : TakenFor(u, p) > 0}
             Spread == {u \in LentSpreads(d, grants, cost) :
                          \A p \in Hit(u) : d.externalStatus[op][p] = "none"}
             After(u) ==
               [d EXCEPT
                 !.lentReserved = [a \in Allocations |-> @[a] + Taken(u, a)],
                 !.external[op] = [p \in DOMAIN @ |-> IF p \in Hit(u) THEN TakenFor(u, p) ELSE @[p]],
                 !.externalStatus[op] = [p \in DOMAIN @ |-> IF p \in Hit(u) THEN "reserved" ELSE @[p]]]
  <2>1. t \in Spread
    BY <1>3
  <2>2. ReserveExternal(d, op, grants, cost) = {After(u) : u \in Spread}
    BY DEF ReserveExternal
  <2> HIDE DEF Spread, After
  <2> QED
    BY <2>1, <2>2
<1>5. PICK took : LentFits(d, grants, cost, took) /\ ReservedLent(d, d1, op, took)
  BY <1>1, <1>4, ReserveExternalEffect
<1>6. took \in [Allocations -> Nat]
  BY <1>5 DEF LentFits
<1>7. d1.directStatus[op] # "reserved" /\ d1.reserved = d.reserved
  BY <1>5 DEF AtRest, ReservedLent, SameDirect
<1>8. Withdraw(d1, op, "commit", "committed", TRUE) = d1
  BY <1>7 DEF Withdraw
<1>9. ASSUME NEW e \in Entitlements PROVE DueOf(d1, op, e) <= d.reserved[e]
  <2>1. DueOf(d1, op, e) = Total(OfGrants(took, e), Grants)
    BY <1>5, <1>6, DueOfReserved
  <2>2. ASSUME NEW g \in Grants
        PROVE  /\ OfGrants(took, e)[g] \in Nat
               /\ g \notin grants => OfGrants(took, e)[g] = 0
               /\ OfGrants(took, e)[g] <= LeftOver(d, e)[g]
               /\ LeftOver(d, e)[g] \in Int
    <3> DEFINE x == <<g, e, "explicit">>
               y == <<g, e, "plan">>
    <3>1. x \in Allocations /\ y \in Allocations /\ x[1] = g /\ y[1] = g
      BY DEF Allocations, Sources
    <3>2. /\ OfGrants(took, e)[g] = took[x] + took[y]
          /\ LeftOver(d, e)[g] = (d.allocated[x] - d.lentUsed[x]) + (d.allocated[y] - d.lentUsed[y])
      BY DEF OfGrants, LeftOver, Unused
    <3> HIDE DEF x, y
    <3>3. \A a \in Allocations :
            /\ d.allocated[a] \in Nat /\ d.lentUsed[a] \in Nat /\ d.lentReserved[a] = 0
            /\ d.lentUsed[a] <= d.allocated[a] /\ took[a] \in Nat
      BY <1>6, Parts DEF AtRest, Within
    <3>4. \A a \in Allocations : took[a] <= d.allocated[a] - d.lentUsed[a]
                                 /\ (took[a] > 0 => a[1] \in grants)
      BY <1>5, <3>3 DEF LentFits, LentFree
    <3>5. took[x] \in Nat /\ took[y] \in Nat /\ took[x] <= d.allocated[x] - d.lentUsed[x]
          /\ took[y] <= d.allocated[y] - d.lentUsed[y]
          /\ (took[x] > 0 => g \in grants) /\ (took[y] > 0 => g \in grants)
      BY <3>1, <3>3, <3>4
    <3>6. d.allocated[x] \in Nat /\ d.lentUsed[x] \in Nat /\ d.allocated[y] \in Nat /\ d.lentUsed[y] \in Nat
      BY <3>1, <3>3
    <3> QED
      BY <3>2, <3>5, <3>6
  <2>3. PICK A : A = Active(d)
    OBVIOUS
  <2>4. A \in SUBSET Grants /\ IsFiniteSet(A) /\ IsFiniteSet(Grants) /\ grants \subseteq A
    BY <2>3, Parts, TablesAssumption
  <2>5. \A g \in Grants : OfGrants(took, e)[g] \in Int /\ (g \notin A => OfGrants(took, e)[g] = 0)
    BY <2>2, <2>4
  <2>6. Total(OfGrants(took, e), A) = Total(OfGrants(took, e), Grants)
    BY <2>4, <2>5, TotalSupport
  <2>7. \A g \in A : /\ OfGrants(took, e)[g] \in Int /\ LeftOver(d, e)[g] \in Int
                     /\ OfGrants(took, e)[g] <= LeftOver(d, e)[g]
    BY <2>2, <2>4
  <2>8. Total(OfGrants(took, e), A) <= Total(LeftOver(d, e), A)
    BY <2>4, <2>7, TotalAtMost
  <2>9. d.reserved[e] = Total(LeftOver(d, e), A)
    BY <2>3 DEF Backed
  <2> QED
    BY <2>1, <2>6, <2>8, <2>9
<1>10. ASSUME NEW e \in Entitlements PROVE ~(d1.reserved[e] < DueOf(d1, op, e))
  <2>1. DueOf(d1, op, e) \in Int
    <3>1. DueOf(d1, op, e) = Total(OfGrants(took, e), Grants)
      BY <1>5, <1>6, DueOfReserved
    <3>2. \A g \in Grants : OfGrants(took, e)[g] \in Int
      BY <1>6 DEF OfGrants, Allocations, Sources
    <3>3. IsFiniteSet(Grants)
      BY TablesAssumption
    <3>4. Total(OfGrants(took, e), Grants) \in Int
      BY <3>2, <3>3, TotalInt
    <3> QED
      BY <3>1, <3>4
  <2>2. d.reserved[e] \in Nat
    BY <1>1, RowTypes
  <2> QED
    BY <1>7, <1>9, <2>1, <2>2
<1>11. CommitExternal(d1, op) # {}
  BY <1>10 DEF CommitExternal, DueOf
<1>12. CommitQuotas(d1, op) # {}
  BY <1>8, <1>11 DEF CommitQuotas
<1> QED
  BY <1>2, <1>4, <1>12 DEF ConsumeQuotas, ReserveQuotas
\* Whatever was lent and used before, the engine's answers and its transactions
\* agree (QuotaAvailable, ExternalQuota and ConsumeQuotas).
THEOREM AnswersAreUsable == Spec => []DecisionsAreUsable
<1>1. QuotaInv => DecisionsAreUsable
  <2> SUFFICES ASSUME QuotaInv, NEW op \in Ops, NEW cost \in Costs
               PROVE  /\ db.directStatus[op] = "none" =>
                           (QuotaAvailable(db, cost) <=> ReserveOwn(db, op, cost) # {})
                      /\ \A grants \in SUBSET {g \in Grants : db.grant[g] = "active" /\ SingleSource(g)} :
                           ~overtaken /\ decision[op] = Undecided /\ ExternalQuota(db, grants, cost) =>
                             ConsumeQuotas(db, op, grants, cost) # {}
    BY DEF DecisionsAreUsable
  <2>1. AtRest(db) /\ Within(db)
    BY DEF QuotaInv, Rows, Books
  <2>2. ASSUME db.directStatus[op] = "none"
        PROVE  QuotaAvailable(db, cost) <=> ReserveOwn(db, op, cost) # {}
    <3>1. db.ledger[op]["reserve"] = 0
      BY <2>2 DEF QuotaInv, UnusedIds
    <3>2. CASE db.denied
      BY <3>2 DEF QuotaAvailable, ReserveOwn
    <3>3. CASE ~db.denied
      <4>1. QuotaAvailable(db, cost) <=> OwnSpreads(db, cost) # {}
        BY <2>1, <3>3, AvailableIsSpread
      <4>2. ReserveOwn(db, op, cost) # {} <=> OwnSpreads(db, cost) # {}
        <5> DEFINE After(t) ==
                     [db EXCEPT
                       !.reserved = [e \in Entitlements |-> @[e] + Taken(t, e)],
                       !.direct[op] = [e \in Entitlements |-> Taken(t, e)],
                       !.directStatus[op] = "reserved",
                       !.ledger[op]["reserve"] = cost]
        <5>1. ReserveOwn(db, op, cost) = {After(t) : t \in OwnSpreads(db, cost)}
          BY <3>1, <3>3 DEF ReserveOwn
        <5> HIDE DEF After
        <5> QED
          BY <5>1
      <4> QED
        BY <4>1, <4>2
    <3> QED
      BY <3>2, <3>3
  <2>3. ASSUME NEW grants \in SUBSET {g \in Grants : db.grant[g] = "active" /\ SingleSource(g)},
               ~overtaken, decision[op] = Undecided, ExternalQuota(db, grants, cost)
        PROVE  ConsumeQuotas(db, op, grants, cost) # {}
    <3>1. Backed(db)
      BY <2>3 DEF QuotaInv, Books
    <3>2. \A p \in Grants \X Entitlements : db.externalStatus[op][p] = "none"
      BY <2>3 DEF QuotaInv, UnusedIds, Undecided, Spent
    <3>3. grants \in SUBSET Active(db) /\ \A g \in grants : OneSource(db, g)
      BY DEF Active, SingleSource, OneSource
    <3> QED
      BY <2>1, <2>3, <3>1, <3>2, <3>3, LentAvailableIsConsumed
  <2> QED
    BY <2>2, <2>3
<1> QED
  BY <1>1, QuotaInvariant, PTL

-----------------------------------------------------------------------------
(* Reservations that outlive a transaction (QuotaReservations). *)

HeldAndLent(d, past) ==
  \A e \in Undisturbed(d, past) :
    d.reserved[e] = Total(HeldFor(d, e), Ops) + Total(LeftOver(d, e), Active(d))

HeldOfGrants(d) ==
  \A g \in Grants, e \in Entitlements :
    SoleSource(d, g, e) =>
      OfGrants(d.lentReserved, e)[g] = Total(LentHeldFor(d, <<g, e>>), Ops)

\* The ledger entries of an operation, by what became of its reservation.
Entries(status) ==
  CASE status = "none" -> {}
    [] status = "reserved" -> {"reserve"}
    [] status = "committed" -> {"reserve", "commit"}
    [] status = "released" -> {"reserve", "release"}
    [] status = "expired" -> {"reserve", "expire"}

Told(d) ==
  \A op \in Ops :
    /\ d.directStatus[op] # "none" => Total(d.direct[op], Entitlements) > 0
    /\ \A k \in Kinds :
         d.ledger[op][k] =
           IF k \in Entries(d.directStatus[op]) THEN Total(d.direct[op], Entitlements) ELSE 0

\* What operations of members used of a row.
CommittedOn(d, e) == [op \in Ops |-> OwnCommitted(d, op)[e]]

UsedIsCommitted(d, past) ==
  \A e \in Undisturbed(d, past) :
    d.used[e] = Total(CommittedOn(d, e), Ops) + Total(OfGrants(d.lentUsed, e), Grants)

\* A grant is never lent out beyond what it has; one that was never created has
\* nothing.
InBounds(d) ==
  \A a \in Allocations :
    /\ d.lentUsed[a] + d.lentReserved[a] <= d.allocated[a]
    /\ d.grant[a[1]] = "none" => d.allocated[a] = 0

\* What was reserved on an active grant keeps it active.
HeldOfActive(d, past) ==
  \A op \in Ops, g \in Grants, e \in Entitlements :
    SoleSource(d, g, e) /\ <<op, <<g, e>>>> \notin past /\ LentHeld(d, op)[<<g, e>>] > 0 =>
      g \in Active(d)

Sound(d, past) ==
  /\ d \in Tables
  /\ HeldAndLent(d, past) /\ HeldOfGrants(d) /\ HeldOfActive(d, past)
  /\ Told(d) /\ UsedIsCommitted(d, past) /\ InBounds(d)

LEMMA HeldForType ==
  ASSUME NEW d \in Tables, NEW e \in Entitlements
  PROVE  /\ \A op \in Ops : HeldFor(d, e)[op] \in Nat
         /\ Total(HeldFor(d, e), Ops) \in Nat
<1>1. \A op \in Ops : HeldFor(d, e)[op] \in Nat
  BY RowTypes DEF HeldFor, Held
<1> QED
  BY <1>1, TablesAssumption, TotalNat

LEMMA CommittedType ==
  ASSUME NEW d \in Tables, NEW e \in Entitlements
  PROVE  /\ \A op \in Ops : CommittedOn(d, e)[op] \in Nat
         /\ Total(CommittedOn(d, e), Ops) \in Nat
<1>1. \A op \in Ops : CommittedOn(d, e)[op] \in Nat
  BY RowTypes DEF CommittedOn, OwnCommitted
<1> QED
  BY <1>1, TablesAssumption, TotalNat

LEMMA LentUsedType ==
  ASSUME NEW d \in Tables, NEW e \in Entitlements
  PROVE  /\ \A g \in Grants : OfGrants(d.lentUsed, e)[g] \in Nat
         /\ Total(OfGrants(d.lentUsed, e), Grants) \in Nat
<1>1. ASSUME NEW g \in Grants PROVE OfGrants(d.lentUsed, e)[g] \in Nat
  <2>1. <<g, e, "explicit">> \in Allocations /\ <<g, e, "plan">> \in Allocations
    BY DEF Allocations, Sources
  <2> QED
    BY <2>1, RowTypes DEF OfGrants
<1> QED
  BY <1>1, TablesAssumption, TotalNat

\* A row that is undisturbed was so before: sources and commits stay.
LEMMA UndisturbedBefore ==
  ASSUME NEW d, NEW d2, NEW past, NEW past2, past \subseteq past2,
         \A g \in Grants, e \in Entitlements : SoleSource(d2, g, e) => SoleSource(d, g, e),
         \A op \in Ops, g \in Grants, e \in Entitlements :
           /\ <<op, <<g, e>>>> \in past
           /\ d.externalStatus[op][<<g, e>>] = "committed"
           => d2.externalStatus[op][<<g, e>>] = "committed"
  PROVE  Undisturbed(d2, past2) \subseteq Undisturbed(d, past)
<1> SUFFICES ASSUME NEW e \in Undisturbed(d2, past2) PROVE e \in Undisturbed(d, past)
  OBVIOUS
<1>1. e \in Entitlements /\ \A g \in Grants : SoleSource(d2, g, e)
  BY DEF Undisturbed
<1>2. ASSUME NEW op \in Ops, NEW g \in Grants, <<op, <<g, e>>>> \in past
      PROVE  d.externalStatus[op][<<g, e>>] # "committed"
  <2>1. d2.externalStatus[op][<<g, e>>] # "committed"
    BY <1>2 DEF Undisturbed
  <2> QED
    BY <1>1, <1>2, <2>1
<1>3. \A g \in Grants : SoleSource(d, g, e)
  BY <1>1
<1> QED
  BY <1>1, <1>2, <1>3 DEF Undisturbed

\* Nobody's reservation changes.
LEMMA SameHeld ==
  ASSUME NEW d, NEW d2, d2.direct = d.direct, d2.directStatus = d.directStatus, NEW e
  PROVE  HeldFor(d2, e) = HeldFor(d, e) /\ CommittedOn(d2, e) = CommittedOn(d, e)
<1>1. \A op \in Ops : Held(d2, op) = Held(d, op) /\ OwnCommitted(d2, op) = OwnCommitted(d, op)
  BY DEF Held, OwnCommitted
<1> QED
  BY <1>1 DEF HeldFor, CommittedOn

LEMMA SameLentHeld ==
  ASSUME NEW d, NEW d2, d2.external = d.external, d2.externalStatus = d.externalStatus
  PROVE  /\ \A op : LentHeld(d2, op) = LentHeld(d, op)
         /\ \A p : LentHeldFor(d2, p) = LentHeldFor(d, p)
<1>1. \A op : LentHeld(d2, op) = LentHeld(d, op)
  BY DEF LentHeld
<1> QED
  BY <1>1 DEF LentHeldFor

LEMMA SameSources ==
  ASSUME NEW d, NEW d2, d2.allocated = d.allocated
  PROVE  \A g, e : SoleSource(d2, g, e) <=> SoleSource(d, g, e)
BY DEF SoleSource

\* What the grants' rows say does not change with the operations' own reservations.
LEMMA SameGrantRows ==
  ASSUME NEW d, NEW d2, SameGrants(d, d2), SameLent(d, d2), NEW past
  PROVE  /\ Undisturbed(d2, past) = Undisturbed(d, past)
         /\ HeldOfGrants(d) => HeldOfGrants(d2)
         /\ HeldOfActive(d, past) => HeldOfActive(d2, past)
         /\ InBounds(d) => InBounds(d2)
         /\ \A e : LeftOver(d2, e) = LeftOver(d, e)
         /\ Active(d2) = Active(d)
<1>1. /\ d2.grant = d.grant /\ d2.allocated = d.allocated /\ d2.lentUsed = d.lentUsed
      /\ d2.lentReserved = d.lentReserved /\ d2.externalStatus = d.externalStatus
      /\ d2.external = d.external
  BY DEF SameGrants, SameLent
<1>2. Active(d2) = Active(d)
  BY <1>1 DEF Active
<1>3. \A e : LeftOver(d2, e) = LeftOver(d, e)
  BY <1>1 DEF LeftOver, Unused
<1>4. \A g, e : SoleSource(d2, g, e) <=> SoleSource(d, g, e)
  BY <1>1, SameSources
<1>5. /\ \A op : LentHeld(d2, op) = LentHeld(d, op)
      /\ \A p : LentHeldFor(d2, p) = LentHeldFor(d, p)
  BY <1>1, SameLentHeld
<1>6. Undisturbed(d2, past) = Undisturbed(d, past)
  BY <1>1, <1>4 DEF Undisturbed
<1>7. HeldOfGrants(d) => HeldOfGrants(d2)
  BY <1>1, <1>4, <1>5 DEF HeldOfGrants
<1>8. HeldOfActive(d, past) => HeldOfActive(d2, past)
  BY <1>2, <1>4, <1>5 DEF HeldOfActive
<1>9. InBounds(d) => InBounds(d2)
  BY <1>1 DEF InBounds
<1> QED
  BY <1>2, <1>3, <1>6, <1>7, <1>8, <1>9

\* A grant has left what is reserved on it, and maybe more.
LEMMA LeftIsEnough ==
  ASSUME NEW d \in Tables, InBounds(d), NEW g \in Grants, NEW e \in Entitlements
  PROVE  /\ LeftOver(d, e)[g] \in Nat
         /\ OfGrants(d.lentReserved, e)[g] \in Nat
         /\ OfGrants(d.lentReserved, e)[g] <= LeftOver(d, e)[g]
<1> DEFINE x == <<g, e, "explicit">>
           y == <<g, e, "plan">>
<1>1. x \in Allocations /\ y \in Allocations
  BY DEF Allocations, Sources
<1>2. /\ OfGrants(d.lentReserved, e)[g] = d.lentReserved[x] + d.lentReserved[y]
      /\ LeftOver(d, e)[g] = (d.allocated[x] - d.lentUsed[x]) + (d.allocated[y] - d.lentUsed[y])
  BY DEF OfGrants, LeftOver, Unused
<1> HIDE DEF x, y
<1>3. /\ d.lentReserved[x] \in Nat /\ d.lentReserved[y] \in Nat
      /\ d.lentUsed[x] \in Nat /\ d.lentUsed[y] \in Nat
      /\ d.allocated[x] \in Nat /\ d.allocated[y] \in Nat
  BY <1>1, RowTypes
<1>4. /\ d.lentUsed[x] + d.lentReserved[x] <= d.allocated[x]
      /\ d.lentUsed[y] + d.lentReserved[y] <= d.allocated[y]
  BY <1>1 DEF InBounds
<1> QED
  BY <1>2, <1>3, <1>4

\* What an operation holds of a grant is in the one row that has any.
LEMMA LentIsThere ==
  ASSUME NEW past, NEW d, Sound(d, past), NEW op \in Ops, NEW g \in Grants, NEW e \in Entitlements,
         SoleSource(d, g, e)
  PROVE  /\ PartOf(d, op, <<g, e, "explicit">>) + PartOf(d, op, <<g, e, "plan">>) = LentHeld(d, op)[<<g, e>>]
         /\ LentHeld(d, op)[<<g, e>>] <= OfGrants(d.lentReserved, e)[g]
         /\ LentHeld(d, op)[<<g, e>>] \in Nat
<1> DEFINE x == <<g, e, "explicit">>
           y == <<g, e, "plan">>
<1>1. d \in Tables /\ HeldOfGrants(d) /\ InBounds(d)
  BY DEF Sound
<1>2. PICK h : h = LentHeld(d, op)[<<g, e>>]
  OBVIOUS
<1>3. h \in Nat
  BY <1>1, <1>2, LentHeldType
<1>4. h <= OfGrants(d.lentReserved, e)[g]
  <2>1. \A o \in Ops : LentHeldFor(d, <<g, e>>)[o] \in Nat
    BY <1>1, HeldTypes
  <2>2. LentHeldFor(d, <<g, e>>)[op] <= Total(LentHeldFor(d, <<g, e>>), Ops)
    BY <2>1, TablesAssumption, OneOfTotal
  <2> QED
    BY <1>1, <1>2, <2>2 DEF LentHeldFor, HeldOfGrants
<1>5. x \in Allocations /\ y \in Allocations /\ x[1] = g /\ y[1] = g /\ x[2] = e /\ y[2] = e
  BY DEF Allocations, Sources
<1>6. /\ OfGrants(d.lentReserved, e)[g] = d.lentReserved[x] + d.lentReserved[y]
      /\ PartOf(d, op, x) = IF h > 0 /\ d.lentReserved[x] >= h THEN h ELSE 0
      /\ PartOf(d, op, y) = IF h > 0 /\ d.lentReserved[y] >= h THEN h ELSE 0
      /\ d.allocated[x] = 0 \/ d.allocated[y] = 0
  BY <1>1, <1>2 DEF OfGrants, PartOf, SoleSource
<1> HIDE DEF x, y
<1>7. /\ d.lentReserved[x] \in Nat /\ d.lentReserved[y] \in Nat
      /\ d.lentUsed[x] \in Nat /\ d.lentUsed[y] \in Nat
      /\ d.allocated[x] \in Nat /\ d.allocated[y] \in Nat
  BY <1>1, <1>5, RowTypes
<1>8. /\ d.lentUsed[x] + d.lentReserved[x] <= d.allocated[x]
      /\ d.lentUsed[y] + d.lentReserved[y] <= d.allocated[y]
  BY <1>1, <1>5 DEF InBounds
<1>9. PartOf(d, op, x) + PartOf(d, op, y) = h
  BY <1>3, <1>4, <1>6, <1>7, <1>8
<1> QED
  BY <1>2, <1>3, <1>4, <1>9 DEF x, y

\* The owner's row has what any operation holds of it.
LEMMA OwnerHasOwn ==
  ASSUME NEW past, NEW d, Sound(d, past), NEW op \in Ops, NEW e \in Undisturbed(d, past)
  PROVE  Held(d, op)[e] <= d.reserved[e]
<1>1. d \in Tables /\ HeldAndLent(d, past) /\ InBounds(d) /\ e \in Entitlements
  BY DEF Sound, Undisturbed
<1>2. Active(d) \in SUBSET Grants /\ IsFiniteSet(Active(d))
  BY TablesAssumption, FS_Subset DEF Active
<1>3. \A g \in Active(d) : LeftOver(d, e)[g] \in Nat
  BY <1>1, <1>2, LeftIsEnough
<1>4. Total(LeftOver(d, e), Active(d)) \in Nat
  BY <1>2, <1>3, TotalNat
<1>5. \A o \in Ops : HeldFor(d, e)[o] \in Nat
  BY <1>1, RowTypes DEF HeldFor, Held
<1>6. HeldFor(d, e)[op] <= Total(HeldFor(d, e), Ops) /\ Total(HeldFor(d, e), Ops) \in Nat
  BY <1>5, TablesAssumption, OneOfTotal, TotalNat
<1>7. HeldFor(d, e)[op] = Held(d, op)[e] /\ HeldFor(d, e)[op] \in Nat
  BY <1>5 DEF HeldFor
<1>8. d.reserved[e] = Total(HeldFor(d, e), Ops) + Total(LeftOver(d, e), Active(d))
  BY <1>1 DEF HeldAndLent
<1> QED
  BY <1>4, <1>6, <1>7, <1>8

\* And what it holds of the grants, when none of it was reserved late.
LEMMA OwnerHasLent ==
  ASSUME NEW past, NEW d, Sound(d, past), NEW op \in Ops, NEW e \in Undisturbed(d, past),
         \A g \in Grants : LentHeld(d, op)[<<g, e>>] > 0 => <<op, <<g, e>>>> \notin past
  PROVE  DueOf(d, op, e) <= d.reserved[e]
<1>1. /\ d \in Tables /\ HeldAndLent(d, past) /\ InBounds(d) /\ HeldOfActive(d, past)
      /\ e \in Entitlements /\ \A g \in Grants : SoleSource(d, g, e)
  BY DEF Sound, Undisturbed
<1>2. Active(d) \in SUBSET Grants /\ IsFiniteSet(Active(d)) /\ IsFiniteSet(Grants)
  BY TablesAssumption, FS_Subset DEF Active
<1>3. PICK due : due = [g \in Grants |-> LentHeld(d, op)[<<g, e>>]]
  OBVIOUS
<1>4. ASSUME NEW g \in Grants
      PROVE  /\ due[g] \in Nat /\ LeftOver(d, e)[g] \in Nat /\ due[g] <= LeftOver(d, e)[g]
             /\ g \notin Active(d) => due[g] = 0
  <2>1. due[g] = LentHeld(d, op)[<<g, e>>]
    BY <1>3
  <2>2. due[g] \in Nat /\ due[g] <= OfGrants(d.lentReserved, e)[g]
    BY <1>1, <2>1, LentIsThere
  <2>3. /\ LeftOver(d, e)[g] \in Nat /\ OfGrants(d.lentReserved, e)[g] \in Nat
        /\ OfGrants(d.lentReserved, e)[g] <= LeftOver(d, e)[g]
    BY <1>1, LeftIsEnough
  <2>4. due[g] > 0 => g \in Active(d)
    BY <1>1, <2>1 DEF HeldOfActive
  <2> QED
    BY <2>2, <2>3, <2>4
<1>5. Total(due, Active(d)) <= Total(LeftOver(d, e), Active(d))
  BY <1>2, <1>4, TotalAtMost
<1>6. Total(due, Active(d)) = Total(due, Grants)
  BY <1>2, <1>4, TotalSupport
<1>7. Total(due, Grants) \in Nat /\ Total(LeftOver(d, e), Active(d)) \in Nat
  BY <1>2, <1>4, TotalNat
<1>8. DueOf(d, op, e) = Total(due, Grants)
  BY <1>3 DEF DueOf
<1>9. \A o \in Ops : HeldFor(d, e)[o] \in Nat
  BY <1>1, RowTypes DEF HeldFor, Held
<1>10. Total(HeldFor(d, e), Ops) \in Nat
  BY <1>9, TablesAssumption, TotalNat
<1>11. d.reserved[e] = Total(HeldFor(d, e), Ops) + Total(LeftOver(d, e), Active(d))
  BY <1>1 DEF HeldAndLent
<1> QED
  BY <1>5, <1>6, <1>7, <1>8, <1>10, <1>11

-----------------------------------------------------------------------------
(* The transactions keep the tables sound. *)

LEMMA LendKeeps ==
  ASSUME NEW past, NEW d, Sound(d, past), NEW g \in Grants, NEW bundle \in Offers,
         NEW d2 \in CreateExternalGrant(d, g, bundle)
  PROVE  Sound(d2, past)
<1>1. /\ d \in Tables /\ HeldAndLent(d, past) /\ HeldOfGrants(d) /\ HeldOfActive(d, past)
      /\ Told(d) /\ UsedIsCommitted(d, past) /\ InBounds(d)
  BY DEF Sound
<1>2. Created(d, d2, g)
  BY <1>1, OffersAssumption, CreateEffect
<1>3. d2 \in Tables /\ SameUse(d, d2) /\ d.grant[g] = "none"
  BY <1>2 DEF Created
<1>4. /\ d2.used = d.used /\ d2.lentUsed = d.lentUsed /\ d2.lentReserved = d.lentReserved
      /\ d2.direct = d.direct /\ d2.directStatus = d.directStatus /\ d2.ledger = d.ledger
      /\ d2.external = d.external /\ d2.externalStatus = d.externalStatus
  BY <1>3 DEF SameUse
<1>5. ASSUME NEW a \in Allocations, a[1] = g
      PROVE  d.allocated[a] = 0 /\ d.lentUsed[a] = 0 /\ d.lentReserved[a] = 0
  <2>1. d.lentUsed[a] \in Nat /\ d.lentReserved[a] \in Nat
    BY <1>1, RowTypes
  <2>2. d.allocated[a] = 0 /\ d.lentUsed[a] + d.lentReserved[a] <= d.allocated[a]
    BY <1>1, <1>3, <1>5 DEF InBounds
  <2> QED
    BY <2>1, <2>2
<1>6. ASSUME NEW h \in Grants, NEW e \in Entitlements, SoleSource(d2, h, e) PROVE SoleSource(d, h, e)
  <2> DEFINE x == <<h, e, "explicit">>
             y == <<h, e, "plan">>
  <2>1. x \in Allocations /\ y \in Allocations /\ x[1] = h /\ y[1] = h
    BY DEF Allocations, Sources
  <2>2. CASE h = g
    BY <1>5, <2>1, <2>2 DEF SoleSource
  <2>3. CASE h # g
    <3>1. d2.allocated[x] = d.allocated[x] /\ d2.allocated[y] = d.allocated[y]
      BY <1>2, <2>1, <2>3 DEF Created
    <3> QED
      BY <1>6, <3>1 DEF SoleSource
  <2> QED
    BY <2>2, <2>3
<1>7. Undisturbed(d2, past) \subseteq Undisturbed(d, past)
  BY <1>4, <1>6, UndisturbedBefore
<1>8. HeldAndLent(d2, past)
  <2>1. ASSUME NEW e \in Undisturbed(d2, past)
        PROVE  d2.reserved[e] = Total(HeldFor(d2, e), Ops) + Total(LeftOver(d2, e), Active(d2))
    <3>1. e \in Entitlements /\ e \in Undisturbed(d, past)
      BY <1>7 DEF Undisturbed
    <3>2. HeldFor(d2, e) = HeldFor(d, e)
      BY <1>4, SameHeld
    <3>3. Total(LeftOver(d2, e), Active(d2)) =
            Total(LeftOver(d, e), Active(d)) + d2.reserved[e] - d.reserved[e]
      BY <1>1, <1>2, <1>5, <3>1, CreatedLeft
    <3>4. d.reserved[e] = Total(HeldFor(d, e), Ops) + Total(LeftOver(d, e), Active(d))
      BY <1>1, <3>1 DEF HeldAndLent
    <3>5. Total(HeldFor(d, e), Ops) \in Nat
      BY <1>1, <3>1, HeldForType
    <3>6. d.reserved[e] \in Nat /\ d2.reserved[e] \in Nat
      BY <1>1, <1>3, <3>1, RowTypes
    <3>7. Total(LeftOver(d, e), Active(d)) \in Int
      BY <1>1, <3>1, LeftType
    <3> QED
      BY <3>2, <3>3, <3>4, <3>5, <3>6, <3>7
  <2> QED
    BY <2>1 DEF HeldAndLent
<1>9. HeldOfGrants(d2)
  <2>1. \A p : LentHeldFor(d2, p) = LentHeldFor(d, p)
    BY <1>4, SameLentHeld
  <2> QED
    BY <1>1, <1>4, <1>6, <2>1 DEF HeldOfGrants
<1>10. HeldOfActive(d2, past)
  <2>1. Active(d) \subseteq Active(d2)
    BY <1>1, <1>2, <1>3, RowTypes DEF Active, Created
  <2>2. \A op : LentHeld(d2, op) = LentHeld(d, op)
    BY <1>4, SameLentHeld
  <2> QED
    BY <1>1, <1>6, <2>1, <2>2 DEF HeldOfActive
<1>11. Told(d2)
  BY <1>1, <1>4 DEF Told
<1>12. UsedIsCommitted(d2, past)
  <2>1. \A e : CommittedOn(d2, e) = CommittedOn(d, e)
    BY <1>4, SameHeld
  <2> QED
    BY <1>1, <1>4, <1>7, <2>1 DEF UsedIsCommitted
<1>13. InBounds(d2)
  <2>1. ASSUME NEW a \in Allocations
        PROVE  /\ d2.lentUsed[a] + d2.lentReserved[a] <= d2.allocated[a]
               /\ d2.grant[a[1]] = "none" => d2.allocated[a] = 0
    <3>1. a[1] \in Grants
      BY DEF Allocations
    <3>2. CASE a[1] = g
      <4>1. d2.allocated[a] \in Nat /\ d2.grant[g] = "active"
        BY <1>1, <1>2, <1>3, RowTypes DEF Created
      <4> QED
        BY <1>4, <1>5, <3>2, <4>1
    <3>3. CASE a[1] # g
      <4>1. d2.allocated[a] = d.allocated[a] /\ d2.grant[a[1]] = d.grant[a[1]]
        BY <1>1, <1>2, <3>1, <3>3, RowTypes DEF Created
      <4> QED
        BY <1>1, <1>4, <4>1 DEF InBounds
    <3> QED
      BY <3>2, <3>3
  <2> QED
    BY <2>1 DEF InBounds
<1> QED
  BY <1>3, <1>8, <1>9, <1>10, <1>11, <1>12, <1>13 DEF Sound

LEMMA TakeBackKeeps ==
  ASSUME NEW past, NEW d, Sound(d, past), NEW g \in Grants, NEW d2 \in RevokeExternalGrant(d, g)
  PROVE  Sound(d2, past)
<1>1. /\ d \in Tables /\ HeldAndLent(d, past) /\ HeldOfGrants(d) /\ HeldOfActive(d, past)
      /\ Told(d) /\ UsedIsCommitted(d, past) /\ InBounds(d)
  BY DEF Sound
<1>2. Revoked(d, d2, g)
  BY <1>1, RevokeEffect
<1>3. \A a \in Allocations : a[1] = g => d.lentReserved[a] = 0
  BY DEF RevokeExternalGrant
<1>4. /\ d2 \in Tables /\ d2.allocated = d.allocated
      /\ d2.used = d.used /\ d2.lentUsed = d.lentUsed /\ d2.lentReserved = d.lentReserved
      /\ d2.direct = d.direct /\ d2.directStatus = d.directStatus /\ d2.ledger = d.ledger
      /\ d2.external = d.external /\ d2.externalStatus = d.externalStatus
  BY <1>2 DEF Revoked, SameUse
<1>5. \A h, e : SoleSource(d2, h, e) <=> SoleSource(d, h, e)
  BY <1>4, SameSources
<1>6. Undisturbed(d2, past) \subseteq Undisturbed(d, past)
  BY <1>4, <1>5, UndisturbedBefore
<1>7. /\ \A op : LentHeld(d2, op) = LentHeld(d, op)
      /\ \A p : LentHeldFor(d2, p) = LentHeldFor(d, p)
  BY <1>4, SameLentHeld
<1>8. HeldAndLent(d2, past)
  <2>1. ASSUME NEW e \in Undisturbed(d2, past)
        PROVE  d2.reserved[e] = Total(HeldFor(d2, e), Ops) + Total(LeftOver(d2, e), Active(d2))
    <3>1. e \in Entitlements /\ e \in Undisturbed(d, past)
      BY <1>6 DEF Undisturbed
    <3>2. HeldFor(d2, e) = HeldFor(d, e)
      BY <1>4, SameHeld
    <3>3. Total(LeftOver(d2, e), Active(d2)) =
            Total(LeftOver(d, e), Active(d)) + d2.reserved[e] - d.reserved[e]
      BY <1>1, <1>2, <3>1, RevokedLeft
    <3>4. d.reserved[e] = Total(HeldFor(d, e), Ops) + Total(LeftOver(d, e), Active(d))
      BY <1>1, <3>1 DEF HeldAndLent
    <3>5. Total(HeldFor(d, e), Ops) \in Nat
      BY <1>1, <3>1, HeldForType
    <3>6. d.reserved[e] \in Nat /\ d2.reserved[e] \in Nat
      BY <1>1, <1>4, <3>1, RowTypes
    <3>7. Total(LeftOver(d, e), Active(d)) \in Int
      BY <1>1, <3>1, LeftType
    <3> QED
      BY <3>2, <3>3, <3>4, <3>5, <3>6, <3>7
  <2> QED
    BY <2>1 DEF HeldAndLent
<1>9. HeldOfGrants(d2)
  BY <1>1, <1>4, <1>5, <1>7 DEF HeldOfGrants
<1>10. HeldOfActive(d2, past)
  <2>1. ASSUME NEW op \in Ops, NEW h \in Grants, NEW e \in Entitlements,
               SoleSource(d2, h, e), <<op, <<h, e>>>> \notin past, LentHeld(d2, op)[<<h, e>>] > 0
        PROVE  h \in Active(d2)
    <3>1. SoleSource(d, h, e) /\ LentHeld(d, op)[<<h, e>>] > 0
      BY <1>5, <1>7, <2>1
    <3>2. h \in Active(d)
      BY <1>1, <2>1, <3>1 DEF HeldOfActive
    <3>3. h # g
      <4> SUFFICES ASSUME h = g PROVE FALSE
        OBVIOUS
      <4>1. <<g, e, "explicit">> \in Allocations /\ <<g, e, "plan">> \in Allocations
        BY DEF Allocations, Sources
      <4>2. OfGrants(d.lentReserved, e)[g] = 0
        BY <1>3, <4>1 DEF OfGrants
      <4>3. LentHeld(d, op)[<<g, e>>] <= 0 /\ LentHeld(d, op)[<<g, e>>] \in Nat
        BY <3>1, <4>2, LentIsThere
      <4> QED
        BY <3>1, <4>3
    <3> QED
      BY <1>1, <1>2, <3>2, <3>3, RowTypes DEF Active, Revoked
  <2> QED
    BY <2>1 DEF HeldOfActive
<1>11. Told(d2)
  BY <1>1, <1>4 DEF Told
<1>12. UsedIsCommitted(d2, past)
  <2>1. \A e : CommittedOn(d2, e) = CommittedOn(d, e)
    BY <1>4, SameHeld
  <2> QED
    BY <1>1, <1>4, <1>6, <2>1 DEF UsedIsCommitted
<1>13. InBounds(d2)
  <2>1. ASSUME NEW a \in Allocations, d2.grant[a[1]] = "none" PROVE d.grant[a[1]] = "none"
    <3>1. a[1] \in Grants
      BY DEF Allocations
    <3> QED
      BY <1>1, <1>2, <2>1, <3>1, RowTypes DEF Revoked
  <2> QED
    BY <1>1, <1>4, <2>1 DEF InBounds
<1> QED
  BY <1>4, <1>8, <1>9, <1>10, <1>11, <1>12, <1>13 DEF Sound

\* An operation id without a ledger entry was never used.
LEMMA UnusedId ==
  ASSUME NEW d \in Tables, Told(d), NEW op \in Ops, d.ledger[op]["reserve"] = 0
  PROVE  d.directStatus[op] = "none"
<1>1. d.directStatus[op] \in Status /\ "reserve" \in Kinds
  BY RowTypes DEF Kinds
<1>2. d.directStatus[op] # "none" => "reserve" \in Entries(d.directStatus[op])
  BY <1>1 DEF Status, Entries
<1>3. d.directStatus[op] # "none" => d.ledger[op]["reserve"] > 0
  BY <1>1, <1>2 DEF Told
<1> QED
  BY <1>3

LEMMA ReserveOwnKeeps ==
  ASSUME NEW past, NEW d, Sound(d, past), NEW op \in Ops, NEW cost \in Costs,
         NEW d2 \in ReserveOwn(d, op, cost)
  PROVE  /\ Sound(d2, past) /\ d.directStatus[op] = "none"
         /\ d2.externalStatus = d.externalStatus
<1>1. /\ d \in Tables /\ HeldAndLent(d, past) /\ HeldOfGrants(d) /\ HeldOfActive(d, past)
      /\ Told(d) /\ UsedIsCommitted(d, past) /\ InBounds(d)
  BY DEF Sound
<1>2. cost \in Nat /\ cost > 0
  BY TablesAssumption DEF Costs
<1>3. /\ d.ledger[op]["reserve"] = 0 /\ Logged(d, d2, op, "reserve", cost)
      /\ \E took : Fits(d, cost, took) /\ Reserved(d, d2, op, took)
  BY <1>1, <1>2, ReserveOwnEffect
<1>4. PICK took : Fits(d, cost, took) /\ Reserved(d, d2, op, took)
  BY <1>3
<1>5. /\ took \in [Entitlements -> Nat] /\ Total(took, Entitlements) = cost
      /\ d2 \in Tables /\ SameGrants(d, d2) /\ SameLent(d, d2) /\ d2.used = d.used
      /\ d2.reserved = [e \in Entitlements |-> d.reserved[e] + took[e]]
      /\ d2.direct = [d.direct EXCEPT ![op] = took]
      /\ d2.directStatus = [d.directStatus EXCEPT ![op] = "reserved"]
      /\ d2.ledger = [d.ledger EXCEPT ![op]["reserve"] = cost]
  BY <1>3, <1>4 DEF Fits, Reserved, Logged
<1>6. d.directStatus[op] = "none"
  BY <1>1, <1>3, UnusedId
<1>7. /\ Undisturbed(d2, past) = Undisturbed(d, past)
      /\ HeldOfGrants(d2) /\ HeldOfActive(d2, past) /\ InBounds(d2)
      /\ Active(d2) = Active(d) /\ \A e : LeftOver(d2, e) = LeftOver(d, e)
  BY <1>1, <1>5, SameGrantRows
<1>8. /\ d2.direct[op] = took /\ d2.directStatus[op] = "reserved"
      /\ \A o \in Ops : o # op => d2.direct[o] = d.direct[o] /\ d2.directStatus[o] = d.directStatus[o]
  BY <1>1, <1>5, RowTypes
<1>9. HeldAndLent(d2, past)
  <2>1. ASSUME NEW e \in Undisturbed(d2, past)
        PROVE  d2.reserved[e] = Total(HeldFor(d2, e), Ops) + Total(LeftOver(d2, e), Active(d2))
    <3>1. e \in Entitlements /\ e \in Undisturbed(d, past)
      BY <1>7 DEF Undisturbed
    <3>2. HeldFor(d2, e)[op] = took[e] /\ HeldFor(d, e)[op] = 0
      BY <1>6, <1>8, <3>1 DEF HeldFor, Held
    <3>3. ASSUME NEW o \in Ops
          PROVE  /\ HeldFor(d, e)[o] \in Int /\ HeldFor(d2, e)[o] \in Int
                 /\ o # op => HeldFor(d2, e)[o] = HeldFor(d, e)[o]
      <4>1. HeldFor(d, e)[o] \in Int /\ HeldFor(d2, e)[o] \in Int
        BY <1>1, <1>5, <3>1, HeldForType
      <4> QED
        BY <1>8, <4>1 DEF HeldFor, Held
    <3>4. /\ Total(HeldFor(d, e), Ops) \in Int
          /\ Total(HeldFor(d2, e), Ops) = Total(HeldFor(d, e), Ops) - HeldFor(d, e)[op] + HeldFor(d2, e)[op]
      BY <3>3, OneOpChanges
    <3>5. d.reserved[e] = Total(HeldFor(d, e), Ops) + Total(LeftOver(d, e), Active(d))
      BY <1>1, <3>1 DEF HeldAndLent
    <3>6. d2.reserved[e] = d.reserved[e] + took[e] /\ took[e] \in Nat
      BY <1>5, <3>1
    <3>7. Total(LeftOver(d, e), Active(d)) \in Int
      BY <1>1, <3>1, LeftType
    <3>8. Total(LeftOver(d2, e), Active(d2)) = Total(LeftOver(d, e), Active(d))
      BY <1>7
    <3> QED
      BY <3>2, <3>4, <3>5, <3>6, <3>7, <3>8
  <2> QED
    BY <2>1 DEF HeldAndLent
<1>10. Told(d2)
  <2>1. ASSUME NEW o \in Ops
        PROVE  /\ d2.directStatus[o] # "none" => Total(d2.direct[o], Entitlements) > 0
               /\ \A k \in Kinds :
                    d2.ledger[o][k] =
                      IF k \in Entries(d2.directStatus[o]) THEN Total(d2.direct[o], Entitlements) ELSE 0
    <3>1. CASE o = op
      <4>1. \A k \in Kinds : d2.ledger[op][k] = IF k = "reserve" THEN cost ELSE d.ledger[op][k]
        BY <1>1, <1>5, RowTypes
      <4>2. \A k \in Kinds : d.ledger[op][k] = 0
        BY <1>1, <1>6 DEF Told, Entries
      <4>3. \A k \in Kinds : k \in Entries("reserved") <=> k = "reserve"
        BY DEF Entries
      <4> QED
        BY <1>2, <1>5, <1>8, <3>1, <4>1, <4>2, <4>3
    <3>2. CASE o # op
      <4>1. /\ d2.ledger[o] = d.ledger[o] /\ d2.direct[o] = d.direct[o]
            /\ d2.directStatus[o] = d.directStatus[o]
        BY <1>1, <1>5, <1>8, <3>2, RowTypes
      <4> QED
        BY <1>1, <4>1 DEF Told
    <3> QED
      BY <3>1, <3>2
  <2> QED
    BY <2>1 DEF Told
<1>11. UsedIsCommitted(d2, past)
  <2>1. \A o \in Ops : OwnCommitted(d2, o) = OwnCommitted(d, o)
    BY <1>6, <1>8 DEF OwnCommitted
  <2>2. \A e : CommittedOn(d2, e) = CommittedOn(d, e)
    BY <2>1 DEF CommittedOn
  <2> QED
    BY <1>1, <1>5, <1>7, <2>2 DEF UsedIsCommitted, SameLent
<1> QED
  BY <1>5, <1>6, <1>7, <1>9, <1>10, <1>11 DEF Sound, SameLent

\* What an external reservation adds to the history: its rows on grants that are
\* not active.
LateOf(d, d2, op) ==
  {<<op, p>> : p \in {q \in Shares :
     d.grant[q[1]] # "active" /\ d2.externalStatus[op][q] # d.externalStatus[op][q]}}

LEMMA ReserveExternalKeeps ==
  ASSUME NEW past, NEW d, Sound(d, past), NEW op \in Ops, NEW grants \in SUBSET Grants, NEW cost \in Nat,
         NEW d2 \in ReserveExternal(d, op, grants, cost),
         NEW past2, past2 = past \union LateOf(d, d2, op)
  PROVE  Sound(d2, past2)
<1>1. /\ d \in Tables /\ HeldAndLent(d, past) /\ HeldOfGrants(d) /\ HeldOfActive(d, past)
      /\ Told(d) /\ UsedIsCommitted(d, past) /\ InBounds(d)
  BY DEF Sound
<1>2. \E took : LentFits(d, grants, cost, took) /\ ReservedLent(d, d2, op, took)
  BY <1>1, ReserveExternalEffect
<1>3. PICK took : LentFits(d, grants, cost, took) /\ ReservedLent(d, d2, op, took)
  BY <1>2
<1>4. /\ took \in [Allocations -> Nat]
      /\ \A a \in Allocations : took[a] > 0 => took[a] <= LentFree(d, a)
      /\ d2 \in Tables /\ SameGrants(d, d2) /\ SameDirect(d, d2)
      /\ d2.used = d.used /\ d2.reserved = d.reserved /\ d2.lentUsed = d.lentUsed
      /\ d2.lentReserved = [a \in Allocations |-> d.lentReserved[a] + took[a]]
      /\ d2.grant = d.grant /\ d2.allocated = d.allocated
      /\ d2.direct = d.direct /\ d2.directStatus = d.directStatus /\ d2.ledger = d.ledger
  BY <1>3 DEF LentFits, ReservedLent, SameGrants, SameDirect
<1>5. ASSUME NEW p \in Grants \X Entitlements
      PROVE  /\ TookFor(took, p) \in Nat
             /\ TookFor(took, p) > 0 => d.externalStatus[op][p] = "none"
             /\ \A o \in Ops :
                  IF o = op /\ TookFor(took, p) > 0
                  THEN d2.external[o][p] = TookFor(took, p) /\ d2.externalStatus[o][p] = "reserved"
                  ELSE d2.external[o][p] = d.external[o][p] /\ d2.externalStatus[o][p] = d.externalStatus[o][p]
  <2>1. <<p[1], p[2], "explicit">> \in Allocations /\ <<p[1], p[2], "plan">> \in Allocations
    BY DEF Allocations, Sources
  <2>2. TookFor(took, p) \in Nat
    BY <1>4, <2>1 DEF TookFor
  <2> QED
    BY <1>3, <2>2 DEF ReservedLent
<1>6. \A g, e : SoleSource(d2, g, e) <=> SoleSource(d, g, e)
  BY <1>4, SameSources
<1>7. Undisturbed(d2, past2) \subseteq Undisturbed(d, past)
  <2>1. ASSUME NEW o \in Ops, NEW g \in Grants, NEW e \in Entitlements,
               d.externalStatus[o][<<g, e>>] = "committed"
        PROVE  d2.externalStatus[o][<<g, e>>] = "committed"
    BY <1>5, <2>1
  <2> QED
    BY <1>6, <2>1, UndisturbedBefore
<1>8. Active(d2) = Active(d) /\ \A e : LeftOver(d2, e) = LeftOver(d, e)
  BY <1>4 DEF Active, LeftOver, Unused
<1>9. \A e : HeldFor(d2, e) = HeldFor(d, e) /\ CommittedOn(d2, e) = CommittedOn(d, e)
  BY <1>4, SameHeld
<1>10. HeldAndLent(d2, past2)
  BY <1>1, <1>4, <1>7, <1>8, <1>9 DEF HeldAndLent
<1>11. Told(d2)
  BY <1>1, <1>4 DEF Told
<1>12. UsedIsCommitted(d2, past2)
  BY <1>1, <1>4, <1>7, <1>9 DEF UsedIsCommitted
<1>13. InBounds(d2)
  <2>1. ASSUME NEW a \in Allocations
        PROVE  /\ d2.lentUsed[a] + d2.lentReserved[a] <= d2.allocated[a]
               /\ d2.grant[a[1]] = "none" => d2.allocated[a] = 0
    <3>1. /\ d.lentUsed[a] \in Nat /\ d.lentReserved[a] \in Nat /\ d.allocated[a] \in Nat
          /\ took[a] \in Nat /\ d2.lentReserved[a] = d.lentReserved[a] + took[a]
      BY <1>1, <1>4, RowTypes
    <3>2. took[a] > 0 => took[a] <= d.allocated[a] - d.lentUsed[a] - d.lentReserved[a]
      BY <1>4 DEF LentFree
    <3> QED
      BY <1>1, <1>4, <3>1, <3>2 DEF InBounds
  <2> QED
    BY <2>1 DEF InBounds
<1>14. ASSUME NEW o \in Ops, NEW p \in Grants \X Entitlements
       PROVE  /\ LentHeld(d, o)[p] =
                   IF d.externalStatus[o][p] = "reserved" THEN d.external[o][p] ELSE 0
              /\ LentHeld(d2, o)[p] =
                   IF d2.externalStatus[o][p] = "reserved" THEN d2.external[o][p] ELSE 0
  BY DEF LentHeld
<1>15. HeldOfActive(d2, past2)
  <2>1. ASSUME NEW o \in Ops, NEW g \in Grants, NEW e \in Entitlements,
               SoleSource(d2, g, e), <<o, <<g, e>>>> \notin past2, LentHeld(d2, o)[<<g, e>>] > 0
        PROVE  g \in Active(d2)
    <3>1. PICK p \in Grants \X Entitlements : p = <<g, e>>
      OBVIOUS
    <3>2. CASE o = op /\ TookFor(took, p) > 0
      <4>1. d2.externalStatus[op][p] # d.externalStatus[op][p]
        BY <1>5, <3>2
      <4>2. <<op, p>> \notin LateOf(d, d2, op) /\ p \in Shares
        BY <2>1, <3>1, <3>2 DEF Shares
      <4>3. d.grant[p[1]] = "active"
        BY <4>1, <4>2 DEF LateOf
      <4> QED
        BY <1>8, <3>1, <4>3 DEF Active
    <3>3. CASE ~(o = op /\ TookFor(took, p) > 0)
      <4>1. d2.external[o][p] = d.external[o][p] /\ d2.externalStatus[o][p] = d.externalStatus[o][p]
        BY <1>5, <3>3
      <4>2. LentHeld(d, o)[p] > 0
        BY <1>14, <2>1, <3>1, <4>1
      <4>3. SoleSource(d, g, e) /\ <<o, <<g, e>>>> \notin past
        BY <1>6, <2>1
      <4>4. g \in Active(d)
        BY <1>1, <3>1, <4>2, <4>3 DEF HeldOfActive
      <4> QED
        BY <1>8, <4>4
    <3> QED
      BY <3>2, <3>3
  <2> QED
    BY <2>1 DEF HeldOfActive
<1>16. HeldOfGrants(d2)
  <2>1. ASSUME NEW g \in Grants, NEW e \in Entitlements, SoleSource(d2, g, e)
        PROVE  OfGrants(d2.lentReserved, e)[g] = Total(LentHeldFor(d2, <<g, e>>), Ops)
    <3> DEFINE x == <<g, e, "explicit">>
               y == <<g, e, "plan">>
               p == <<g, e>>
    <3>1. /\ x \in Allocations /\ y \in Allocations /\ p \in Grants \X Entitlements
          /\ OfGrants(d2.lentReserved, e)[g] = d2.lentReserved[x] + d2.lentReserved[y]
          /\ OfGrants(d.lentReserved, e)[g] = d.lentReserved[x] + d.lentReserved[y]
          /\ TookFor(took, p) = took[x] + took[y]
      BY DEF Allocations, Sources, OfGrants, TookFor
    <3>2. /\ \A o \in Ops : LentHeldFor(d, p)[o] \in Nat /\ LentHeldFor(d2, p)[o] \in Nat
          /\ Total(LentHeldFor(d, p), Ops) \in Nat
      BY <1>1, <1>4, HeldTypes
    <3>3. OfGrants(d.lentReserved, e)[g] = Total(LentHeldFor(d, p), Ops)
      BY <1>1, <1>6, <2>1 DEF HeldOfGrants
    <3> HIDE DEF x, y, p
    <3>4. took[x] \in Nat /\ took[y] \in Nat /\ TookFor(took, p) \in Nat
      BY <1>4, <1>5, <3>1
    <3>5. OfGrants(d2.lentReserved, e)[g] = OfGrants(d.lentReserved, e)[g] + TookFor(took, p)
      <4>1. d.lentReserved[x] \in Nat /\ d.lentReserved[y] \in Nat
        BY <1>1, <3>1, RowTypes
      <4>2. d2.lentReserved[x] = d.lentReserved[x] + took[x] /\ d2.lentReserved[y] = d.lentReserved[y] + took[y]
        BY <1>4, <3>1
      <4> QED
        BY <3>1, <3>4, <4>1, <4>2
    <3>6. ASSUME NEW o \in Ops
          PROVE  /\ LentHeldFor(d, p)[o] =
                      IF d.externalStatus[o][p] = "reserved" THEN d.external[o][p] ELSE 0
                 /\ LentHeldFor(d2, p)[o] =
                      IF d2.externalStatus[o][p] = "reserved" THEN d2.external[o][p] ELSE 0
      BY <1>14, <3>1 DEF LentHeldFor
    <3>7. /\ LentHeldFor(d2, p)[op] = LentHeldFor(d, p)[op] + TookFor(took, p)
          /\ \A o \in Ops : o # op => LentHeldFor(d2, p)[o] = LentHeldFor(d, p)[o]
      <4>1. \A o \in Ops : o # op => LentHeldFor(d2, p)[o] = LentHeldFor(d, p)[o]
        BY <1>5, <3>1, <3>6
      <4>2. CASE TookFor(took, p) > 0
        <5>1. /\ d.externalStatus[op][p] = "none" /\ d2.externalStatus[op][p] = "reserved"
              /\ d2.external[op][p] = TookFor(took, p)
          BY <1>5, <3>1, <4>2
        <5>2. LentHeldFor(d, p)[op] = 0 /\ LentHeldFor(d2, p)[op] = TookFor(took, p)
          BY <3>6, <5>1
        <5> QED
          BY <3>4, <4>1, <5>2
      <4>3. CASE TookFor(took, p) = 0
        <5>1. LentHeldFor(d2, p)[op] = LentHeldFor(d, p)[op] /\ LentHeldFor(d, p)[op] \in Nat
          BY <1>5, <3>1, <3>2, <3>6, <4>3
        <5> QED
          BY <4>1, <4>3, <5>1
      <4> QED
        BY <3>4, <4>2, <4>3
    <3>8. Total(LentHeldFor(d2, p), Ops) =
            Total(LentHeldFor(d, p), Ops) - LentHeldFor(d, p)[op] + LentHeldFor(d2, p)[op]
      <4>1. \A o \in Ops : /\ LentHeldFor(d, p)[o] \in Int /\ LentHeldFor(d2, p)[o] \in Int
                           /\ o # op => LentHeldFor(d2, p)[o] = LentHeldFor(d, p)[o]
        BY <3>2, <3>7
      <4> QED
        BY <4>1, OneOpChanges
    <3>9. LentHeldFor(d, p)[op] \in Nat
      BY <3>2
    <3>10. OfGrants(d2.lentReserved, e)[g] = Total(LentHeldFor(d2, p), Ops)
      BY <3>2, <3>3, <3>4, <3>5, <3>7, <3>8, <3>9
    <3> QED
      BY <3>10 DEF p
  <2> QED
    BY <2>1 DEF HeldOfGrants
<1> QED
  BY <1>4, <1>10, <1>11, <1>12, <1>13, <1>15, <1>16 DEF Sound

-----------------------------------------------------------------------------
(* Settling. *)

\* What is settled, the amount included, stays.
SettledStay(d, d2) ==
  /\ \A op \in Ops :
       d.directStatus[op] \in {"committed", "released", "expired"} =>
         d2.directStatus[op] = d.directStatus[op] /\ d2.direct[op] = d.direct[op]
  /\ \A op \in Ops, p \in Grants \X Entitlements :
       d.externalStatus[op][p] \in {"committed", "released"} =>
         /\ d2.externalStatus[op][p] = d.externalStatus[op][p]
         /\ d2.external[op][p] = d.external[op][p]

LEMMA StayTwice ==
  ASSUME NEW d, NEW d1, NEW d2, SettledStay(d, d1), SettledStay(d1, d2)
  PROVE  SettledStay(d, d2)
BY DEF SettledStay

\* The three ways a reservation of the operation's own ends.
Endings == {<<"commit", "committed", TRUE>>, <<"release", "released", FALSE>>, <<"expire", "expired", FALSE>>}

LEMMA EndingTold ==
  ASSUME NEW kind, NEW outcome, NEW use, <<kind, outcome, use>> \in Endings
  PROVE  /\ kind \in Kinds /\ outcome \in Status /\ use \in BOOLEAN
         /\ kind # "reserve" /\ outcome # "none" /\ outcome # "reserved"
         /\ use <=> kind = "commit"
         /\ use <=> outcome = "committed"
         /\ \A k \in Kinds : k \in Entries(outcome) <=> k = "reserve" \/ k = kind
<1>1. CASE kind = "commit" /\ outcome = "committed" /\ use = TRUE
  BY <1>1 DEF Kinds, Status, Entries
<1>2. CASE kind = "release" /\ outcome = "released" /\ use = FALSE
  BY <1>2 DEF Kinds, Status, Entries
<1>3. CASE kind = "expire" /\ outcome = "expired" /\ use = FALSE
  BY <1>3 DEF Kinds, Status, Entries
<1> QED
  BY <1>1, <1>2, <1>3 DEF Endings

\* What the operation's end moves of a row: all it holds, or nothing when the
\* row has less ("AND reserved>=?").
MovedOf(d, op) ==
  [e \in Entitlements |-> IF Held(d, op)[e] <= d.reserved[e] THEN Held(d, op)[e] ELSE 0]

LEMMA WithdrawByRow ==
  ASSUME NEW d \in Tables, NEW op \in Ops, NEW kind \in Kinds, NEW outcome \in Status,
         NEW use \in BOOLEAN, d.directStatus[op] = "reserved",
         NEW d2, d2 = Withdraw(d, op, kind, outcome, use), NEW moved, moved = MovedOf(d, op)
  PROVE  /\ d2 \in Tables /\ SameGrants(d, d2) /\ SameLent(d, d2) /\ d2.direct = d.direct
         /\ moved \in [Entitlements -> Nat]
         /\ d2.reserved = [e \in Entitlements |-> d.reserved[e] - moved[e]]
         /\ d2.used = [e \in Entitlements |-> IF use THEN d.used[e] + moved[e] ELSE d.used[e]]
         /\ d2.directStatus = [d.directStatus EXCEPT ![op] = outcome]
         /\ Logged(d, d2, op, kind, Total(d.direct[op], Entitlements))
<1> DEFINE held == d.direct[op]
           Moves(e) == held[e] > 0 /\ d.reserved[e] >= held[e]
<1>1. held \in [Entitlements -> Nat] /\ Held(d, op) = held
  BY DEF Tables, Held
<1>2. d2 = [d EXCEPT
             !.reserved = [e \in Entitlements |-> IF Moves(e) THEN d.reserved[e] - held[e] ELSE d.reserved[e]],
             !.used = [e \in Entitlements |-> IF Moves(e) /\ use THEN d.used[e] + held[e] ELSE d.used[e]],
             !.directStatus[op] = outcome,
             !.ledger[op][kind] = Total(held, Entitlements)]
  BY DEF Withdraw, Held
<1>3. ASSUME NEW e \in Entitlements
      PROVE  /\ (IF Moves(e) THEN d.reserved[e] - held[e] ELSE d.reserved[e]) = d.reserved[e] - moved[e]
             /\ (IF Moves(e) /\ use THEN d.used[e] + held[e] ELSE d.used[e])
                  = IF use THEN d.used[e] + moved[e] ELSE d.used[e]
             /\ d.reserved[e] - moved[e] \in Nat /\ moved[e] \in Nat
             /\ (IF use THEN d.used[e] + moved[e] ELSE d.used[e]) \in Nat
  <2>1. moved[e] = IF held[e] <= d.reserved[e] THEN held[e] ELSE 0
    BY <1>1 DEF MovedOf
  <2>2. held[e] \in Nat /\ d.reserved[e] \in Nat /\ d.used[e] \in Nat
    BY <1>1, RowTypes
  <2> HIDE DEF held
  <2> QED
    BY <2>1, <2>2
<1>4. moved \in [Entitlements -> Nat]
  <2>1. \A e \in Entitlements : moved[e] \in Nat
    BY <1>3
  <2> QED
    BY <2>1 DEF MovedOf
<1>5. d2.reserved = [e \in Entitlements |-> d.reserved[e] - moved[e]]
  <2>1. d2.reserved =
          [e \in Entitlements |-> IF Moves(e) THEN d.reserved[e] - held[e] ELSE d.reserved[e]]
    BY <1>2 DEF Tables
  <2> HIDE DEF Moves, held
  <2> QED
    BY <1>3, <2>1
<1>6. d2.used = [e \in Entitlements |-> IF use THEN d.used[e] + moved[e] ELSE d.used[e]]
  <2>1. d2.used = [e \in Entitlements |-> IF Moves(e) /\ use THEN d.used[e] + held[e] ELSE d.used[e]]
    BY <1>2 DEF Tables
  <2> HIDE DEF Moves, held
  <2> QED
    BY <1>3, <2>1
<1>7. /\ SameGrants(d, d2) /\ SameLent(d, d2) /\ d2.direct = d.direct /\ d2.deny = d.deny
      /\ d2.directStatus = [d.directStatus EXCEPT ![op] = outcome]
      /\ d2.ledger = [d.ledger EXCEPT ![op][kind] = Total(held, Entitlements)]
  BY <1>2 DEF Tables, SameGrants, SameLent
<1>8. d2 \in Tables
  <2>1. d2.reserved \in [Entitlements -> Nat] /\ d2.used \in [Entitlements -> Nat]
    BY <1>3, <1>5, <1>6
  <2>2. d2.directStatus \in [Ops -> Status]
    BY <1>7 DEF Tables
  <2>3. Total(held, Entitlements) \in Nat
    BY <1>1, TablesAssumption, TotalNat
  <2>4. d2.ledger \in [Ops -> [Kinds -> Nat]]
    BY <1>7, <2>3 DEF Tables
  <2> QED
    BY <1>2, <1>7, <2>1, <2>2, <2>4 DEF Tables, SameGrants, SameLent
<1> QED
  BY <1>4, <1>5, <1>6, <1>7, <1>8 DEF Logged

LEMMA WithdrawKeeps ==
  ASSUME NEW past, NEW d, Sound(d, past), NEW op \in Ops, NEW kind, NEW outcome, NEW use,
         <<kind, outcome, use>> \in Endings, NEW d2, d2 = Withdraw(d, op, kind, outcome, use)
  PROVE  /\ Sound(d2, past) /\ SettledStay(d, d2)
         /\ SameLent(d, d2) /\ Undisturbed(d2, past) = Undisturbed(d, past)
         /\ \A e \in Entitlements :
              e \in Undisturbed(d, past) \/ Held(d, op)[e] = 0 =>
                d2.used[e] = d.used[e] + (IF use THEN Held(d, op)[e] ELSE 0)
<1>1. /\ d \in Tables /\ HeldAndLent(d, past) /\ HeldOfGrants(d) /\ HeldOfActive(d, past)
      /\ Told(d) /\ UsedIsCommitted(d, past) /\ InBounds(d)
  BY DEF Sound
<1>2. CASE d.directStatus[op] # "reserved"
  <2>1. d2 = d
    BY <1>2 DEF Withdraw
  <2>2. \A e \in Entitlements : Held(d, op)[e] = 0 /\ d.used[e] \in Nat
    BY <1>1, <1>2, RowTypes DEF Held
  <2> QED
    BY <2>1, <2>2 DEF SettledStay, SameLent
<1>3. CASE d.directStatus[op] = "reserved"
  <2>1. /\ kind \in Kinds /\ outcome \in Status /\ use \in BOOLEAN
        /\ kind # "reserve" /\ outcome # "none" /\ outcome # "reserved"
        /\ use <=> kind = "commit"
        /\ use <=> outcome = "committed"
        /\ \A k \in Kinds : k \in Entries(outcome) <=> k = "reserve" \/ k = kind
    BY EndingTold
  <2>2. PICK amount, moved : amount = Total(d.direct[op], Entitlements) /\ moved = MovedOf(d, op)
    OBVIOUS
  <2>3. /\ d2 \in Tables /\ SameGrants(d, d2) /\ SameLent(d, d2) /\ d2.direct = d.direct
        /\ moved \in [Entitlements -> Nat]
        /\ d2.reserved = [e \in Entitlements |-> d.reserved[e] - moved[e]]
        /\ d2.used = [e \in Entitlements |-> IF use THEN d.used[e] + moved[e] ELSE d.used[e]]
        /\ d2.directStatus = [d.directStatus EXCEPT ![op] = outcome]
        /\ d2.ledger = [d.ledger EXCEPT ![op][kind] = amount]
    BY <1>1, <1>3, <2>1, <2>2, WithdrawByRow DEF Logged
  <2>4. ASSUME NEW e \in Entitlements
        PROVE  /\ Held(d, op)[e] = d.direct[op][e] /\ d.direct[op][e] \in Nat
               /\ e \in Undisturbed(d, past) \/ Held(d, op)[e] = 0 => moved[e] = d.direct[op][e]
    <3>1. Held(d, op)[e] = d.direct[op][e] /\ d.direct[op][e] \in Nat /\ d.reserved[e] \in Nat
      BY <1>1, <1>3, RowTypes DEF Held
    <3>2. e \in Undisturbed(d, past) => Held(d, op)[e] <= d.reserved[e]
      BY OwnerHasOwn
    <3>3. moved[e] = IF Held(d, op)[e] <= d.reserved[e] THEN Held(d, op)[e] ELSE 0
      BY <2>2 DEF MovedOf
    <3> QED
      BY <3>1, <3>2, <3>3
  <2>5. /\ d2.directStatus[op] = outcome
        /\ \A o \in Ops : o # op => d2.directStatus[o] = d.directStatus[o]
    BY <1>1, <2>3, RowTypes
  <2>6. /\ Undisturbed(d2, past) = Undisturbed(d, past)
        /\ HeldOfGrants(d2) /\ HeldOfActive(d2, past) /\ InBounds(d2)
        /\ Active(d2) = Active(d) /\ \A e : LeftOver(d2, e) = LeftOver(d, e)
    BY <1>1, <2>3, SameGrantRows
  <2>7. ASSUME NEW e \in Entitlements, e \in Undisturbed(d, past) \/ Held(d, op)[e] = 0
        PROVE  d2.used[e] = d.used[e] + (IF use THEN Held(d, op)[e] ELSE 0)
    <3>1. moved[e] = Held(d, op)[e] /\ Held(d, op)[e] \in Nat
      BY <2>4, <2>7
    <3>2. d.used[e] \in Nat
      BY <1>1, RowTypes
    <3>3. d2.used[e] = IF use THEN d.used[e] + moved[e] ELSE d.used[e]
      BY <2>3
    <3> QED
      BY <3>1, <3>2, <3>3
  <2>8. HeldAndLent(d2, past)
    <3>1. ASSUME NEW e \in Undisturbed(d2, past)
          PROVE  d2.reserved[e] = Total(HeldFor(d2, e), Ops) + Total(LeftOver(d2, e), Active(d2))
      <4>1. e \in Entitlements /\ e \in Undisturbed(d, past)
        BY <2>6 DEF Undisturbed
      <4>2. HeldFor(d2, e)[op] = 0 /\ HeldFor(d, e)[op] = d.direct[op][e]
        BY <1>3, <2>1, <2>5, <4>1 DEF HeldFor, Held
      <4>3. ASSUME NEW o \in Ops
            PROVE  /\ HeldFor(d, e)[o] \in Int /\ HeldFor(d2, e)[o] \in Int
                   /\ o # op => HeldFor(d2, e)[o] = HeldFor(d, e)[o]
        <5>1. HeldFor(d, e)[o] \in Int /\ HeldFor(d2, e)[o] \in Int
          BY <1>1, <2>3, <4>1, HeldForType
        <5> QED
          BY <2>3, <2>5, <5>1 DEF HeldFor, Held
      <4>4. /\ Total(HeldFor(d, e), Ops) \in Int
            /\ Total(HeldFor(d2, e), Ops) = Total(HeldFor(d, e), Ops) - HeldFor(d, e)[op] + HeldFor(d2, e)[op]
        BY <4>3, OneOpChanges
      <4>5. d.reserved[e] = Total(HeldFor(d, e), Ops) + Total(LeftOver(d, e), Active(d))
        BY <1>1, <4>1 DEF HeldAndLent
      <4>6. moved[e] = d.direct[op][e] /\ d.direct[op][e] \in Nat
        BY <2>4, <4>1
      <4>7. d2.reserved[e] = d.reserved[e] - d.direct[op][e]
        BY <2>3, <4>1, <4>6
      <4>8. Total(LeftOver(d, e), Active(d)) \in Int
        BY <1>1, <4>1, LeftType
      <4>9. Total(LeftOver(d2, e), Active(d2)) = Total(LeftOver(d, e), Active(d))
        BY <2>6
      <4> QED
        BY <4>2, <4>4, <4>5, <4>6, <4>7, <4>8, <4>9
    <3> QED
      BY <3>1 DEF HeldAndLent
  <2>9. \A k \in Kinds : /\ d2.ledger[op][k] = IF k = kind THEN amount ELSE d.ledger[op][k]
                         /\ d.ledger[op][k] = IF k = "reserve" THEN amount ELSE 0
    <3>1. \A k \in Kinds : k \in Entries("reserved") <=> k = "reserve"
      BY DEF Entries
    <3>2. \A k \in Kinds : d.ledger[op][k] = IF k = "reserve" THEN amount ELSE 0
      BY <1>1, <1>3, <2>2, <3>1 DEF Told
    <3>3. \A k \in Kinds : d2.ledger[op][k] = IF k = kind THEN amount ELSE d.ledger[op][k]
      BY <1>1, <2>3, RowTypes
    <3> QED
      BY <3>2, <3>3
  <2>10. Told(d2)
    <3>1. ASSUME NEW o \in Ops
          PROVE  /\ d2.directStatus[o] # "none" => Total(d2.direct[o], Entitlements) > 0
                 /\ \A k \in Kinds :
                      d2.ledger[o][k] =
                        IF k \in Entries(d2.directStatus[o]) THEN Total(d2.direct[o], Entitlements) ELSE 0
      <4>1. CASE o = op
        <5>1. Total(d2.direct[op], Entitlements) = amount /\ amount > 0
          BY <1>1, <1>3, <2>2, <2>3 DEF Told
        <5> QED
          BY <2>1, <2>5, <2>9, <4>1, <5>1
      <4>2. CASE o # op
        <5>1. d2.ledger[o] = d.ledger[o]
          BY <1>1, <2>3, <4>2, RowTypes
        <5> QED
          BY <1>1, <2>3, <2>5, <4>2, <5>1 DEF Told
      <4> QED
        BY <4>1, <4>2
    <3> QED
      BY <3>1 DEF Told
  <2>11. UsedIsCommitted(d2, past)
    <3>1. ASSUME NEW e \in Undisturbed(d2, past)
          PROVE  d2.used[e] = Total(CommittedOn(d2, e), Ops) + Total(OfGrants(d2.lentUsed, e), Grants)
      <4>1. e \in Entitlements /\ e \in Undisturbed(d, past)
        BY <2>6 DEF Undisturbed
      <4>2. /\ CommittedOn(d, e)[op] = 0
            /\ CommittedOn(d2, e)[op] = IF use THEN d.direct[op][e] ELSE 0
        BY <1>3, <2>1, <2>3, <2>5, <4>1 DEF CommittedOn, OwnCommitted
      <4>3. ASSUME NEW o \in Ops
            PROVE  /\ CommittedOn(d, e)[o] \in Int /\ CommittedOn(d2, e)[o] \in Int
                   /\ o # op => CommittedOn(d2, e)[o] = CommittedOn(d, e)[o]
        <5>1. CommittedOn(d, e)[o] \in Int /\ CommittedOn(d2, e)[o] \in Int
          BY <1>1, <2>3, <4>1, CommittedType
        <5> QED
          BY <2>3, <2>5, <5>1 DEF CommittedOn, OwnCommitted
      <4>4. /\ Total(CommittedOn(d, e), Ops) \in Int
            /\ Total(CommittedOn(d2, e), Ops)
                 = Total(CommittedOn(d, e), Ops) - CommittedOn(d, e)[op] + CommittedOn(d2, e)[op]
        BY <4>3, OneOpChanges
      <4>5. d.used[e] = Total(CommittedOn(d, e), Ops) + Total(OfGrants(d.lentUsed, e), Grants)
        BY <1>1, <4>1 DEF UsedIsCommitted
      <4>6. Total(OfGrants(d.lentUsed, e), Grants) \in Int /\ d2.lentUsed = d.lentUsed
        BY <1>1, <2>3, <4>1, LentUsedType DEF SameLent
      <4>7. d2.used[e] = d.used[e] + (IF use THEN Held(d, op)[e] ELSE 0)
        BY <2>7, <4>1
      <4>8. Held(d, op)[e] = d.direct[op][e] /\ d.direct[op][e] \in Nat /\ d.used[e] \in Nat
        BY <1>1, <2>4, <4>1, RowTypes
      <4> QED
        BY <4>2, <4>4, <4>5, <4>6, <4>7, <4>8
    <3> QED
      BY <3>1 DEF UsedIsCommitted
  <2>12. SettledStay(d, d2)
    BY <1>3, <2>3, <2>5 DEF SettledStay, SameLent
  <2>13. Sound(d2, past)
    BY <2>3, <2>6, <2>8, <2>10, <2>11 DEF Sound
  <2> QED
    BY <2>3, <2>6, <2>7, <2>12, <2>13
<1> QED
  BY <1>2, <1>3

\* A commit or a release ends what an operation holds of the grants.
EndsLent(d, d2, op, outcome, use) ==
  /\ d2 \in Tables /\ SameGrants(d, d2) /\ SameDirect(d, d2) /\ d2.external = d.external
  /\ \A e \in Entitlements :
       LET due == IF use THEN DueOf(d, op, e) ELSE 0
       IN d2.reserved[e] = d.reserved[e] - due /\ d2.used[e] = d.used[e] + due
  /\ \A a \in Allocations :
       LET part == PartOf(d, op, a)
       IN /\ d2.lentReserved[a] = d.lentReserved[a] - part
          /\ d2.lentUsed[a] = d.lentUsed[a] + (IF use THEN part ELSE 0)
  /\ \A o \in Ops : \A p \in Grants \X Entitlements :
       d2.externalStatus[o][p] =
         IF o = op /\ d.externalStatus[o][p] = "reserved" THEN outcome ELSE d.externalStatus[o][p]

LEMMA PartType ==
  ASSUME NEW d \in Tables, NEW op \in Ops, NEW a \in Allocations
  PROVE  PartOf(d, op, a) \in Nat /\ PartOf(d, op, a) <= d.lentReserved[a]
<1>1. LentHeld(d, op)[<<a[1], a[2]>>] \in Nat
  BY LentHeldType DEF Allocations
<1>2. d.lentReserved[a] \in Nat
  BY RowTypes
<1> QED
  BY <1>1, <1>2 DEF PartOf

LEMMA EndLentKeeps ==
  ASSUME NEW past, NEW d, Sound(d, past), NEW op \in Ops, NEW outcome \in {"committed", "released"},
         NEW use \in BOOLEAN, use <=> outcome = "committed", NEW d2, EndsLent(d, d2, op, outcome, use)
  PROVE  Sound(d2, past) /\ SettledStay(d, d2)
<1>1. /\ d \in Tables /\ HeldAndLent(d, past) /\ HeldOfGrants(d) /\ HeldOfActive(d, past)
      /\ Told(d) /\ UsedIsCommitted(d, past) /\ InBounds(d)
  BY DEF Sound
<1>2. /\ d2 \in Tables /\ d2.external = d.external /\ d2.grant = d.grant /\ d2.allocated = d.allocated
      /\ d2.direct = d.direct /\ d2.directStatus = d.directStatus /\ d2.ledger = d.ledger
  BY DEF EndsLent, SameGrants, SameDirect
<1>3. PICK part : part = [a \in Allocations |-> IF use THEN PartOf(d, op, a) ELSE 0]
  OBVIOUS
<1>4. PICK due : due = [e \in Entitlements |-> IF use THEN DueOf(d, op, e) ELSE 0]
  OBVIOUS
<1>5. /\ \A e \in Entitlements : d2.reserved[e] = d.reserved[e] - due[e] /\ d2.used[e] = d.used[e] + due[e]
      /\ \A a \in Allocations : /\ d2.lentReserved[a] = d.lentReserved[a] - PartOf(d, op, a)
                                /\ d2.lentUsed[a] = d.lentUsed[a] + part[a]
  BY <1>3, <1>4 DEF EndsLent
<1>6. \A a \in Allocations : part[a] \in Nat /\ part[a] <= PartOf(d, op, a)
  <2>1. ASSUME NEW a \in Allocations PROVE part[a] \in Nat /\ part[a] <= PartOf(d, op, a)
    BY <1>1, <1>3, PartType
  <2> QED
    BY <2>1
<1>7. \A o \in Ops : \A p \in Grants \X Entitlements :
        d2.externalStatus[o][p] =
          IF o = op /\ d.externalStatus[o][p] = "reserved" THEN outcome ELSE d.externalStatus[o][p]
  BY DEF EndsLent
<1>8. \A g, e : SoleSource(d2, g, e) <=> SoleSource(d, g, e)
  BY <1>2, SameSources
<1>9. Undisturbed(d2, past) \subseteq Undisturbed(d, past)
  <2>1. ASSUME NEW o \in Ops, NEW g \in Grants, NEW e \in Entitlements,
               d.externalStatus[o][<<g, e>>] = "committed"
        PROVE  d2.externalStatus[o][<<g, e>>] = "committed"
    BY <1>7, <2>1
  <2> QED
    BY <1>8, <2>1, UndisturbedBefore
<1>10. ASSUME NEW o \in Ops, NEW p \in Grants \X Entitlements
       PROVE  /\ LentHeld(d, o)[p] =
                   IF d.externalStatus[o][p] = "reserved" THEN d.external[o][p] ELSE 0
              /\ LentHeld(d2, o)[p] = IF o = op THEN 0 ELSE LentHeld(d, o)[p]
  <2>1. /\ LentHeld(d, o)[p] =
             IF d.externalStatus[o][p] = "reserved" THEN d.external[o][p] ELSE 0
        /\ LentHeld(d2, o)[p] =
             IF d2.externalStatus[o][p] = "reserved" THEN d2.external[o][p] ELSE 0
    BY DEF LentHeld
  <2>2. d2.externalStatus[o][p] =
          IF o = op /\ d.externalStatus[o][p] = "reserved" THEN outcome ELSE d.externalStatus[o][p]
    BY <1>7
  <2> QED
    BY <1>2, <2>1, <2>2
<1>11. ASSUME NEW e \in Undisturbed(d2, past), NEW g \in Grants
       PROVE  /\ OfGrants(part, e)[g] = IF use THEN LentHeld(d, op)[<<g, e>>] ELSE 0
              /\ OfGrants(part, e)[g] \in Nat
              /\ g \notin Active(d) => OfGrants(part, e)[g] = 0
  <2>1. e \in Entitlements /\ SoleSource(d, g, e)
    BY <1>8 DEF Undisturbed
  <2>2. <<g, e, "explicit">> \in Allocations /\ <<g, e, "plan">> \in Allocations
    BY <2>1 DEF Allocations, Sources
  <2>3. OfGrants(part, e)[g] =
          IF use THEN PartOf(d, op, <<g, e, "explicit">>) + PartOf(d, op, <<g, e, "plan">>) ELSE 0
    BY <1>3, <2>2 DEF OfGrants
  <2>4. /\ PartOf(d, op, <<g, e, "explicit">>) + PartOf(d, op, <<g, e, "plan">>) = LentHeld(d, op)[<<g, e>>]
        /\ LentHeld(d, op)[<<g, e>>] \in Nat
    BY <2>1, LentIsThere
  <2>5. ASSUME use, LentHeld(d, op)[<<g, e>>] > 0 PROVE g \in Active(d)
    <3>1. PICK p \in Grants \X Entitlements : p = <<g, e>>
      BY <2>1
    <3>2. d.externalStatus[op][p] = "reserved"
      BY <1>10, <2>5, <3>1
    <3>3. d2.externalStatus[op][p] = "committed"
      BY <1>7, <2>5, <3>2
    <3>4. <<op, <<g, e>>>> \notin past
      BY <3>1, <3>3 DEF Undisturbed
    <3> QED
      BY <1>1, <2>1, <2>5, <3>4 DEF HeldOfActive
  <2> QED
    BY <2>3, <2>4, <2>5
<1>12. ASSUME NEW e \in Undisturbed(d2, past)
       PROVE  Total(OfGrants(part, e), Grants) = due[e] /\ due[e] \in Nat
  <2>1. IsFiniteSet(Grants) /\ e \in Entitlements
    BY TablesAssumption DEF Undisturbed
  <2>2. CASE use
    <3>1. PICK held : held = [g \in Grants |-> LentHeld(d, op)[<<g, e>>]]
      OBVIOUS
    <3>2. \A g \in Grants : OfGrants(part, e)[g] = held[g]
      BY <1>11, <2>2, <3>1
    <3>3. Total(OfGrants(part, e), Grants) = Total(held, Grants)
      BY <2>1, <3>2, TotalSame
    <3>4. due[e] = Total(held, Grants)
      BY <1>4, <2>1, <2>2, <3>1 DEF DueOf
    <3>5. Total(OfGrants(part, e), Grants) \in Nat
      BY <1>11, <2>1, TotalNat
    <3> QED
      BY <3>3, <3>4, <3>5
  <2>3. CASE ~use
    <3>1. \A g \in Grants : OfGrants(part, e)[g] = 0
      BY <1>11, <2>3
    <3> QED
      BY <1>4, <2>1, <2>3, <3>1, TotalZero
  <2> QED
    BY <2>2, <2>3
<1>13. HeldAndLent(d2, past)
  <2>1. ASSUME NEW e \in Undisturbed(d2, past)
        PROVE  d2.reserved[e] = Total(HeldFor(d2, e), Ops) + Total(LeftOver(d2, e), Active(d2))
    <3>1. PICK A : A = Active(d) /\ A = Active(d2)
      BY <1>2 DEF Active
    <3>2. /\ A \in SUBSET Grants /\ IsFiniteSet(A) /\ IsFiniteSet(Grants)
          /\ e \in Entitlements /\ e \in Undisturbed(d, past)
      BY <1>9, <3>1, TablesAssumption, FS_Subset DEF Active, Undisturbed
    <3>3. ASSUME NEW g \in Grants
          PROVE  /\ LeftOver(d2, e)[g] \in Int /\ OfGrants(part, e)[g] \in Int
                 /\ LeftOver(d, e)[g] = LeftOver(d2, e)[g] + OfGrants(part, e)[g]
      <4> DEFINE x == <<g, e, "explicit">>
                 y == <<g, e, "plan">>
      <4>1. x \in Allocations /\ y \in Allocations
        BY <3>2 DEF Allocations, Sources
      <4>2. /\ OfGrants(part, e)[g] = part[x] + part[y]
            /\ LeftOver(d, e)[g] = (d.allocated[x] - d.lentUsed[x]) + (d.allocated[y] - d.lentUsed[y])
            /\ LeftOver(d2, e)[g] = (d2.allocated[x] - d2.lentUsed[x]) + (d2.allocated[y] - d2.lentUsed[y])
        BY DEF OfGrants, LeftOver, Unused
      <4> HIDE DEF x, y
      <4>3. /\ d.lentUsed[x] \in Nat /\ d.lentUsed[y] \in Nat
            /\ d.allocated[x] \in Nat /\ d.allocated[y] \in Nat
        BY <1>1, <4>1, RowTypes
      <4>4. /\ d2.lentUsed[x] = d.lentUsed[x] + part[x] /\ d2.lentUsed[y] = d.lentUsed[y] + part[y]
            /\ part[x] \in Nat /\ part[y] \in Nat
        BY <1>5, <1>6, <4>1
      <4> QED
        BY <1>2, <4>2, <4>3, <4>4
    <3>4. Total(LeftOver(d, e), A) = Total(LeftOver(d2, e), A) + Total(OfGrants(part, e), A)
      <4>1. \A g \in A : /\ LeftOver(d2, e)[g] \in Int /\ OfGrants(part, e)[g] \in Int
                         /\ LeftOver(d, e)[g] = LeftOver(d2, e)[g] + OfGrants(part, e)[g]
        BY <3>2, <3>3
      <4> QED
        BY <3>2, <4>1, TotalAdd
    <3>5. Total(OfGrants(part, e), A) = Total(OfGrants(part, e), Grants)
      <4>1. \A g \in Grants : OfGrants(part, e)[g] \in Int
        BY <3>3
      <4>2. \A g \in Grants \ A : OfGrants(part, e)[g] = 0
        BY <1>11, <3>1
      <4> QED
        BY <3>2, <4>1, <4>2, TotalSupport
    <3>6. HeldFor(d2, e) = HeldFor(d, e)
      BY <1>2, SameHeld
    <3>7. d.reserved[e] = Total(HeldFor(d, e), Ops) + Total(LeftOver(d, e), A)
      BY <1>1, <3>1, <3>2 DEF HeldAndLent
    <3>8. Total(LeftOver(d2, e), A) \in Int
      BY <1>2, <3>1, <3>2, LeftType
    <3>9. Total(HeldFor(d, e), Ops) \in Nat
      BY <1>1, <3>2, HeldForType
    <3>10. d2.reserved[e] = d.reserved[e] - due[e]
      BY <1>5, <3>2
    <3>11. Total(OfGrants(part, e), Grants) = due[e] /\ due[e] \in Nat
      BY <1>12
    <3>12. d2.reserved[e] = Total(HeldFor(d2, e), Ops) + Total(LeftOver(d2, e), A)
      BY <3>4, <3>5, <3>6, <3>7, <3>8, <3>9, <3>10, <3>11
    <3> QED
      BY <3>1, <3>12
  <2> QED
    BY <2>1 DEF HeldAndLent
<1>14. HeldOfGrants(d2)
  <2>1. ASSUME NEW g \in Grants, NEW e \in Entitlements, SoleSource(d2, g, e)
        PROVE  OfGrants(d2.lentReserved, e)[g] = Total(LentHeldFor(d2, <<g, e>>), Ops)
    <3> DEFINE x == <<g, e, "explicit">>
               y == <<g, e, "plan">>
               p == <<g, e>>
    <3>1. /\ x \in Allocations /\ y \in Allocations /\ p \in Grants \X Entitlements
          /\ OfGrants(d2.lentReserved, e)[g] = d2.lentReserved[x] + d2.lentReserved[y]
          /\ OfGrants(d.lentReserved, e)[g] = d.lentReserved[x] + d.lentReserved[y]
      BY DEF Allocations, Sources, OfGrants
    <3>2. SoleSource(d, g, e)
      BY <1>8, <2>1
    <3>3. PartOf(d, op, x) + PartOf(d, op, y) = LentHeld(d, op)[p]
      BY <3>2, LentIsThere
    <3>4. \A o \in Ops : LentHeldFor(d, p)[o] \in Nat /\ LentHeldFor(d2, p)[o] \in Nat
      BY <1>1, <1>2, HeldTypes
    <3>5. OfGrants(d.lentReserved, e)[g] = Total(LentHeldFor(d, p), Ops)
      BY <1>1, <3>2 DEF HeldOfGrants
    <3> HIDE DEF x, y, p
    <3>6. OfGrants(d2.lentReserved, e)[g] = OfGrants(d.lentReserved, e)[g] - LentHeld(d, op)[p]
      <4>1. d.lentReserved[x] \in Nat /\ d.lentReserved[y] \in Nat
        BY <1>1, <3>1, RowTypes
      <4>2. PartOf(d, op, x) \in Nat /\ PartOf(d, op, y) \in Nat
        BY <1>1, <3>1, PartType
      <4>3. /\ d2.lentReserved[x] = d.lentReserved[x] - PartOf(d, op, x)
            /\ d2.lentReserved[y] = d.lentReserved[y] - PartOf(d, op, y)
        BY <1>5, <3>1
      <4> QED
        BY <3>1, <3>3, <4>1, <4>2, <4>3
    <3>7. LentHeldFor(d2, p)[op] = 0 /\ LentHeldFor(d, p)[op] = LentHeld(d, op)[p]
      BY <1>10, <3>1 DEF LentHeldFor
    <3>8. \A o \in Ops : o # op => LentHeldFor(d2, p)[o] = LentHeldFor(d, p)[o]
      BY <1>10, <3>1 DEF LentHeldFor
    <3>9. /\ Total(LentHeldFor(d, p), Ops) \in Int
          /\ Total(LentHeldFor(d2, p), Ops) =
               Total(LentHeldFor(d, p), Ops) - LentHeldFor(d, p)[op] + LentHeldFor(d2, p)[op]
      <4>1. \A o \in Ops : /\ LentHeldFor(d, p)[o] \in Int /\ LentHeldFor(d2, p)[o] \in Int
                           /\ o # op => LentHeldFor(d2, p)[o] = LentHeldFor(d, p)[o]
        BY <3>4, <3>8
      <4> QED
        BY <4>1, OneOpChanges
    <3>10. LentHeldFor(d, p)[op] \in Int
      BY <3>4
    <3>11. OfGrants(d2.lentReserved, e)[g] = Total(LentHeldFor(d2, p), Ops)
      BY <3>5, <3>6, <3>7, <3>9, <3>10
    <3> QED
      BY <3>11 DEF p
  <2> QED
    BY <2>1 DEF HeldOfGrants
<1>15. HeldOfActive(d2, past)
  <2>1. ASSUME NEW o \in Ops, NEW g \in Grants, NEW e \in Entitlements,
               SoleSource(d2, g, e), <<o, <<g, e>>>> \notin past, LentHeld(d2, o)[<<g, e>>] > 0
        PROVE  g \in Active(d2)
    <3>1. LentHeld(d, o)[<<g, e>>] > 0
      BY <1>10, <2>1
    <3>2. g \in Active(d)
      BY <1>1, <1>8, <2>1, <3>1 DEF HeldOfActive
    <3> QED
      BY <1>2, <3>2 DEF Active
  <2> QED
    BY <2>1 DEF HeldOfActive
<1>16. Told(d2)
  BY <1>1, <1>2 DEF Told
<1>17. UsedIsCommitted(d2, past)
  <2>1. ASSUME NEW e \in Undisturbed(d2, past)
        PROVE  d2.used[e] = Total(CommittedOn(d2, e), Ops) + Total(OfGrants(d2.lentUsed, e), Grants)
    <3>1. e \in Entitlements /\ e \in Undisturbed(d, past)
      BY <1>9 DEF Undisturbed
    <3>2. CommittedOn(d2, e) = CommittedOn(d, e)
      BY <1>2, SameHeld
    <3>3. ASSUME NEW g \in Grants
          PROVE  /\ OfGrants(d.lentUsed, e)[g] \in Int /\ OfGrants(part, e)[g] \in Int
                 /\ OfGrants(d2.lentUsed, e)[g] = OfGrants(d.lentUsed, e)[g] + OfGrants(part, e)[g]
      <4> DEFINE x == <<g, e, "explicit">>
                 y == <<g, e, "plan">>
      <4>1. x \in Allocations /\ y \in Allocations
        BY <3>1 DEF Allocations, Sources
      <4>2. /\ OfGrants(part, e)[g] = part[x] + part[y]
            /\ OfGrants(d.lentUsed, e)[g] = d.lentUsed[x] + d.lentUsed[y]
            /\ OfGrants(d2.lentUsed, e)[g] = d2.lentUsed[x] + d2.lentUsed[y]
        BY DEF OfGrants
      <4> HIDE DEF x, y
      <4>3. /\ d.lentUsed[x] \in Nat /\ d.lentUsed[y] \in Nat /\ part[x] \in Nat /\ part[y] \in Nat
            /\ d2.lentUsed[x] = d.lentUsed[x] + part[x] /\ d2.lentUsed[y] = d.lentUsed[y] + part[y]
        BY <1>1, <1>5, <1>6, <4>1, RowTypes
      <4> QED
        BY <4>2, <4>3
    <3>4. Total(OfGrants(d2.lentUsed, e), Grants)
            = Total(OfGrants(d.lentUsed, e), Grants) + Total(OfGrants(part, e), Grants)
      <4>1. IsFiniteSet(Grants)
        BY TablesAssumption
      <4> QED
        BY <3>3, <4>1, TotalAdd
    <3>5. d.used[e] = Total(CommittedOn(d, e), Ops) + Total(OfGrants(d.lentUsed, e), Grants)
      BY <1>1, <3>1 DEF UsedIsCommitted
    <3>6. Total(CommittedOn(d, e), Ops) \in Nat /\ Total(OfGrants(d.lentUsed, e), Grants) \in Nat
      BY <1>1, <3>1, CommittedType, LentUsedType
    <3>7. d2.used[e] = d.used[e] + due[e]
      BY <1>5, <3>1
    <3>8. Total(OfGrants(part, e), Grants) = due[e] /\ due[e] \in Nat
      BY <1>12
    <3> QED
      BY <3>2, <3>4, <3>5, <3>6, <3>7, <3>8
  <2> QED
    BY <2>1 DEF UsedIsCommitted
<1>18. InBounds(d2)
  <2>1. ASSUME NEW a \in Allocations PROVE d2.lentUsed[a] + d2.lentReserved[a] <= d2.allocated[a]
    <3>1. PICK q : q = PartOf(d, op, a)
      OBVIOUS
    <3>2. q \in Nat /\ q <= d.lentReserved[a] /\ part[a] \in Nat /\ part[a] <= q
      BY <1>1, <1>6, <3>1, PartType
    <3>3. d2.lentReserved[a] = d.lentReserved[a] - q /\ d2.lentUsed[a] = d.lentUsed[a] + part[a]
      BY <1>5, <3>1
    <3>4. d.lentReserved[a] \in Nat /\ d.lentUsed[a] \in Nat /\ d.allocated[a] \in Nat
      BY <1>1, RowTypes
    <3>5. d.lentUsed[a] + d.lentReserved[a] <= d.allocated[a]
      BY <1>1 DEF InBounds
    <3> QED
      BY <1>2, <3>2, <3>3, <3>4, <3>5
  <2> QED
    BY <1>1, <1>2, <2>1 DEF InBounds
<1>19. SettledStay(d, d2)
  BY <1>2, <1>7 DEF SettledStay
<1> QED
  BY <1>2, <1>13, <1>14, <1>15, <1>16, <1>17, <1>18, <1>19 DEF Sound

LEMMA CommitKeeps ==
  ASSUME NEW past, NEW d, Sound(d, past), NEW op \in Ops, NEW d2 \in CommitQuotas(d, op)
  PROVE  Sound(d2, past) /\ SettledStay(d, d2)
<1>1. PICK d1 : d1 = Withdraw(d, op, "commit", "committed", TRUE) /\ d2 \in CommitExternal(d1, op)
  BY DEF CommitQuotas
<1>2. <<"commit", "committed", TRUE>> \in Endings
  BY DEF Endings
<1>3. Sound(d1, past) /\ SettledStay(d, d1)
  BY <1>1, <1>2, WithdrawKeeps
<1>4. Committed(d1, d2, op)
  BY <1>1, <1>3, CommitExternalEffect DEF Sound
<1>5. EndsLent(d1, d2, op, "committed", TRUE)
  BY <1>4 DEF Committed, EndsLent
<1>6. Sound(d2, past) /\ SettledStay(d1, d2)
  BY <1>3, <1>5, EndLentKeeps
<1> QED
  BY <1>3, <1>6, StayTwice

\* An operation that holds nothing late, and only undisturbed rows.
Honest(d, past, op) ==
  /\ \A g \in Grants, e \in Entitlements :
       LentHeld(d, op)[<<g, e>>] > 0 => <<op, <<g, e>>>> \notin past
  /\ \A e \in Entitlements : Holds(d, op, e) > 0 => e \in Undisturbed(d, past)

\* Its commit finds what is reserved, and counts all of it.
LEMMA CommitSucceeds ==
  ASSUME NEW past, NEW d, Sound(d, past), NEW op \in Ops, Honest(d, past, op)
  PROVE  /\ CommitQuotas(d, op) # {}
         /\ \A d2 \in CommitQuotas(d, op), e \in Entitlements :
              d2.used[e] = d.used[e] + Holds(d, op, e)
<1>1. PICK d1 : d1 = Withdraw(d, op, "commit", "committed", TRUE)
  OBVIOUS
<1>2. <<"commit", "committed", TRUE>> \in Endings
  BY DEF Endings
<1>3. /\ Sound(d1, past) /\ SameLent(d, d1) /\ Undisturbed(d1, past) = Undisturbed(d, past)
      /\ \A e \in Entitlements :
           e \in Undisturbed(d, past) \/ Held(d, op)[e] = 0 =>
             d1.used[e] = d.used[e] + Held(d, op)[e]
  <2>1. PICK use : use = TRUE
    OBVIOUS
  <2>2. <<"commit", "committed", use>> \in Endings /\ d1 = Withdraw(d, op, "commit", "committed", use)
    BY <1>1, <1>2, <2>1
  <2>3. /\ Sound(d1, past) /\ SameLent(d, d1) /\ Undisturbed(d1, past) = Undisturbed(d, past)
        /\ \A e \in Entitlements :
             e \in Undisturbed(d, past) \/ Held(d, op)[e] = 0 =>
               d1.used[e] = d.used[e] + (IF use THEN Held(d, op)[e] ELSE 0)
    BY <2>2, WithdrawKeeps
  <2> QED
    BY <2>1, <2>3
<1>4. d \in Tables /\ d1 \in Tables /\ LentHeld(d1, op) = LentHeld(d, op)
  BY <1>3, SameLentHeld DEF Sound, SameLent
<1>5. ASSUME NEW e \in Entitlements
      PROVE  /\ Holds(d, op, e) = Held(d, op)[e] + DueOf(d1, op, e)
             /\ Held(d, op)[e] \in Nat /\ DueOf(d1, op, e) \in Nat
  <2>1. Holds(d, op, e) = Held(d, op)[e] + DueOf(d1, op, e)
    BY <1>4 DEF Holds, DueOf
  <2>2. Held(d, op)[e] \in Nat
    BY <1>4, RowTypes DEF Held
  <2>3. PICK due : due = [g \in Grants |-> LentHeld(d1, op)[<<g, e>>]]
    OBVIOUS
  <2>4. \A g \in Grants : due[g] \in Nat
    BY <1>4, <2>3, LentHeldType
  <2>5. Total(due, Grants) \in Nat
    BY <2>4, TablesAssumption, TotalNat
  <2> QED
    BY <2>1, <2>2, <2>3, <2>5 DEF DueOf
<1>6. ASSUME NEW e \in Entitlements PROVE ~(d1.reserved[e] < DueOf(d1, op, e))
  <2>1. d1.reserved[e] \in Nat
    BY <1>4, RowTypes
  <2>2. CASE DueOf(d1, op, e) = 0
    BY <2>1, <2>2
  <2>3. CASE DueOf(d1, op, e) # 0
    <3>1. Holds(d, op, e) > 0
      BY <1>5, <2>3
    <3>2. e \in Undisturbed(d1, past)
      BY <1>3, <3>1 DEF Honest
    <3>3. \A g \in Grants : LentHeld(d1, op)[<<g, e>>] > 0 => <<op, <<g, e>>>> \notin past
      BY <1>4 DEF Honest
    <3>4. DueOf(d1, op, e) <= d1.reserved[e]
      BY <1>3, <3>2, <3>3, OwnerHasLent
    <3> QED
      BY <1>5, <2>1, <3>4
  <2> QED
    BY <2>2, <2>3
<1>7. CommitQuotas(d, op) # {}
  <2>1. CommitExternal(d1, op) # {}
    BY <1>6 DEF CommitExternal, DueOf
  <2> QED
    BY <1>1, <2>1 DEF CommitQuotas
<1>8. ASSUME NEW d2 \in CommitQuotas(d, op), NEW e \in Entitlements
      PROVE  d2.used[e] = d.used[e] + Holds(d, op, e)
  <2>1. d2 \in CommitExternal(d1, op)
    BY <1>1 DEF CommitQuotas
  <2>2. Committed(d1, d2, op)
    BY <1>4, <2>1, CommitExternalEffect
  <2>3. d2.used[e] = d1.used[e] + DueOf(d1, op, e)
    BY <2>2 DEF Committed
  <2>4. d1.used[e] = d.used[e] + Held(d, op)[e]
    <3>1. Held(d, op)[e] > 0 => Holds(d, op, e) > 0
      BY <1>5
    <3>2. e \in Undisturbed(d, past) \/ Held(d, op)[e] = 0
      BY <1>5, <3>1 DEF Honest
    <3> QED
      BY <1>3, <3>2
  <2>5. d.used[e] \in Nat
    BY <1>4, RowTypes
  <2> QED
    BY <1>5, <2>3, <2>4, <2>5
<1> QED
  BY <1>7, <1>8

\* What a release does to the grants' rows, after the operation's own.
Released(d, d2, op) ==
  d2 = [d EXCEPT
         !.lentReserved = [a \in Allocations |->
            IF d.lentReserved[a] >= LentHeld(d, op)[<<a[1], a[2]>>]
            THEN d.lentReserved[a] - LentHeld(d, op)[<<a[1], a[2]>>] ELSE d.lentReserved[a]],
         !.externalStatus[op] = Settle(d.externalStatus[op], "released")]

LEMMA ReleasedEffect ==
  ASSUME NEW d \in Tables, NEW op \in Ops, NEW d2, Released(d, d2, op)
  PROVE  EndsLent(d, d2, op, "released", FALSE)
<1>1. /\ d2.lentReserved =
           [a \in Allocations |->
              IF d.lentReserved[a] >= LentHeld(d, op)[<<a[1], a[2]>>]
              THEN d.lentReserved[a] - LentHeld(d, op)[<<a[1], a[2]>>] ELSE d.lentReserved[a]]
      /\ d2.externalStatus = [d.externalStatus EXCEPT ![op] = Settle(d.externalStatus[op], "released")]
      /\ SameGrants(d, d2) /\ SameDirect(d, d2) /\ d2.external = d.external /\ d2.deny = d.deny
      /\ d2.reserved = d.reserved /\ d2.used = d.used /\ d2.lentUsed = d.lentUsed
  BY DEF Released, Tables, SameGrants, SameDirect
<1>2. LentHeld(d, op) \in [Grants \X Entitlements -> Nat]
  BY LentHeldType
<1>3. ASSUME NEW a \in Allocations
      PROVE  d2.lentReserved[a] = d.lentReserved[a] - PartOf(d, op, a) /\ d2.lentReserved[a] \in Nat
  <2>1. PICK h : h = LentHeld(d, op)[<<a[1], a[2]>>]
    OBVIOUS
  <2>2. h \in Nat /\ d.lentReserved[a] \in Nat
    BY <1>2, <2>1, RowTypes DEF Allocations
  <2>3. d2.lentReserved[a] = IF d.lentReserved[a] >= h THEN d.lentReserved[a] - h ELSE d.lentReserved[a]
    BY <1>1, <2>1
  <2>4. PartOf(d, op, a) = IF h > 0 /\ d.lentReserved[a] >= h THEN h ELSE 0
    BY <2>1 DEF PartOf
  <2> QED
    BY <2>2, <2>3, <2>4
<1>4. d2 \in Tables
  <2>1. d2.lentReserved \in [Allocations -> Nat]
    BY <1>1, <1>3
  <2>2. d2.externalStatus \in [Ops -> [Grants \X Entitlements -> Status]]
    <3>1. Settle(d.externalStatus[op], "released") \in [Grants \X Entitlements -> Status]
      BY DEF Settle, Tables, Status
    <3> QED
      BY <1>1, <3>1 DEF Tables
  <2> QED
    BY <1>1, <2>1, <2>2 DEF Released, Tables, SameGrants, SameDirect
<1>5. ASSUME NEW o \in Ops, NEW p \in Grants \X Entitlements
      PROVE  d2.externalStatus[o][p] =
               IF o = op /\ d.externalStatus[o][p] = "reserved" THEN "released" ELSE d.externalStatus[o][p]
  BY <1>1 DEF Settle, Tables
<1>6. ASSUME NEW e \in Entitlements PROVE d2.reserved[e] = d.reserved[e] - 0 /\ d2.used[e] = d.used[e] + 0
  BY <1>1, RowTypes
<1>7. ASSUME NEW a \in Allocations PROVE d2.lentUsed[a] = d.lentUsed[a] + 0
  BY <1>1, RowTypes
<1> QED
  BY <1>1, <1>3, <1>4, <1>5, <1>6, <1>7 DEF EndsLent

LEMMA ReleaseKeeps ==
  ASSUME NEW past, NEW d, Sound(d, past), NEW op \in Ops, NEW d2, d2 = ReleaseQuotas(d, op)
  PROVE  Sound(d2, past) /\ SettledStay(d, d2)
<1>1. PICK d1 : d1 = Withdraw(d, op, "release", "released", FALSE)
  OBVIOUS
<1>2. <<"release", "released", FALSE>> \in Endings
  BY DEF Endings
<1>3. Sound(d1, past) /\ SettledStay(d, d1) /\ SameLent(d, d1)
  BY <1>1, <1>2, WithdrawKeeps
<1>4. EndsLent(d1, d2, op, "released", FALSE)
  <2>1. d1 \in Tables
    BY <1>3 DEF Sound
  <2>2. LentHeld(d1, op) = LentHeld(d, op)
    BY <1>3, SameLentHeld DEF SameLent
  <2>3. Released(d1, d2, op)
    BY <1>1, <1>3, <2>2 DEF ReleaseQuotas, Released, SameLent
  <2> QED
    BY <2>1, <2>3, ReleasedEffect
<1>5. Sound(d2, past) /\ SettledStay(d1, d2)
  BY <1>3, <1>4, EndLentKeeps
<1> QED
  BY <1>3, <1>5, StayTwice

\* The sweeper expires the operations it finds due one after another.
Sweeps(d, S, h) ==
  h = [s \in SUBSET S |-> IF s = {} THEN d ELSE ExpireOne(h[s \ {Chosen(s)}], Chosen(s))]

LEMMA SweepsAgree ==
  ASSUME NEW d, NEW S, IsFiniteSet(S), NEW U, S \subseteq U,
         NEW g, Sweeps(d, S, g), NEW h, Sweeps(d, U, h)
  PROVE  g[S] = h[S]
<1> DEFINE Good == {s \in SUBSET S : g[s] = h[s]}
<1>1. {} \in Good
  BY DEF Sweeps
<1>2. ASSUME NEW s \in SUBSET S, s # {}, \A x \in s : s \ {x} \in Good PROVE s \in Good
  <2>1. g[s \ {Chosen(s)}] = h[s \ {Chosen(s)}]
    BY <1>2, ChosenIn
  <2>2. s \in SUBSET U
    OBVIOUS
  <2> QED
    BY <1>2, <2>1, <2>2 DEF Sweeps
<1>3. SUBSET S \subseteq Good
  <2> HIDE DEF Good
  <2> QED
    BY <1>1, <1>2, SubsetInduction
<1> QED
  BY <1>3

LEMMA SweepExists ==
  ASSUME NEW d, NEW S, IsFiniteSet(S)
  PROVE  \E h : Sweeps(d, S, h)
<1> DEFINE H(U) == CHOOSE h : Sweeps(d, U, h)
<1> DEFINE Good == {T \in SUBSET S : \A U \in SUBSET T : \E h : Sweeps(d, U, h)}
<1>1. {} \in Good
  <2>1. Sweeps(d, {}, [s \in {{}} |-> d])
    BY DEF Sweeps
  <2> QED
    BY <2>1
<1>2. ASSUME NEW T \in SUBSET S, T # {}, \A x \in T : T \ {x} \in Good PROVE T \in Good
  <2> DEFINE v(s) == IF s = {} THEN d ELSE ExpireOne(H(s \ {Chosen(s)})[s \ {Chosen(s)}], Chosen(s))
  <2> DEFINE h == [s \in SUBSET T |-> v(s)]
  <2>1. ASSUME NEW U \in SUBSET T, U # T PROVE \E k : Sweeps(d, U, k)
    <3>1. PICK x \in T : U \subseteq T \ {x}
      BY <2>1
    <3> QED
      BY <3>1, <1>2
  <2>2. ASSUME NEW U \in SUBSET T, U # T PROVE H(U)[U] = v(U)
    <3>1. Sweeps(d, U, H(U))
      BY <2>1, <2>2
    <3>2. CASE U = {}
      BY <3>1, <3>2 DEF Sweeps
    <3>3. CASE U # {}
      <4> DEFINE V == U \ {Chosen(U)}
      <4>1. V \in SUBSET T /\ V # T /\ V \subseteq U
        BY <2>2
      <4>2. Sweeps(d, V, H(V))
        BY <2>1, <4>1
      <4>3. IsFiniteSet(V)
        BY FS_Subset, <4>1
      <4>4. H(U)[V] = H(V)[V]
        <5> HIDE DEF V, H
        <5> QED
          BY <3>1, <4>1, <4>2, <4>3, SweepsAgree
      <4>5. H(U)[U] = ExpireOne(H(U)[V], Chosen(U))
        <5> HIDE DEF H
        <5> QED
          BY <3>1, <3>3 DEF Sweeps
      <4> QED
        BY <3>3, <4>4, <4>5
    <3> QED
      BY <3>2, <3>3
  <2>3. Sweeps(d, T, h)
    <3> SUFFICES ASSUME NEW s \in SUBSET T
                 PROVE  v(s) = IF s = {} THEN d ELSE ExpireOne(h[s \ {Chosen(s)}], Chosen(s))
      <4> HIDE DEF v
      <4> QED
        BY DEF Sweeps
    <3>1. CASE s = {}
      BY <3>1
    <3>2. CASE s # {}
      <4> DEFINE V == s \ {Chosen(s)}
      <4>1. V \in SUBSET T /\ V # T
        BY <3>2, ChosenIn
      <4>2. h[V] = v(V)
        BY <4>1
      <4>3. H(V)[V] = v(V)
        BY <4>1, <2>2
      <4>4. v(s) = ExpireOne(H(V)[V], Chosen(s))
        BY <3>2
      <4> QED
        BY <3>2, <4>2, <4>3, <4>4
    <3> QED
      BY <3>1, <3>2
  <2> QED
    BY <2>1, <2>3
<1>3. SUBSET S \subseteq Good
  <2> HIDE DEF Good
  <2> QED
    BY <1>1, <1>2, SubsetInduction
<1> QED
  BY <1>3

LEMMA SweepKeeps ==
  ASSUME NEW past, NEW d, Sound(d, past), NEW S \in SUBSET Ops, NEW h, Sweeps(d, S, h)
  PROVE  Sound(h[S], past) /\ SettledStay(d, h[S])
<1> DEFINE Good == {s \in SUBSET S : Sound(h[s], past) /\ SettledStay(d, h[s])}
<1>1. IsFiniteSet(S)
  BY TablesAssumption, FS_Subset
<1>2. {} \in Good
  <2>1. h[{}] = d
    BY DEF Sweeps
  <2>2. SettledStay(d, d)
    BY DEF SettledStay
  <2> QED
    BY <2>1, <2>2
<1>3. ASSUME NEW s \in SUBSET S, s # {}, \A x \in s : s \ {x} \in Good PROVE s \in Good
  <2>1. PICK op, r : op \in s /\ op = Chosen(s) /\ r = h[s \ {op}] /\ Sound(r, past) /\ SettledStay(d, r)
    BY <1>3, ChosenIn
  <2>2. h[s] = ExpireOne(r, op)
    BY <1>3, <2>1 DEF Sweeps
  <2>3. op \in Ops /\ <<"expire", "expired", FALSE>> \in Endings
    BY <2>1 DEF Endings
  <2>4. h[s] = Withdraw(r, op, "expire", "expired", FALSE) /\ Sound(r, past)
    BY <2>1, <2>2 DEF ExpireOne
  <2>5. Sound(h[s], past) /\ SettledStay(r, h[s])
    <3>1. PICK d2 : d2 = h[s]
      OBVIOUS
    <3>2. d2 = Withdraw(r, op, "expire", "expired", FALSE)
      BY <2>4, <3>1
    <3>3. Sound(d2, past) /\ SettledStay(r, d2)
      BY <2>3, <2>4, <3>2, WithdrawKeeps
    <3> QED
      BY <3>1, <3>3
  <2>6. SettledStay(d, h[s])
    BY <2>1, <2>5, StayTwice
  <2> QED
    BY <2>5, <2>6
<1>4. SUBSET S \subseteq Good
  <2> HIDE DEF Good
  <2> QED
    BY <1>1, <1>2, <1>3, SubsetInduction
<1> QED
  BY <1>4

LEMMA SweepEffect ==
  ASSUME NEW past, NEW d, Sound(d, past), NEW S \in SUBSET Ops,
         NEW d2, d2 = FoldSet(LAMBDA op, r : ExpireOne(r, op), d, S)
  PROVE  Sound(d2, past) /\ SettledStay(d, d2)
<1>1. IsFiniteSet(S)
  BY TablesAssumption, FS_Subset
<1>2. d2 = (CHOOSE h : Sweeps(d, S, h))[S]
  BY DEF FoldSet, MapThenFoldSet, Sweeps, Chosen
<1>3. PICK h : Sweeps(d, S, h) /\ d2 = h[S]
  BY <1>1, <1>2, SweepExists
<1> QED
  BY <1>3, SweepKeeps

\* Nothing else touches what is settled.
LEMMA OthersStay ==
  ASSUME NEW past, NEW d, Sound(d, past), NEW d2
  PROVE  /\ \A g \in Grants : Created(d, d2, g) \/ Revoked(d, d2, g) => SettledStay(d, d2)
         /\ \A op \in Ops, grants \in SUBSET Grants, cost \in Costs :
              d2 \in ReserveQuotas(d, op, grants, cost) => SettledStay(d, d2)
<1>1. d \in Tables
  BY DEF Sound
<1>2. ASSUME NEW g \in Grants, Created(d, d2, g) \/ Revoked(d, d2, g) PROVE SettledStay(d, d2)
  BY <1>2 DEF Created, Revoked, SameUse, SettledStay
<1>3. ASSUME NEW op \in Ops, NEW grants \in SUBSET Grants, NEW cost \in Costs,
             d2 \in ReserveQuotas(d, op, grants, cost)
      PROVE  SettledStay(d, d2)
  <2>1. cost \in Nat
    BY TablesAssumption DEF Costs
  <2>2. CASE grants = {}
    <3>1. d2 \in ReserveOwn(d, op, cost)
      BY <1>3, <2>2 DEF ReserveQuotas
    <3>2. d.directStatus[op] = "none"
      BY <3>1, ReserveOwnKeeps
    <3>3. \E took : Reserved(d, d2, op, took)
      BY <1>1, <2>1, <3>1, ReserveOwnEffect
    <3>4. \A o \in Ops : o # op => d2.directStatus[o] = d.directStatus[o] /\ d2.direct[o] = d.direct[o]
      BY <1>1, <3>3, RowTypes DEF Reserved
    <3> QED
      BY <3>2, <3>3, <3>4 DEF Reserved, SameLent, SettledStay
  <2>3. CASE grants # {}
    <3>1. d2 \in ReserveExternal(d, op, grants, cost)
      BY <1>3, <2>3 DEF ReserveQuotas
    <3>2. \E took : ReservedLent(d, d2, op, took)
      BY <1>1, <2>1, <3>1, ReserveExternalEffect
    <3>3. PICK took : ReservedLent(d, d2, op, took)
      BY <3>2
    <3>4. ASSUME NEW o \in Ops, NEW p \in Grants \X Entitlements,
                 d.externalStatus[o][p] \in {"committed", "released"}
          PROVE  /\ d2.externalStatus[o][p] = d.externalStatus[o][p]
                 /\ d2.external[o][p] = d.external[o][p]
      BY <3>3, <3>4 DEF ReservedLent
    <3> QED
      BY <3>3, <3>4 DEF ReservedLent, SameDirect, SettledStay
  <2> QED
    BY <2>2, <2>3
<1> QED
  BY <1>2, <1>3

-----------------------------------------------------------------------------
(* The steps. *)

StoreInv == Sound(store, late) /\ late \subseteq Ops \X Shares

LEMMA StoreInitSound == StoreInit => StoreInv
<1> SUFFICES ASSUME StoreInit PROVE StoreInv
  OBVIOUS
<1>1. store = EmptyTables /\ late = {}
  BY DEF StoreInit
<1>2. EmptyTables \in Tables
  BY EmptyAtRest DEF AtRest
<1>3. ASSUME NEW e \in Entitlements, NEW g \in Grants
      PROVE  /\ \A op \in Ops : LentHeldFor(EmptyTables, <<g, e>>)[op] = 0
             /\ OfGrants(EmptyTables.lentReserved, e)[g] = 0
             /\ OfGrants(EmptyTables.lentUsed, e)[g] = 0
  BY DEF LentHeldFor, LentHeld, EmptyTables, OfGrants, Allocations, Sources
<1>4. HeldAndLent(EmptyTables, {})
  <2>1. ASSUME NEW e \in Undisturbed(EmptyTables, {})
        PROVE  EmptyTables.reserved[e] =
                 Total(HeldFor(EmptyTables, e), Ops) + Total(LeftOver(EmptyTables, e), Active(EmptyTables))
    <3>1. e \in Entitlements
      BY DEF Undisturbed
    <3>2. \A op \in Ops : HeldFor(EmptyTables, e)[op] = 0
      BY <3>1 DEF HeldFor, Held, EmptyTables
    <3>3. Active(EmptyTables) = {}
      BY DEF Active, EmptyTables
    <3>4. EmptyTables.reserved[e] = 0
      BY <3>1 DEF EmptyTables
    <3>5. Total(HeldFor(EmptyTables, e), Ops) = 0
      BY <3>2, TablesAssumption, TotalZero
    <3>6. Total(LeftOver(EmptyTables, e), Active(EmptyTables)) = 0
      BY <3>3, TotalEmpty
    <3> QED
      BY <3>4, <3>5, <3>6
  <2> QED
    BY <2>1 DEF HeldAndLent
<1>5. HeldOfGrants(EmptyTables)
  <2>1. ASSUME NEW g \in Grants, NEW e \in Entitlements
        PROVE  OfGrants(EmptyTables.lentReserved, e)[g] = Total(LentHeldFor(EmptyTables, <<g, e>>), Ops)
    BY <1>3, TablesAssumption, TotalZero
  <2> QED
    BY <2>1 DEF HeldOfGrants
<1>6. HeldOfActive(EmptyTables, {})
  <2>1. ASSUME NEW op \in Ops, NEW g \in Grants, NEW e \in Entitlements
        PROVE  ~(LentHeld(EmptyTables, op)[<<g, e>>] > 0)
    BY <1>3 DEF LentHeldFor
  <2> QED
    BY <2>1 DEF HeldOfActive
<1>7. Told(EmptyTables)
  BY DEF Told, EmptyTables, Entries, Kinds
<1>8. UsedIsCommitted(EmptyTables, {})
  <2>1. ASSUME NEW e \in Undisturbed(EmptyTables, {})
        PROVE  EmptyTables.used[e] =
                 Total(CommittedOn(EmptyTables, e), Ops) + Total(OfGrants(EmptyTables.lentUsed, e), Grants)
    <3>1. e \in Entitlements
      BY DEF Undisturbed
    <3>2. \A op \in Ops : CommittedOn(EmptyTables, e)[op] = 0
      BY <3>1 DEF CommittedOn, OwnCommitted, EmptyTables
    <3>3. EmptyTables.used[e] = 0
      BY <3>1 DEF EmptyTables
    <3>4. Total(CommittedOn(EmptyTables, e), Ops) = 0
      BY <3>2, TablesAssumption, TotalZero
    <3>5. \A g \in Grants : OfGrants(EmptyTables.lentUsed, e)[g] = 0
      BY <1>3, <3>1
    <3>6. Total(OfGrants(EmptyTables.lentUsed, e), Grants) = 0
      BY <3>5, TablesAssumption, TotalZero
    <3> QED
      BY <3>3, <3>4, <3>6
  <2> QED
    BY <2>1 DEF UsedIsCommitted
<1>9. InBounds(EmptyTables)
  BY DEF InBounds, EmptyTables, Allocations, Sources
<1> QED
  BY <1>1, <1>2, <1>4, <1>5, <1>6, <1>7, <1>8, <1>9 DEF StoreInv, Sound

LEMMA StoreStep ==
  ASSUME StoreInv, [StoreNext]_storeVars
  PROVE  StoreInv' /\ SettledStay(store, store')
<1>1. Sound(store, late) /\ late \subseteq Ops \X Shares
  BY DEF StoreInv
<1>2. store \in Tables
  BY <1>1 DEF Sound
<1>3. ASSUME NEW g \in Grants, Lend(g) PROVE StoreInv' /\ SettledStay(store, store')
  <2>1. PICK bundle \in Offers : store' \in CreateExternalGrant(store, g, bundle)
    BY <1>3 DEF Lend
  <2>2. Sound(store', late)
    BY <1>1, <2>1, LendKeeps
  <2>3. Created(store, store', g)
    BY <1>2, <2>1, OffersAssumption, CreateEffect
  <2> QED
    BY <1>1, <1>3, <2>2, <2>3, OthersStay DEF Lend, StoreInv
<1>4. ASSUME NEW g \in Grants, TakeBack(g) PROVE StoreInv' /\ SettledStay(store, store')
  <2>1. store' \in RevokeExternalGrant(store, g)
    BY <1>4 DEF TakeBack
  <2>2. Sound(store', late) /\ Revoked(store, store', g)
    BY <1>1, <1>2, <2>1, TakeBackKeeps, RevokeEffect
  <2> QED
    BY <1>1, <1>4, <2>2, OthersStay DEF TakeBack, StoreInv
<1>5. ASSUME NEW op \in Ops, NEW grants \in SUBSET Grants, NEW cost \in Costs, Reserve(op, grants, cost)
      PROVE  StoreInv' /\ SettledStay(store, store')
  <2>1. store' \in ReserveQuotas(store, op, grants, cost) /\ late' = late \union LateOf(store, store', op)
    BY <1>5 DEF Reserve, LateOf
  <2>2. Sound(store', late')
    <3>1. CASE grants = {}
      <4>1. store' \in ReserveOwn(store, op, cost)
        BY <2>1, <3>1 DEF ReserveQuotas
      <4>2. Sound(store', late) /\ store'.externalStatus = store.externalStatus
        BY <1>1, <4>1, ReserveOwnKeeps
      <4>3. LateOf(store, store', op) = {}
        BY <4>2 DEF LateOf
      <4> QED
        BY <2>1, <4>2, <4>3
    <3>2. CASE grants # {}
      <4>1. cost \in Nat
        BY TablesAssumption DEF Costs
      <4>2. store' \in ReserveExternal(store, op, grants, cost)
        BY <2>1, <3>2 DEF ReserveQuotas
      <4> QED
        BY <1>1, <2>1, <4>1, <4>2, ReserveExternalKeeps
    <3> QED
      BY <3>1, <3>2
  <2>3. LateOf(store, store', op) \subseteq Ops \X Shares
    BY DEF LateOf
  <2>4. SettledStay(store, store')
    BY <1>1, <2>1, OthersStay
  <2> QED
    BY <1>1, <2>1, <2>2, <2>3, <2>4 DEF StoreInv
<1>6. ASSUME NEW op \in Ops, Commit(op) PROVE StoreInv' /\ SettledStay(store, store')
  BY <1>1, <1>6, CommitKeeps DEF Commit, StoreInv
<1>7. ASSUME NEW op \in Ops, Release(op) PROVE StoreInv' /\ SettledStay(store, store')
  BY <1>1, <1>7, ReleaseKeeps DEF Release, StoreInv
<1>8. CASE ExpireReservations
  <2>1. PICK due \in SUBSET {op \in Ops : store.directStatus[op] = "reserved"} :
          store' = FoldSet(LAMBDA op, d : ExpireOne(d, op), store, due)
    BY <1>8 DEF ExpireReservations
  <2>2. due \in SUBSET Ops
    OBVIOUS
  <2>3. Sound(store', late) /\ SettledStay(store, store')
    BY <1>1, <2>1, <2>2, SweepEffect
  <2> QED
    BY <1>1, <1>8, <2>3 DEF ExpireReservations, StoreInv
<1>9. CASE UNCHANGED storeVars
  BY <1>1, <1>9 DEF storeVars, StoreInv, SettledStay
<1> QED
  BY <1>3, <1>4, <1>5, <1>6, <1>7, <1>8, <1>9 DEF StoreNext

LEMMA StoreInvariant == StoreSpec => []StoreInv
<1>1. StoreInv /\ [StoreNext]_storeVars => StoreInv'
  BY StoreStep
<1> QED
  BY <1>1, StoreInitSound, PTL DEF StoreSpec

-----------------------------------------------------------------------------
\* Every table keeps its type, whatever is reserved, settled and lent.
THEOREM StoreTypesHold == StoreSpec => []StoreTypeOK
<1>1. StoreInv => StoreTypeOK
  BY DEF StoreInv, Sound, StoreTypeOK
<1> QED
  BY <1>1, StoreInvariant, PTL

\* Every reserved counter is explained, row by row, by who holds it: the grants'
\* where they have the row once, late reservations included, the owner's where in
\* addition no late reservation was committed (Withdraw, CommitExternal).
THEOREM ReservationsAreBacked == StoreSpec => []ReservationsBacked
<1>1. StoreInv => ReservationsBacked
  <2> SUFFICES ASSUME StoreInv PROVE ReservationsBacked
    OBVIOUS
  <2>1. HeldAndLent(store, late) /\ HeldOfGrants(store)
    BY DEF StoreInv, Sound
  <2>2. OwnReservationsBacked
    BY <2>1 DEF HeldAndLent, HeldFor, LeftOver, Active, OwnReservationsBacked
  <2>3. LentReservationsBacked
    BY <2>1 DEF HeldOfGrants, OfGrants, LentHeldFor, LentReservationsBacked
  <2> QED
    BY <2>2, <2>3 DEF ReservationsBacked
<1> QED
  BY <1>1, StoreInvariant, PTL

\* The commit of a reservation that is held finds it and counts all of it, unless
\* a part was reserved late or a row was disturbed (CommitQuotas).
THEOREM ReservationsAreHonoured == StoreSpec => []ReservationsHonoured
<1>1. StoreInv => ReservationsHonoured
  <2> SUFFICES ASSUME StoreInv, NEW op \in Ops, ~HoldsLate(op),
                      {e \in Entitlements : Holds(store, op, e) > 0} \subseteq Undisturbed(store, late)
               PROVE  /\ CommitQuotas(store, op) # {}
                      /\ \A d \in CommitQuotas(store, op), e \in Entitlements :
                           d.used[e] = store.used[e] + Holds(store, op, e)
    BY DEF ReservationsHonoured
  <2>1. Honest(store, late, op)
    <3>1. ASSUME NEW g \in Grants, NEW e \in Entitlements, LentHeld(store, op)[<<g, e>>] > 0
          PROVE  <<op, <<g, e>>>> \notin late
      <4>1. <<g, e>> \in Shares
        BY DEF Shares
      <4> QED
        BY <3>1, <4>1 DEF HoldsLate
    <3>2. ASSUME NEW e \in Entitlements, Holds(store, op, e) > 0 PROVE e \in Undisturbed(store, late)
      BY <3>2
    <3> QED
      BY <3>1, <3>2 DEF Honest
  <2> QED
    BY <2>1, CommitSucceeds DEF StoreInv
<1> QED
  BY <1>1, StoreInvariant, PTL

\* The ledger tells the counters, and no reservation is settled twice.
THEOREM LedgerIsBalanced == StoreSpec => []LedgerBalanced
<1>1. StoreInv => LedgerBalanced
  <2> SUFFICES ASSUME StoreInv PROVE LedgerBalanced
    OBVIOUS
  <2>1. store \in Tables /\ Told(store) /\ UsedIsCommitted(store, late)
    BY DEF StoreInv, Sound
  <2>2. ASSUME NEW op \in Ops
        PROVE  /\ store.ledger[op]["reserve"] = Settled(op) + Total(Held(store, op), Entitlements)
               /\ store.ledger[op]["commit"] = Total(OwnCommitted(store, op), Entitlements)
               /\ \A j, k \in Settlements : store.ledger[op][j] > 0 /\ store.ledger[op][k] > 0 => j = k
    <3> DEFINE l == store.ledger[op]
    <3>1. PICK amount, status : /\ amount = Total(store.direct[op], Entitlements)
                                /\ status = store.directStatus[op]
      OBVIOUS
    <3>2. /\ status \in Status
          /\ \A k \in Kinds : l[k] = IF k \in Entries(status) THEN amount ELSE 0
      BY <2>1, <3>1, RowTypes DEF Told
    <3>3. amount \in Nat
      <4>1. \A e \in Entitlements : store.direct[op][e] \in Nat
        BY <2>1, RowTypes
      <4> QED
        BY <3>1, <4>1, TablesAssumption, TotalNat
    <3>4. Settled(op) = l["commit"] + l["release"] + l["expire"]
      <4>1. IsFiniteSet(Settlements) /\ "commit" \in Settlements /\ Settlements \ {"commit"} = {"release", "expire"}
        <5>1. Settlements = {"release", "expire"} \union {"commit"}
          BY DEF Settlements
        <5>2. IsFiniteSet({"release", "expire"})
          BY FinitePair
        <5>3. IsFiniteSet({"release", "expire"} \union {"commit"})
          BY <5>2, FS_AddElement
        <5>4. "commit" \in Settlements /\ Settlements \ {"commit"} = {"release", "expire"}
          BY DEF Settlements
        <5> QED
          BY <5>1, <5>3, <5>4, Zenon
      <4>2. \A k \in Settlements : l[k] \in Int
        BY <2>1, RowTypes DEF Settlements, Kinds
      <4>3. Total(l, Settlements) = l["commit"] + Total(l, Settlements \ {"commit"})
        BY <4>1, <4>2, TotalStep
      <4>4. Total(l, {"release", "expire"}) = l["release"] + l["expire"]
        BY <4>2, TotalPair DEF Settlements
      <4>5. Total(l, Settlements \ {"commit"}) = l["release"] + l["expire"]
        BY <4>1, <4>4
      <4> QED
        BY <4>2, <4>3, <4>5 DEF Settled, Settlements
    <3>5. Total(Held(store, op), Entitlements) = IF status = "reserved" THEN amount ELSE 0
      <4>1. CASE status = "reserved"
        BY <3>1, <4>1 DEF Held
      <4>2. CASE status # "reserved"
        <5>1. \A e \in Entitlements : Held(store, op)[e] = 0
          BY <3>1, <4>2 DEF Held
        <5>2. IsFiniteSet(Entitlements)
          BY TablesAssumption
        <5>3. Total(Held(store, op), Entitlements) = 0
          BY <5>1, <5>2, TotalZero
        <5> QED
          BY <4>2, <5>3
      <4> QED
        BY <4>1, <4>2
    <3>6. Total(OwnCommitted(store, op), Entitlements) = IF status = "committed" THEN amount ELSE 0
      <4>1. CASE status = "committed"
        BY <3>1, <4>1 DEF OwnCommitted
      <4>2. CASE status # "committed"
        <5>1. \A e \in Entitlements : OwnCommitted(store, op)[e] = 0
          BY <3>1, <4>2 DEF OwnCommitted
        <5>2. Total(OwnCommitted(store, op), Entitlements) = 0
          BY <5>1, TablesAssumption, TotalZero
        <5> QED
          BY <4>2, <5>2
      <4> QED
        BY <4>1, <4>2
    <3> HIDE DEF l
    <3>7. /\ l["reserve"] = l["commit"] + l["release"] + l["expire"] + (IF status = "reserved" THEN amount ELSE 0)
          /\ l["commit"] = IF status = "committed" THEN amount ELSE 0
          /\ \A j, k \in Settlements : l[j] > 0 /\ l[k] > 0 => j = k
      BY <3>2, <3>3 DEF Status, Entries, Kinds, Settlements
    <3> QED
      BY <3>4, <3>5, <3>6, <3>7 DEF l
  <2>3. ASSUME NEW e \in Undisturbed(store, late)
        PROVE  store.used[e] =
                 Total([op \in Ops |-> OwnCommitted(store, op)[e]], Ops)
                 + Total([g \in Grants |-> store.lentUsed[<<g, e, "explicit">>]
                                            + store.lentUsed[<<g, e, "plan">>]], Grants)
    BY <2>1 DEF UsedIsCommitted, CommittedOn, OfGrants
  <2> QED
    BY <2>2, <2>3 DEF LedgerBalanced
<1> QED
  BY <1>1, StoreInvariant, PTL

\* A settled reservation keeps its outcome and its amount, in every step.
THEOREM SettledStaysSettled == StoreSpec => SettledForEver
<1>1. StoreInv /\ [StoreNext]_storeVars => SettledStay(store, store')
  BY StoreStep
<1>2. SettledStay(store, store') <=>
        /\ \A op \in Ops :
             store.directStatus[op] \in {"committed", "released", "expired"} =>
               store'.directStatus[op] = store.directStatus[op] /\ store'.direct[op] = store.direct[op]
        /\ \A op \in Ops, p \in Grants \X Entitlements :
             store.externalStatus[op][p] \in {"committed", "released"} =>
               /\ store'.externalStatus[op][p] = store.externalStatus[op][p]
               /\ store'.external[op][p] = store.external[op][p]
  BY DEF SettledStay
<1> QED
  BY <1>1, <1>2, StoreInvariant, PTL DEF SettledForEver, StoreSpec

================================================================================
