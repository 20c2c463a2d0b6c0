--------------------------- MODULE QuotaTablesProofs ---------------------------
(***************************************************************************)
(* What the transactions of QuotaTables do, for any tables and any costs.  *)
(***************************************************************************)
EXTENDS QuotaTables, TotalsProofs

-----------------------------------------------------------------------------
(* Allocations. *)

\* One operation's part of a sum changes.
LEMMA OneOpChanges ==
  ASSUME NEW op \in Ops, NEW f, NEW g,
         \A o \in Ops : f[o] \in Int /\ g[o] \in Int /\ (o # op => g[o] = f[o])
  PROVE  /\ Total(f, Ops) \in Int /\ Total(g, Ops) \in Int
         /\ Total(g, Ops) = Total(f, Ops) - f[op] + g[op]
<1>1. IsFiniteSet(Ops)
  BY TablesAssumption
<1>2. Total(f, Ops) \in Int /\ Total(g, Ops) \in Int
  BY <1>1, TotalInt
<1>3. Total(g, Ops) = Total(f, Ops) - f[op] + g[op]
  BY <1>1, TotalExcept
<1> QED
  BY <1>2, <1>3

LEMMA FiniteAllocations == IsFiniteSet(Allocations)
<1> DEFINE Triples == (Grants \X Entitlements) \X Sources
           f == [p \in Triples |-> <<p[1][1], p[1][2], p[2]>>]
<1>1. IsFiniteSet(Sources)
  BY FinitePair DEF Sources
<1>2. IsFiniteSet(Triples)
  BY <1>1, TablesAssumption, FS_Product
<1>3. f \in Surjection(Triples, Allocations)
  <2>1. f \in [Triples -> Allocations]
    BY DEF Allocations
  <2>2. ASSUME NEW a \in Allocations PROVE \E p \in Triples : f[p] = a
    <3>1. PICK g \in Grants, e \in Entitlements, s \in Sources : a = <<g, e, s>>
      BY DEF Allocations
    <3>2. <<<<g, e>>, s>> \in Triples
      OBVIOUS
    <3> QED
      BY <3>1, <3>2
  <2> QED
    BY <2>1, <2>2 DEF Surjection
<1> QED
  BY <1>2, <1>3, FS_Surjection

\* The two rows of a grant and an entitlement, taken together.
OfGrants(t, e) == [g \in Grants |-> t[<<g, e, "explicit">>] + t[<<g, e, "plan">>]]

LEMMA TotalOfAllocations ==
  ASSUME NEW t, \A a \in Allocations : t[a] \in Int
  PROVE  Total(t, Allocations) = Total([e \in Entitlements |-> Total(OfGrants(t, e), Grants)], Entitlements)
<1> DEFINE Of(e) == {a \in Allocations : a[2] = e}
<1>1. Total(t, Allocations) = Total([e \in Entitlements |-> Total(t, Of(e))], Entitlements)
  <2> DEFINE class == [a \in Allocations |-> a[2]]
  <2>1. class \in [Allocations -> Entitlements]
    BY DEF Allocations
  <2>2. \A e : {a \in Allocations : class[a] = e} = Of(e)
    OBVIOUS
  <2> HIDE DEF class, Of
  <2>3. Total(t, Allocations) = Total(ByClass(t, Allocations, class, Entitlements), Entitlements)
    BY <2>1, FiniteAllocations, TablesAssumption, TotalByClass
  <2> QED
    BY <2>2, <2>3 DEF ByClass
<1>2. ASSUME NEW e \in Entitlements PROVE Total(t, Of(e)) = Total(OfGrants(t, e), Grants)
  <2> DEFINE class == [a \in Of(e) |-> a[1]]
             Pair(g) == {<<g, e, "explicit">>, <<g, e, "plan">>}
  <2>1. class \in [Of(e) -> Grants]
    BY DEF Allocations
  <2>2. \A g \in Grants : {a \in Of(e) : class[a] = g} = Pair(g)
    BY DEF Allocations, Sources
  <2>3. IsFiniteSet(Of(e)) /\ \A a \in Of(e) : t[a] \in Int
    BY FiniteAllocations, FS_Subset
  <2>4. ASSUME NEW g \in Grants PROVE Total(t, Pair(g)) = OfGrants(t, e)[g]
    <3>1. t[<<g, e, "explicit">>] \in Int /\ t[<<g, e, "plan">>] \in Int
      BY DEF Allocations, Sources
    <3>2. <<g, e, "explicit">> # <<g, e, "plan">>
      OBVIOUS
    <3> QED
      BY <3>1, <3>2, TotalPair DEF OfGrants
  <2> HIDE DEF class, Of
  <2>5. Total(t, Of(e)) = Total(ByClass(t, Of(e), class, Grants), Grants)
    BY <2>1, <2>3, TablesAssumption, TotalByClass
  <2>6. ByClass(t, Of(e), class, Grants) = OfGrants(t, e)
    <3> HIDE DEF Pair
    <3>1. ByClass(t, Of(e), class, Grants) = [g \in Grants |-> OfGrants(t, e)[g]]
      BY <2>2, <2>4 DEF ByClass
    <3> QED
      BY <3>1 DEF OfGrants
  <2> QED
    BY <2>5, <2>6
<1>3. [e \in Entitlements |-> Total(t, Of(e))] = [e \in Entitlements |-> Total(OfGrants(t, e), Grants)]
  BY <1>2
<1> QED
  BY <1>1, <1>3

-----------------------------------------------------------------------------
(* Spreads. *)

\* What is taken of the owner's rows for a cost, and of grants' rows.
Fits(d, cost, took) ==
  /\ took \in [Entitlements -> Nat]
  /\ Total(took, Entitlements) = cost
  /\ \A e \in Entitlements :
       Limit[e] # Unlimited /\ took[e] > 0 => d.used[e] + d.reserved[e] + took[e] <= Limit[e]

LentFits(d, grants, cost, took) ==
  /\ took \in [Allocations -> Nat]
  /\ Total(took, Allocations) = cost
  /\ \A a \in Allocations : took[a] > 0 => a[1] \in grants /\ took[a] <= LentFree(d, a)
  /\ \A g \in Grants, e \in Entitlements :
       took[<<g, e, "explicit">>] = 0 \/ took[<<g, e, "plan">>] = 0

TookOf(t) == [e \in Entitlements |-> Taken(t, e)]
LentTookOf(t) == [a \in Allocations |-> Taken(t, a)]

LEMMA OwnSpreadFits ==
  ASSUME NEW d \in Tables, NEW cost \in Nat, NEW t \in OwnSpreads(d, cost)
  PROVE  Fits(d, cost, TookOf(t))
<1> DEFINE rows == {e \in d.open : Free(d, e, cost) > 0}
           free == [e \in rows |-> Free(d, e, cost)]
<1>1. rows \in SUBSET Entitlements
  BY DEF Tables
<1>2. /\ t \in [rows -> 0 .. cost]
      /\ Total(t, rows) = cost
      /\ \A e \in rows : t[e] <= Free(d, e, cost)
  BY DEF OwnSpreads, Spreads
<1> HIDE DEF rows
<1>3. /\ TookOf(t) \in [Entitlements -> Nat]
      /\ \A e \in rows : TookOf(t)[e] = t[e]
      /\ \A e \in Entitlements \ rows : TookOf(t)[e] = 0
  BY <1>1, <1>2 DEF TookOf, Taken
<1>4. Total(TookOf(t), Entitlements) = cost
  <2>1. IsFiniteSet(rows)
    BY <1>1, TablesAssumption, FS_Subset
  <2>2. Total(TookOf(t), rows) = Total(t, rows)
    BY <1>3, <2>1, TotalSame
  <2>3. \A e \in Entitlements : TookOf(t)[e] \in Int
    BY <1>3
  <2>4. Total(TookOf(t), rows) = Total(TookOf(t), Entitlements)
    BY <1>1, <1>3, <2>3, TablesAssumption, TotalSupport
  <2> QED
    BY <1>2, <2>2, <2>4
<1>5. ASSUME NEW e \in Entitlements, Limit[e] # Unlimited, TookOf(t)[e] > 0
      PROVE  d.used[e] + d.reserved[e] + TookOf(t)[e] <= Limit[e]
  <2>1. e \in rows
    BY <1>3, <1>5
  <2>2. TookOf(t)[e] <= Limit[e] - d.used[e] - d.reserved[e]
    BY <1>2, <1>3, <1>5, <2>1 DEF Free
  <2>3. Limit[e] \in Nat /\ d.used[e] \in Nat /\ d.reserved[e] \in Nat /\ TookOf(t)[e] \in Nat
    BY <1>3, <1>5, TablesAssumption DEF Tables
  <2> QED
    BY <2>2, <2>3
<1> QED
  BY <1>3, <1>4, <1>5 DEF Fits

LEMMA LentSpreadFits ==
  ASSUME NEW d \in Tables, NEW grants \in SUBSET Grants, NEW cost \in Nat,
         NEW t \in LentSpreads(d, grants, cost)
  PROVE  LentFits(d, grants, cost, LentTookOf(t))
<1> DEFINE rows == {a \in Allocations : a[1] \in grants /\ LentFree(d, a) > 0}
<1>1. rows \in SUBSET Allocations
  OBVIOUS
<1>2. /\ t \in [rows -> 0 .. cost]
      /\ Total(t, rows) = cost
      /\ \A a \in rows : t[a] <= LentFree(d, a)
      /\ \A a, b \in rows : a # b /\ a[1] = b[1] /\ a[2] = b[2] /\ t[a] > 0 => t[b] = 0
  BY DEF LentSpreads, Spreads
<1>3. \A a \in rows : a[1] \in grants
  OBVIOUS
<1> HIDE DEF rows
<1>4. /\ LentTookOf(t) \in [Allocations -> Nat]
      /\ \A a \in rows : LentTookOf(t)[a] = t[a]
      /\ \A a \in Allocations \ rows : LentTookOf(t)[a] = 0
  BY <1>1, <1>2 DEF LentTookOf, Taken
<1>5. Total(LentTookOf(t), Allocations) = cost
  <2>1. IsFiniteSet(rows)
    BY <1>1, FiniteAllocations, FS_Subset
  <2>2. Total(LentTookOf(t), rows) = Total(t, rows)
    BY <1>4, <2>1, TotalSame
  <2>3. \A a \in Allocations : LentTookOf(t)[a] \in Int
    BY <1>4
  <2>4. Total(LentTookOf(t), rows) = Total(LentTookOf(t), Allocations)
    BY <1>1, <1>4, <2>3, FiniteAllocations, TotalSupport
  <2> QED
    BY <1>2, <2>2, <2>4
<1>6. ASSUME NEW a \in Allocations, LentTookOf(t)[a] > 0
      PROVE  a[1] \in grants /\ LentTookOf(t)[a] <= LentFree(d, a)
  <2>1. a \in rows
    BY <1>4, <1>6
  <2> QED
    BY <1>2, <1>3, <1>4, <2>1
<1>7. ASSUME NEW g \in Grants, NEW e \in Entitlements
      PROVE  LentTookOf(t)[<<g, e, "explicit">>] = 0 \/ LentTookOf(t)[<<g, e, "plan">>] = 0
  <2> DEFINE a == <<g, e, "explicit">>
             b == <<g, e, "plan">>
  <2>1. a \in Allocations /\ b \in Allocations /\ a # b /\ a[1] = b[1] /\ a[2] = b[2]
    BY DEF Allocations, Sources
  <2> HIDE DEF a, b
  <2>2. CASE a \in rows /\ b \in rows
    <3>1. t[a] > 0 => t[b] = 0
      BY <1>2, <2>1, <2>2
    <3>2. t[a] \in Nat /\ LentTookOf(t)[a] = t[a] /\ LentTookOf(t)[b] = t[b]
      BY <1>2, <1>4, <2>2
    <3> QED
      BY <3>1, <3>2 DEF a, b
  <2>3. CASE a \notin rows \/ b \notin rows
    BY <1>4, <2>1, <2>3 DEF a, b
  <2> QED
    BY <2>2, <2>3
<1> QED
  BY <1>4, <1>5, <1>6, <1>7 DEF LentFits

-----------------------------------------------------------------------------
(* A spread exists when there is enough. *)

\* Whatever the order, some row of any that are left is not preceded by the others.
Ordered(rows, before) ==
  \A T \in SUBSET rows : T # {} => \E r \in T : \A d \in T : <<d, r>> \notin before

LEMMA EarlierOrdered == Ordered(Entitlements, Earlier)
<1> SUFFICES ASSUME NEW T \in SUBSET Entitlements, T # {}
             PROVE  \E r \in T : \A d \in T : <<d, r>> \notin Earlier
  BY DEF Ordered
<1>1. IsFiniteSet(T) /\ \A x \in T : x \in Nat
  BY TablesAssumption, FS_Subset
<1>2. PICK f : f = [x \in T |-> x]
  OBVIOUS
<1>3. PICK r \in T : \A d \in T : f[r] <= f[d]
  BY <1>1, <1>2, LeastOf
<1>4. \A d \in T : ~(d < r)
  BY <1>1, <1>2, <1>3
<1> QED
  BY <1>4 DEF Earlier

LEMMA LentEarlierOrdered == Ordered(Allocations, LentEarlier)
<1> SUFFICES ASSUME NEW T \in SUBSET Allocations, T # {}
             PROVE  \E r \in T : \A d \in T : <<d, r>> \notin LentEarlier
  BY DEF Ordered
<1>1. IsFiniteSet(T)
  BY FiniteAllocations, FS_Subset
<1>2. \A a \in T : a[1] \in Nat /\ a[1] \in Grants /\ a[2] \in Entitlements /\ IdRank[a[2]] \in Nat
  BY TablesAssumption DEF Allocations
<1>3. PICK f : f = [a \in T |-> a[1]]
  OBVIOUS
<1>4. PICK m \in T : \A d \in T : f[m] <= f[d]
  BY <1>1, <1>2, <1>3, LeastOf
<1>5. PICK U : U = {a \in T : a[1] = m[1]}
  OBVIOUS
<1>6. PICK h : h = [a \in U |-> IdRank[a[2]]]
  OBVIOUS
<1>7. IsFiniteSet(U) /\ U # {} /\ \A a \in U : h[a] \in Nat
  BY <1>1, <1>2, <1>5, <1>6, FS_Subset
<1>8. PICK r \in U : \A d \in U : h[r] <= h[d]
  BY <1>7, LeastOf
<1>9. r \in T /\ r[1] = m[1]
  BY <1>5, <1>8
<1>10. ASSUME NEW d \in T PROVE <<d, r>> \notin LentEarlier
  <2>1. ~(d[1] < r[1])
    BY <1>2, <1>3, <1>4, <1>9
  <2>2. ASSUME d[1] = r[1] PROVE ~(IdRank[d[2]] < IdRank[r[2]])
    <3>1. d \in U
      BY <1>5, <1>9, <2>2
    <3> QED
      BY <1>2, <1>6, <1>8, <1>9, <3>1
  <2>3. <<d, r>>[1] = d /\ <<d, r>>[2] = r
    OBVIOUS
  <2> QED
    BY <2>1, <2>2, <2>3, Zenon DEF LentEarlier
<1> QED
  BY <1>9, <1>10

\* A cost is spread exactly when the rows have enough: one unit more goes to the
\* first row that has room.
LEMMA SpreadExists ==
  ASSUME NEW rows, IsFiniteSet(rows), NEW free, \A r \in rows : free[r] \in Nat,
         NEW before, Ordered(rows, before), NEW cost \in Nat, cost <= Total(free, rows)
  PROVE  Spreads(rows, free, before, cost) # {}
<1> SUFFICES ASSUME Spreads(rows, free, before, cost) = {} PROVE FALSE
  OBVIOUS
<1>1. PICK Bad : Bad = {c \in 0 .. cost : Spreads(rows, free, before, c) = {}}
  OBVIOUS
<1>2. PICK least : least = [c \in Bad |-> c]
  OBVIOUS
<1>3. IsFiniteSet(Bad) /\ Bad # {} /\ \A c \in Bad : least[c] \in Nat
  <2>1. IsFiniteSet(0 .. cost)
    BY FS_Interval
  <2>2. IsFiniteSet(Bad)
    BY <1>1, <2>1, FS_Subset
  <2> QED
    BY <1>1, <1>2, <2>2
<1>4. PICK c \in Bad : \A b \in Bad : least[c] <= least[b]
  BY <1>3, LeastOf
<1>5. c \in 0 .. cost /\ Spreads(rows, free, before, c) = {} /\ \A b \in Bad : c <= b
  BY <1>1, <1>2, <1>4
<1>6. c # 0
  <2> SUFFICES ASSUME c = 0 PROVE FALSE
    OBVIOUS
  <2>1. PICK t : t = [r \in rows |-> 0]
    OBVIOUS
  <2>2. Total(t, rows) = 0
    BY <2>1, TotalZero
  <2>3. t \in Spreads(rows, free, before, 0)
    BY <2>1, <2>2 DEF Spreads
  <2> QED
    BY <1>5, <2>3
<1>7. c - 1 \in 0 .. cost /\ c - 1 \notin Bad /\ c - 1 \in Nat
  BY <1>5, <1>6
<1>8. PICK t : t \in Spreads(rows, free, before, c - 1)
  BY <1>1, <1>7
<1>9. /\ t \in [rows -> 0 .. (c - 1)] /\ Total(t, rows) = c - 1
      /\ \A r \in rows : t[r] <= free[r]
      /\ \A r, d \in rows : <<d, r>> \in before /\ t[r] > 0 => t[d] = free[d]
  BY <1>8 DEF Spreads
<1>10. \A r \in rows : t[r] \in Nat
  BY <1>9
<1>11. PICK T : T = {r \in rows : t[r] < free[r]}
  OBVIOUS
<1>12. T # {}
  <2> SUFFICES ASSUME T = {} PROVE FALSE
    OBVIOUS
  <2>1. \A r \in rows : t[r] = free[r]
    BY <1>9, <1>10, <1>11
  <2>2. Total(t, rows) = Total(free, rows)
    BY <2>1, TotalSame
  <2> QED
    BY <1>5, <1>9, <2>2
<1>13. PICK r \in T : \A d \in T : <<d, r>> \notin before
  BY <1>11, <1>12 DEF Ordered
<1>14. PICK u : u = [t EXCEPT ![r] = t[r] + 1]
  OBVIOUS
<1>15. r \in rows /\ t[r] < free[r]
  BY <1>11, <1>13
<1>16. u[r] = t[r] + 1 /\ \A d \in rows : d # r => u[d] = t[d]
  BY <1>9, <1>14, <1>15
<1>17. u \in [rows -> 0 .. c]
  BY <1>5, <1>9, <1>14, <1>15
<1>18. Total(u, rows) = c
  <2>1. \A d \in rows : t[d] \in Int /\ u[d] \in Int /\ (d # r => u[d] = t[d])
    BY <1>10, <1>16
  <2>2. Total(u, rows) = Total(t, rows) - t[r] + u[r]
    BY <1>15, <2>1, TotalExcept
  <2> QED
    BY <1>5, <1>9, <1>10, <1>15, <1>16, <2>2
<1>19. \A d \in rows : u[d] <= free[d]
  BY <1>9, <1>10, <1>15, <1>16
<1>20. ASSUME NEW s \in rows, NEW d \in rows, <<d, s>> \in before, u[s] > 0 PROVE u[d] = free[d]
  <2>1. CASE s = r
    <3>1. d \notin T
      BY <1>13, <1>20, <2>1
    <3>2. d # r
      BY <1>13, <3>1
    <3> QED
      BY <1>9, <1>10, <1>11, <1>16, <3>1, <3>2
  <2>2. CASE s # r
    <3>1. t[d] = free[d]
      BY <1>9, <1>16, <1>20, <2>2
    <3>2. d # r
      BY <1>10, <1>15, <3>1
    <3> QED
      BY <1>16, <3>1, <3>2
  <2> QED
    BY <2>1, <2>2
<1>21. u \in Spreads(rows, free, before, c)
  BY <1>17, <1>18, <1>19, <1>20 DEF Spreads
<1> QED
  BY <1>5, <1>21

\* No cost is spread over rows that do not have it.
LEMMA SpreadNeeds ==
  ASSUME NEW rows, IsFiniteSet(rows), NEW free, \A r \in rows : free[r] \in Nat,
         NEW before, NEW cost \in Nat, NEW t \in Spreads(rows, free, before, cost)
  PROVE  cost <= Total(free, rows)
<1>1. t \in [rows -> 0 .. cost] /\ Total(t, rows) = cost /\ \A r \in rows : t[r] <= free[r]
  BY DEF Spreads
<1>2. \A r \in rows : t[r] \in Int /\ free[r] \in Int /\ t[r] <= free[r]
  BY <1>1
<1>3. Total(t, rows) <= Total(free, rows)
  BY <1>2, TotalAtMost
<1> QED
  BY <1>1, <1>3

-----------------------------------------------------------------------------
\* The types of the parts of the tables.
LEMMA RowTypes ==
  ASSUME NEW d \in Tables
  PROVE  /\ d.used \in [Entitlements -> Nat] /\ d.reserved \in [Entitlements -> Nat]
         /\ d.grant \in [Grants -> {"none", "active", "revoked"}]
         /\ d.allocated \in [Allocations -> Nat] /\ d.lentUsed \in [Allocations -> Nat]
         /\ d.lentReserved \in [Allocations -> Nat]
         /\ d.direct \in [Ops -> [Entitlements -> Nat]] /\ d.directStatus \in [Ops -> Status]
         /\ d.external \in [Ops -> [Grants \X Entitlements -> Nat]]
         /\ d.externalStatus \in [Ops -> [Grants \X Entitlements -> Status]]
         /\ d.ledger \in [Ops -> [Kinds -> Nat]]
BY DEF Tables

-----------------------------------------------------------------------------
(* The external grants' transactions. *)

Lent(d, d2, g, source, took) ==
  d2 = [d EXCEPT !.reserved = [e \in Entitlements |-> d.reserved[e] + took[e]],
                 !.allocated = [a \in Allocations |->
                                  IF a[1] = g /\ a[3] = source THEN took[a[2]] ELSE d.allocated[a]]]

LEMMA AllocateEffect ==
  ASSUME NEW d \in Tables, NEW g \in Grants, NEW source \in Sources, NEW amount \in Nat,
         NEW d2 \in AllocateGrantQuota(d, g, source, amount)
  PROVE  d2 \in Tables /\ \E took : Fits(d, amount, took) /\ Lent(d, d2, g, source, took)
<1>1. PICK t \in OwnSpreads(d, amount) :
        d2 = [d EXCEPT
               !.reserved = [e \in Entitlements |-> d.reserved[e] + Taken(t, e)],
               !.allocated = [a \in Allocations |->
                                IF a[1] = g /\ a[3] = source THEN Taken(t, a[2]) ELSE d.allocated[a]]]
  BY DEF AllocateGrantQuota, Tables
<1>2. PICK took : took = TookOf(t) /\ Fits(d, amount, took)
  BY OwnSpreadFits
<1>3. \A e \in Entitlements : Taken(t, e) = took[e] /\ took[e] \in Nat
  BY <1>2 DEF TookOf, Fits
<1>4. \A a \in Allocations : a[2] \in Entitlements
  BY DEF Allocations
<1>5. [e \in Entitlements |-> d.reserved[e] + Taken(t, e)] = [e \in Entitlements |-> d.reserved[e] + took[e]]
  BY <1>3
<1>6. [a \in Allocations |-> IF a[1] = g /\ a[3] = source THEN Taken(t, a[2]) ELSE d.allocated[a]]
        = [a \in Allocations |-> IF a[1] = g /\ a[3] = source THEN took[a[2]] ELSE d.allocated[a]]
  BY <1>3, <1>4
<1>7. [e \in Entitlements |-> d.reserved[e] + took[e]] \in [Entitlements -> Nat]
  BY <1>3 DEF Tables
<1>8. [a \in Allocations |-> IF a[1] = g /\ a[3] = source THEN took[a[2]] ELSE d.allocated[a]]
        \in [Allocations -> Nat]
  BY <1>3, <1>4 DEF Tables
<1>9. d2 \in Tables
  BY <1>1, <1>5, <1>6, <1>7, <1>8 DEF Tables
<1>10. Lent(d, d2, g, source, took)
  BY <1>1, <1>5, <1>6, Zenon DEF Lent
<1> QED
  BY <1>2, <1>9, <1>10

\* The operations' rows and the counters of what is used.
SameUse(d, d2) ==
  /\ d2.used = d.used /\ d2.lentUsed = d.lentUsed /\ d2.lentReserved = d.lentReserved
  /\ d2.direct = d.direct /\ d2.directStatus = d.directStatus
  /\ d2.external = d.external /\ d2.externalStatus = d.externalStatus
  /\ d2.ledger = d.ledger /\ d2.open = d.open /\ d2.denied = d.denied

Created(d, d2, g) ==
  /\ d2 \in Tables /\ SameUse(d, d2)
  /\ d.grant[g] = "none" /\ d2.grant = [d.grant EXCEPT ![g] = "active"]
  /\ \A a \in Allocations : a[1] # g => d2.allocated[a] = d.allocated[a]
  /\ \A e \in Entitlements :
       /\ d2.reserved[e] =
            d.reserved[e] + d2.allocated[<<g, e, "explicit">>] + d2.allocated[<<g, e, "plan">>]
       /\ Limit[e] # Unlimited =>
            d2.reserved[e] = d.reserved[e] \/ d2.used[e] + d2.reserved[e] <= Limit[e]

LEMMA CreateEffect ==
  ASSUME NEW d \in Tables, NEW g \in Grants,
         NEW bundle \in [plan : Nat, explicit : Nat, deny : BOOLEAN],
         NEW d2 \in CreateExternalGrant(d, g, bundle)
  PROVE  Created(d, d2, g)
<1> DEFINE d0 == [d EXCEPT !.grant[g] = "active", !.deny[g] = bundle.deny]
<1>1. d.grant[g] = "none"
  BY DEF CreateExternalGrant
<1>2. PICK d1 \in AllocateGrantQuota(d0, g, "plan", bundle.plan) :
        d2 \in AllocateGrantQuota(d1, g, "explicit", bundle.explicit)
  BY <1>1 DEF CreateExternalGrant
<1>3. /\ SameUse(d, d0) /\ d0.reserved = d.reserved /\ d0.allocated = d.allocated
      /\ d0.grant = [d.grant EXCEPT ![g] = "active"]
  BY DEF Tables, SameUse
<1>4. d0 \in Tables
  <2>1. d0.deny \in [Grants -> BOOLEAN]
    BY Zenon DEF Tables
  <2>2. d0.grant \in [Grants -> {"none", "active", "revoked"}]
    BY DEF Tables
  <2> QED
    BY <2>1, <2>2 DEF Tables
<1> HIDE DEF d0
<1>5. bundle.plan \in Nat /\ bundle.explicit \in Nat /\ "plan" \in Sources /\ "explicit" \in Sources
  BY DEF Sources
<1>6. /\ d1 \in Tables
      /\ \E took : Fits(d0, bundle.plan, took) /\ Lent(d0, d1, g, "plan", took)
  BY <1>2, <1>4, <1>5, AllocateEffect
<1>7. PICK p : Fits(d0, bundle.plan, p) /\ Lent(d0, d1, g, "plan", p)
  BY <1>6
<1>8. /\ d2 \in Tables
      /\ \E took : Fits(d1, bundle.explicit, took) /\ Lent(d1, d2, g, "explicit", took)
  BY <1>2, <1>5, <1>6, AllocateEffect
<1>9. PICK x : Fits(d1, bundle.explicit, x) /\ Lent(d1, d2, g, "explicit", x)
  BY <1>8
<1>10. /\ SameUse(d0, d1) /\ d1.grant = d0.grant
      /\ d1.reserved = [e \in Entitlements |-> d0.reserved[e] + p[e]]
      /\ d1.allocated =
           [a \in Allocations |-> IF a[1] = g /\ a[3] = "plan" THEN p[a[2]] ELSE d0.allocated[a]]
  BY <1>4, <1>7 DEF Tables, SameUse, Lent
<1>11. /\ SameUse(d1, d2) /\ d2.grant = d1.grant
      /\ d2.reserved = [e \in Entitlements |-> d1.reserved[e] + x[e]]
      /\ d2.allocated =
           [a \in Allocations |-> IF a[1] = g /\ a[3] = "explicit" THEN x[a[2]] ELSE d1.allocated[a]]
  BY <1>6, <1>9 DEF Tables, SameUse, Lent
<1>12. SameUse(d, d2)
  BY <1>3, <1>10, <1>11 DEF SameUse
<1>13. \A a \in Allocations : a[1] # g => d2.allocated[a] = d.allocated[a]
  BY <1>3, <1>10, <1>11
<1>14. ASSUME NEW e \in Entitlements
       PROVE  /\ d2.reserved[e] =
                   d.reserved[e] + d2.allocated[<<g, e, "explicit">>] + d2.allocated[<<g, e, "plan">>]
              /\ Limit[e] # Unlimited =>
                   d2.reserved[e] = d.reserved[e] \/ d2.used[e] + d2.reserved[e] <= Limit[e]
  <2>1. <<g, e, "explicit">> \in Allocations /\ <<g, e, "plan">> \in Allocations
    BY DEF Allocations, Sources
  <2>2. d2.allocated[<<g, e, "explicit">>] = x[e] /\ d2.allocated[<<g, e, "plan">>] = p[e]
    BY <1>10, <1>11, <2>1
  <2>3. d1.reserved[e] = d.reserved[e] + p[e] /\ d2.reserved[e] = d1.reserved[e] + x[e]
    BY <1>3, <1>10, <1>11
  <2>4. p[e] \in Nat /\ x[e] \in Nat /\ d.reserved[e] \in Nat /\ d.used[e] \in Nat
    BY <1>7, <1>9 DEF Fits, Tables
  <2>5. d0.used[e] = d.used[e] /\ d1.used[e] = d.used[e] /\ d2.used[e] = d.used[e] /\ d0.reserved[e] = d.reserved[e]
    BY <1>3, <1>10, <1>11 DEF SameUse
  <2>6. ASSUME Limit[e] # Unlimited
        PROVE  d2.reserved[e] = d.reserved[e] \/ d2.used[e] + d2.reserved[e] <= Limit[e]
    <3>1. p[e] > 0 => d.used[e] + d.reserved[e] + p[e] <= Limit[e]
      BY <1>7, <2>5, <2>6 DEF Fits
    <3>2. x[e] > 0 => d.used[e] + d1.reserved[e] + x[e] <= Limit[e]
      BY <1>9, <2>5, <2>6 DEF Fits
    <3>3. Limit[e] \in Nat
      BY <2>6, TablesAssumption
    <3> QED
      BY <2>3, <2>4, <2>5, <3>1, <3>2, <3>3
  <2> QED
    BY <2>2, <2>3, <2>4, <2>6
<1> QED
  BY <1>1, <1>3, <1>8, <1>10, <1>11, <1>12, <1>13, <1>14 DEF Created

Revoked(d, d2, g) ==
  /\ d2 \in Tables /\ SameUse(d, d2) /\ d2.allocated = d.allocated
  /\ d.grant[g] = "active" /\ d2.grant = [d.grant EXCEPT ![g] = "revoked"]
  /\ \A e \in Entitlements :
       d.reserved[e] >= Unused(d, g, e) /\ d2.reserved[e] = d.reserved[e] - Unused(d, g, e)

LEMMA RevokeEffect ==
  ASSUME NEW d \in Tables, NEW g \in Grants, NEW d2 \in RevokeExternalGrant(d, g)
  PROVE  Revoked(d, d2, g)
<1>1. /\ d.grant[g] = "active"
      /\ ~\E e \in Entitlements : d.reserved[e] < Unused(d, g, e)
      /\ d2 = [d EXCEPT !.reserved = [e \in Entitlements |-> d.reserved[e] - Unused(d, g, e)],
                        !.grant[g] = "revoked"]
  BY DEF RevokeExternalGrant, Tables
<1>2. ASSUME NEW e \in Entitlements
      PROVE  d.reserved[e] >= Unused(d, g, e) /\ d.reserved[e] - Unused(d, g, e) \in Nat
  <2>1. Unused(d, g, e) \in Int
    BY DEF Unused, Tables, Allocations, Sources
  <2>2. d.reserved[e] \in Nat
    BY DEF Tables
  <2> QED
    BY <1>1, <2>1, <2>2
<1>3. [e \in Entitlements |-> d.reserved[e] - Unused(d, g, e)] \in [Entitlements -> Nat]
  BY <1>2
<1>4. d2 \in Tables
  BY <1>1, <1>3 DEF Tables
<1>5. /\ SameUse(d, d2) /\ d2.allocated = d.allocated
      /\ d2.grant = [d.grant EXCEPT ![g] = "revoked"]
      /\ d2.reserved = [e \in Entitlements |-> d.reserved[e] - Unused(d, g, e)]
  BY <1>1 DEF Tables, SameUse
<1> QED
  BY <1>1, <1>2, <1>4, <1>5 DEF Revoked

-----------------------------------------------------------------------------
(* The quota engine's transactions. *)

\* What none of them touches.
SameGrants(d, d2) ==
  /\ d2.open = d.open /\ d2.denied = d.denied
  /\ d2.grant = d.grant /\ d2.allocated = d.allocated

\* The grants' rows, and the operations' reservations on them.
SameLent(d, d2) ==
  /\ d2.lentUsed = d.lentUsed /\ d2.lentReserved = d.lentReserved
  /\ d2.external = d.external /\ d2.externalStatus = d.externalStatus

\* The operations' own reservations.
SameDirect(d, d2) ==
  d2.direct = d.direct /\ d2.directStatus = d.directStatus /\ d2.ledger = d.ledger

Logged(d, d2, op, kind, amount) == d2.ledger = [d.ledger EXCEPT ![op][kind] = amount]

Reserved(d, d2, op, took) ==
  /\ d2 \in Tables /\ SameGrants(d, d2) /\ SameLent(d, d2) /\ d2.used = d.used
  /\ d2.reserved = [e \in Entitlements |-> d.reserved[e] + took[e]]
  /\ d2.direct = [d.direct EXCEPT ![op] = took]
  /\ d2.directStatus = [d.directStatus EXCEPT ![op] = "reserved"]

LEMMA ReserveOwnEffect ==
  ASSUME NEW d \in Tables, NEW op \in Ops, NEW cost \in Nat, NEW d2 \in ReserveOwn(d, op, cost)
  PROVE  /\ d.ledger[op]["reserve"] = 0
         /\ Logged(d, d2, op, "reserve", cost)
         /\ \E took : Fits(d, cost, took) /\ Reserved(d, d2, op, took)
<1>1. PICK t \in OwnSpreads(d, cost) :
        d2 = [d EXCEPT
               !.reserved = [e \in Entitlements |-> d.reserved[e] + Taken(t, e)],
               !.direct[op] = [e \in Entitlements |-> Taken(t, e)],
               !.directStatus[op] = "reserved",
               !.ledger[op]["reserve"] = cost]
  BY DEF ReserveOwn
<1>2. d.ledger[op]["reserve"] = 0
  BY DEF ReserveOwn
<1>3. PICK took : took = TookOf(t) /\ Fits(d, cost, took)
  BY OwnSpreadFits
<1>4. took \in [Entitlements -> Nat]
  BY <1>3 DEF Fits
<1>5. took = [e \in Entitlements |-> Taken(t, e)]
  BY <1>3 DEF TookOf
<1>6. \A e \in Entitlements : Taken(t, e) = took[e]
  BY <1>5
<1>7. /\ SameGrants(d, d2) /\ SameLent(d, d2) /\ d2.used = d.used /\ d2.deny = d.deny
      /\ d2.direct = [d.direct EXCEPT ![op] = took]
      /\ d2.directStatus = [d.directStatus EXCEPT ![op] = "reserved"]
      /\ d2.ledger = [d.ledger EXCEPT ![op]["reserve"] = cost]
  BY <1>1, <1>5 DEF Tables, SameGrants, SameLent
<1>8. d2.reserved = [e \in Entitlements |-> d.reserved[e] + took[e]]
  <2>1. d2.reserved = [e \in Entitlements |-> d.reserved[e] + Taken(t, e)]
    BY <1>1 DEF Tables
  <2> QED
    BY <1>6, <2>1
<1>9. d2 \in Tables
  <2>1. d2.reserved \in [Entitlements -> Nat]
    BY <1>4, <1>8 DEF Tables
  <2>2. d2.direct \in [Ops -> [Entitlements -> Nat]]
    BY <1>4, <1>7 DEF Tables
  <2>3. d2.directStatus \in [Ops -> Status]
    BY <1>7 DEF Tables, Status
  <2>4. d2.ledger \in [Ops -> [Kinds -> Nat]]
    BY <1>7 DEF Tables, Kinds
  <2> QED
    BY <1>1, <1>7, <2>1, <2>2, <2>3, <2>4 DEF Tables, SameGrants, SameLent
<1> QED
  BY <1>2, <1>3, <1>7, <1>8, <1>9 DEF Reserved, Logged

\* The rows have what the operation holds: they always do, as nobody else
\* takes from it.
Withdrawn(d, d2, op, outcome, use) ==
  /\ d2 \in Tables /\ SameGrants(d, d2) /\ SameLent(d, d2) /\ d2.direct = d.direct
  /\ d2.reserved = [e \in Entitlements |-> d.reserved[e] - d.direct[op][e]]
  /\ d2.used = [e \in Entitlements |-> IF use THEN d.used[e] + d.direct[op][e] ELSE d.used[e]]
  /\ d2.directStatus = [d.directStatus EXCEPT ![op] = outcome]

LEMMA WithdrawEffect ==
  ASSUME NEW d \in Tables, NEW op \in Ops, NEW kind \in Kinds, NEW outcome \in Status,
         NEW use \in BOOLEAN, d.directStatus[op] = "reserved",
         \A e \in Entitlements : d.direct[op][e] <= d.reserved[e],
         NEW d2, d2 = Withdraw(d, op, kind, outcome, use)
  PROVE  /\ Withdrawn(d, d2, op, outcome, use)
         /\ Logged(d, d2, op, kind, Total(d.direct[op], Entitlements))
<1> DEFINE held == d.direct[op]
           Moves(e) == held[e] > 0 /\ d.reserved[e] >= held[e]
<1>1. held \in [Entitlements -> Nat]
  BY DEF Tables
<1>2. d2 = [d EXCEPT
             !.reserved = [e \in Entitlements |-> IF Moves(e) THEN d.reserved[e] - held[e] ELSE d.reserved[e]],
             !.used = [e \in Entitlements |-> IF Moves(e) /\ use THEN d.used[e] + held[e] ELSE d.used[e]],
             !.directStatus[op] = outcome,
             !.ledger[op][kind] = Total(held, Entitlements)]
  BY DEF Withdraw, Held
<1>3. ASSUME NEW e \in Entitlements
      PROVE  /\ (IF Moves(e) THEN d.reserved[e] - held[e] ELSE d.reserved[e]) = d.reserved[e] - held[e]
             /\ (IF Moves(e) /\ use THEN d.used[e] + held[e] ELSE d.used[e])
                  = IF use THEN d.used[e] + held[e] ELSE d.used[e]
             /\ d.reserved[e] - held[e] \in Nat
  BY <1>1 DEF Tables
<1>4. d2.reserved = [e \in Entitlements |-> d.reserved[e] - held[e]]
  <2>1. d2.reserved =
          [e \in Entitlements |-> IF Moves(e) THEN d.reserved[e] - held[e] ELSE d.reserved[e]]
    BY <1>2 DEF Tables
  <2> HIDE DEF Moves, held
  <2> QED
    BY <1>3, <2>1
<1>5. d2.used = [e \in Entitlements |-> IF use THEN d.used[e] + held[e] ELSE d.used[e]]
  <2>1. d2.used = [e \in Entitlements |-> IF Moves(e) /\ use THEN d.used[e] + held[e] ELSE d.used[e]]
    BY <1>2 DEF Tables
  <2> HIDE DEF Moves, held
  <2> QED
    BY <1>3, <2>1
<1>6. /\ SameGrants(d, d2) /\ SameLent(d, d2) /\ d2.direct = d.direct /\ d2.deny = d.deny
      /\ d2.directStatus = [d.directStatus EXCEPT ![op] = outcome]
      /\ d2.ledger = [d.ledger EXCEPT ![op][kind] = Total(held, Entitlements)]
  BY <1>2 DEF Tables, SameGrants, SameLent
<1>7. d2 \in Tables
  <2>1. d2.reserved \in [Entitlements -> Nat] /\ d2.used \in [Entitlements -> Nat]
    BY <1>1, <1>3, <1>4, <1>5 DEF Tables
  <2>2. d2.directStatus \in [Ops -> Status]
    BY <1>6 DEF Tables
  <2>3. Total(held, Entitlements) \in Nat
    BY <1>1, TablesAssumption, TotalNat
  <2>4. d2.ledger \in [Ops -> [Kinds -> Nat]]
    BY <1>6, <2>3 DEF Tables
  <2> QED
    BY <1>2, <1>6, <2>1, <2>2, <2>4 DEF Tables, SameGrants, SameLent
<1> QED
  BY <1>4, <1>5, <1>6, <1>7 DEF Withdrawn, Logged

\* What the commit of an operation takes from a row, and from the owner.
PartOf(d, op, a) ==
  LET held == LentHeld(d, op)[<<a[1], a[2]>>]
  IN IF held > 0 /\ d.lentReserved[a] >= held THEN held ELSE 0

DueOf(d, op, e) == Total([g \in Grants |-> LentHeld(d, op)[<<g, e>>]], Grants)

Committed(d, d2, op) ==
  /\ d2 \in Tables /\ SameGrants(d, d2) /\ SameDirect(d, d2) /\ d2.external = d.external
  /\ \A e \in Entitlements :
       /\ DueOf(d, op, e) \in Nat /\ DueOf(d, op, e) <= d.reserved[e]
       /\ d2.reserved[e] = d.reserved[e] - DueOf(d, op, e)
       /\ d2.used[e] = d.used[e] + DueOf(d, op, e)
  /\ \A a \in Allocations :
       /\ PartOf(d, op, a) \in Nat /\ PartOf(d, op, a) <= d.lentReserved[a]
       /\ d2.lentReserved[a] = d.lentReserved[a] - PartOf(d, op, a)
       /\ d2.lentUsed[a] = d.lentUsed[a] + PartOf(d, op, a)
  /\ \A o \in Ops : \A p \in Grants \X Entitlements :
       d2.externalStatus[o][p] =
         IF o = op /\ d.externalStatus[o][p] = "reserved" THEN "committed" ELSE d.externalStatus[o][p]

LEMMA LentHeldType ==
  ASSUME NEW d \in Tables, NEW op \in Ops
  PROVE  LentHeld(d, op) \in [Grants \X Entitlements -> Nat]
BY DEF Tables, LentHeld

LEMMA CommitExternalEffect ==
  ASSUME NEW d \in Tables, NEW op \in Ops, NEW d2 \in CommitExternal(d, op)
  PROVE  Committed(d, d2, op)
<1>1. /\ ~\E e \in Entitlements : d.reserved[e] < DueOf(d, op, e)
      /\ d2 = [d EXCEPT
                !.lentReserved = [a \in Allocations |-> d.lentReserved[a] - PartOf(d, op, a)],
                !.lentUsed = [a \in Allocations |-> d.lentUsed[a] + PartOf(d, op, a)],
                !.reserved = [e \in Entitlements |-> d.reserved[e] - DueOf(d, op, e)],
                !.used = [e \in Entitlements |-> d.used[e] + DueOf(d, op, e)],
                !.externalStatus[op] = Settle(d.externalStatus[op], "committed")]
  BY DEF CommitExternal, DueOf, PartOf
<1>2. LentHeld(d, op) \in [Grants \X Entitlements -> Nat]
  BY LentHeldType
<1>3. ASSUME NEW e \in Entitlements
      PROVE  DueOf(d, op, e) \in Nat /\ DueOf(d, op, e) <= d.reserved[e]
  <2>1. \A g \in Grants : [h \in Grants |-> LentHeld(d, op)[<<h, e>>]][g] \in Nat
    BY <1>2
  <2>2. DueOf(d, op, e) \in Nat
    BY <2>1, TablesAssumption, TotalNat DEF DueOf
  <2>3. d.reserved[e] \in Nat
    BY DEF Tables
  <2> QED
    BY <1>1, <2>2, <2>3
<1>4. ASSUME NEW a \in Allocations
      PROVE  PartOf(d, op, a) \in Nat /\ PartOf(d, op, a) <= d.lentReserved[a]
  <2>1. LentHeld(d, op)[<<a[1], a[2]>>] \in Nat
    BY <1>2 DEF Allocations
  <2>2. d.lentReserved[a] \in Nat
    BY DEF Tables
  <2> QED
    BY <2>1, <2>2 DEF PartOf
<1>5. /\ d2.lentReserved = [a \in Allocations |-> d.lentReserved[a] - PartOf(d, op, a)]
      /\ d2.lentUsed = [a \in Allocations |-> d.lentUsed[a] + PartOf(d, op, a)]
      /\ d2.reserved = [e \in Entitlements |-> d.reserved[e] - DueOf(d, op, e)]
      /\ d2.used = [e \in Entitlements |-> d.used[e] + DueOf(d, op, e)]
      /\ d2.externalStatus = [d.externalStatus EXCEPT ![op] = Settle(d.externalStatus[op], "committed")]
      /\ SameGrants(d, d2) /\ SameDirect(d, d2) /\ d2.external = d.external /\ d2.deny = d.deny
  BY <1>1 DEF Tables, SameGrants, SameDirect
<1>6. ASSUME NEW o \in Ops, NEW p \in Grants \X Entitlements
      PROVE  d2.externalStatus[o][p] =
               IF o = op /\ d.externalStatus[o][p] = "reserved" THEN "committed" ELSE d.externalStatus[o][p]
  BY <1>5 DEF Settle, Tables
<1>7. d2 \in Tables
  <2>1. d2.lentReserved \in [Allocations -> Nat] /\ d2.lentUsed \in [Allocations -> Nat]
    BY <1>4, <1>5 DEF Tables
  <2>2. d2.reserved \in [Entitlements -> Nat] /\ d2.used \in [Entitlements -> Nat]
    BY <1>3, <1>5 DEF Tables
  <2>3. d2.externalStatus \in [Ops -> [Grants \X Entitlements -> Status]]
    <3>1. Settle(d.externalStatus[op], "committed") \in [Grants \X Entitlements -> Status]
      BY DEF Settle, Tables, Status
    <3> QED
      BY <1>5, <3>1 DEF Tables
  <2> QED
    BY <1>1, <1>5, <2>1, <2>2, <2>3 DEF Tables, SameGrants, SameDirect
<1>8. \A a \in Allocations :
        /\ d2.lentReserved[a] = d.lentReserved[a] - PartOf(d, op, a)
        /\ d2.lentUsed[a] = d.lentUsed[a] + PartOf(d, op, a)
  BY <1>5
<1>9. \A e \in Entitlements :
        /\ d2.reserved[e] = d.reserved[e] - DueOf(d, op, e)
        /\ d2.used[e] = d.used[e] + DueOf(d, op, e)
  BY <1>5
<1> QED
  BY <1>3, <1>4, <1>5, <1>6, <1>7, <1>8, <1>9 DEF Committed

\* Nothing is taken from grants for an operation that holds nothing of them.
LEMMA NothingLent ==
  ASSUME NEW d \in Tables, NEW op \in Ops,
         \A p \in Grants \X Entitlements : d.externalStatus[op][p] # "reserved",
         NEW d2 \in CommitExternal(d, op)
  PROVE  /\ d2 \in Tables /\ SameGrants(d, d2) /\ SameDirect(d, d2) /\ SameLent(d, d2)
         /\ d2.used = d.used /\ d2.reserved = d.reserved
<1>1. Committed(d, d2, op)
  BY CommitExternalEffect
<1>2. \A p \in Grants \X Entitlements : LentHeld(d, op)[p] = 0
  BY DEF LentHeld
<1>3. ASSUME NEW e \in Entitlements PROVE DueOf(d, op, e) = 0
  <2>1. \A g \in Grants : [h \in Grants |-> LentHeld(d, op)[<<h, e>>]][g] = 0
    BY <1>2
  <2> QED
    BY <2>1, TablesAssumption, TotalZero DEF DueOf
<1>4. ASSUME NEW a \in Allocations PROVE PartOf(d, op, a) = 0
  BY <1>2 DEF PartOf, Allocations
<1>5. /\ d.used \in [Entitlements -> Nat] /\ d2.used \in [Entitlements -> Nat]
      /\ d.reserved \in [Entitlements -> Nat] /\ d2.reserved \in [Entitlements -> Nat]
      /\ d.lentUsed \in [Allocations -> Nat] /\ d2.lentUsed \in [Allocations -> Nat]
      /\ d.lentReserved \in [Allocations -> Nat] /\ d2.lentReserved \in [Allocations -> Nat]
      /\ d.externalStatus \in [Ops -> [Grants \X Entitlements -> Status]]
      /\ d2.externalStatus \in [Ops -> [Grants \X Entitlements -> Status]]
  BY <1>1 DEF Committed, Tables
<1>6. \A e \in Entitlements : d2.used[e] = d.used[e] /\ d2.reserved[e] = d.reserved[e]
  BY <1>1, <1>3, <1>5 DEF Committed
<1>7. \A a \in Allocations : d2.lentUsed[a] = d.lentUsed[a] /\ d2.lentReserved[a] = d.lentReserved[a]
  BY <1>1, <1>4, <1>5 DEF Committed
<1>8. \A o \in Ops : \A p \in Grants \X Entitlements : d2.externalStatus[o][p] = d.externalStatus[o][p]
  BY <1>1 DEF Committed
<1>9. d2.used = d.used /\ d2.reserved = d.reserved
  BY <1>5, <1>6
<1>10. d2.lentUsed = d.lentUsed /\ d2.lentReserved = d.lentReserved
  BY <1>5, <1>7
<1>11. d2.externalStatus = d.externalStatus
  <2>1. \A o \in Ops : d2.externalStatus[o] = d.externalStatus[o]
    BY <1>5, <1>8
  <2> QED
    BY <1>5, <2>1
<1> QED
  BY <1>1, <1>9, <1>10, <1>11 DEF Committed, SameLent

TookFor(took, p) == took[<<p[1], p[2], "explicit">>] + took[<<p[1], p[2], "plan">>]

ReservedLent(d, d2, op, took) ==
  /\ d2 \in Tables /\ SameGrants(d, d2) /\ SameDirect(d, d2)
  /\ d2.used = d.used /\ d2.reserved = d.reserved /\ d2.lentUsed = d.lentUsed
  /\ d2.lentReserved = [a \in Allocations |-> d.lentReserved[a] + took[a]]
  /\ \A p \in Grants \X Entitlements : TookFor(took, p) > 0 => d.externalStatus[op][p] = "none"
  /\ \A o \in Ops : \A p \in Grants \X Entitlements :
       IF o = op /\ TookFor(took, p) > 0
       THEN d2.external[o][p] = TookFor(took, p) /\ d2.externalStatus[o][p] = "reserved"
       ELSE d2.external[o][p] = d.external[o][p] /\ d2.externalStatus[o][p] = d.externalStatus[o][p]

LEMMA ReserveExternalEffect ==
  ASSUME NEW d \in Tables, NEW op \in Ops, NEW grants \in SUBSET Grants, NEW cost \in Nat,
         NEW d2 \in ReserveExternal(d, op, grants, cost)
  PROVE  \E took : LentFits(d, grants, cost, took) /\ ReservedLent(d, d2, op, took)
<1> DEFINE Hit(t) == {p \in Grants \X Entitlements : TakenFor(t, p) > 0}
<1>1. PICK t \in LentSpreads(d, grants, cost) :
        /\ \A p \in Hit(t) : d.externalStatus[op][p] = "none"
        /\ d2 = [d EXCEPT
              !.lentReserved = [a \in Allocations |-> d.lentReserved[a] + Taken(t, a)],
              !.external[op] =
                [p \in DOMAIN d.external[op] |-> IF p \in Hit(t) THEN TakenFor(t, p) ELSE d.external[op][p]],
              !.externalStatus[op] =
                [p \in DOMAIN d.externalStatus[op] |->
                   IF p \in Hit(t) THEN "reserved" ELSE d.externalStatus[op][p]]]
  BY DEF ReserveExternal
<1>2. PICK took : took = LentTookOf(t) /\ LentFits(d, grants, cost, took)
  BY LentSpreadFits
<1>3. took \in [Allocations -> Nat] /\ \A a \in Allocations : Taken(t, a) = took[a]
  BY <1>2 DEF LentFits, LentTookOf
<1>4. \A p \in Grants \X Entitlements : TakenFor(t, p) = TookFor(took, p) /\ TookFor(took, p) \in Nat
  <2>1. ASSUME NEW p \in Grants \X Entitlements
        PROVE  <<p[1], p[2], "explicit">> \in Allocations /\ <<p[1], p[2], "plan">> \in Allocations
    BY DEF Allocations, Sources
  <2> QED
    BY <1>3, <2>1 DEF TakenFor, TookFor
<1>5. \A p \in Grants \X Entitlements : p \in Hit(t) <=> TookFor(took, p) > 0
  BY <1>4
<1> HIDE DEF Hit
<1> DEFINE P == Grants \X Entitlements
           external == [p \in P |-> IF p \in Hit(t) THEN TakenFor(t, p) ELSE d.external[op][p]]
           status == [p \in P |-> IF p \in Hit(t) THEN "reserved" ELSE d.externalStatus[op][p]]
<1>6. DOMAIN d.external[op] = P /\ DOMAIN d.externalStatus[op] = P
  BY DEF Tables
<1>7. external \in [P -> Nat] /\ status \in [P -> Status]
  BY <1>4 DEF Tables, Status
<1>8. /\ d2.lentReserved = [a \in Allocations |-> d.lentReserved[a] + Taken(t, a)]
      /\ d2.external = [d.external EXCEPT ![op] = external]
      /\ d2.externalStatus = [d.externalStatus EXCEPT ![op] = status]
      /\ SameGrants(d, d2) /\ SameDirect(d, d2) /\ d2.deny = d.deny
      /\ d2.used = d.used /\ d2.reserved = d.reserved /\ d2.lentUsed = d.lentUsed
  BY <1>1, <1>6 DEF Tables, SameGrants, SameDirect
<1>9. d2.lentReserved = [a \in Allocations |-> d.lentReserved[a] + took[a]]
  BY <1>3, <1>8
<1>10. d2 \in Tables
  <2>1. d2.lentReserved \in [Allocations -> Nat]
    BY <1>3, <1>9 DEF Tables
  <2>2. d2.external \in [Ops -> [P -> Nat]] /\ d2.externalStatus \in [Ops -> [P -> Status]]
    <3>1. d.external \in [Ops -> [P -> Nat]] /\ d.externalStatus \in [Ops -> [P -> Status]]
      BY DEF Tables
    <3> HIDE DEF external, status, P
    <3> QED
      BY <1>7, <1>8, <3>1
  <2> QED
    BY <1>1, <1>8, <2>1, <2>2 DEF Tables, SameGrants, SameDirect
<1>11. \A p \in P : TookFor(took, p) > 0 => d.externalStatus[op][p] = "none"
  BY <1>1, <1>5
<1>12. ASSUME NEW o \in Ops, NEW p \in P
       PROVE  IF o = op /\ TookFor(took, p) > 0
              THEN d2.external[o][p] = TookFor(took, p) /\ d2.externalStatus[o][p] = "reserved"
              ELSE d2.external[o][p] = d.external[o][p] /\ d2.externalStatus[o][p] = d.externalStatus[o][p]
  <2>1. CASE o # op
    BY <1>8, <2>1 DEF Tables
  <2>2. CASE o = op
    <3>1. d2.external[o] = external /\ d2.externalStatus[o] = status
      BY <1>8, <2>2 DEF Tables
    <3> QED
      BY <1>4, <1>5, <2>2, <3>1
  <2> QED
    BY <2>1, <2>2
<1> QED
  BY <1>2, <1>8, <1>9, <1>10, <1>11, <1>12 DEF ReservedLent

-----------------------------------------------------------------------------
(* Reserving and committing in one transaction. *)

\* Between transactions nothing is reserved by an operation.
AtRest(d) ==
  /\ d \in Tables
  /\ \A op \in Ops : d.directStatus[op] # "reserved"
  /\ \A op \in Ops : \A p \in Grants \X Entitlements : d.externalStatus[op][p] # "reserved"
  /\ \A a \in Allocations : d.lentReserved[a] = 0

ConsumedOwn(d, d2, op, took) ==
  /\ SameGrants(d, d2) /\ SameLent(d, d2) /\ d2.reserved = d.reserved
  /\ d2.used = [e \in Entitlements |-> d.used[e] + took[e]]
  /\ d2.direct = [d.direct EXCEPT ![op] = took]
  /\ d2.directStatus = [d.directStatus EXCEPT ![op] = "committed"]

LEMMA ConsumeOwnEffect ==
  ASSUME NEW d, AtRest(d), NEW op \in Ops, NEW cost \in Nat,
         NEW d2 \in ConsumeQuotas(d, op, {}, cost)
  PROVE  /\ AtRest(d2)
         /\ d.ledger[op]["reserve"] = 0 /\ d2.ledger[op]["reserve"] = cost
         /\ \A o \in Ops : o # op => d2.ledger[o] = d.ledger[o]
         /\ \E took : Fits(d, cost, took) /\ ConsumedOwn(d, d2, op, took)
<1> DEFINE W(x) == Withdraw(x, op, "commit", "committed", TRUE)
<1>1. PICK d1 \in ReserveOwn(d, op, cost) : d2 \in CommitExternal(W(d1), op)
  BY DEF ConsumeQuotas, ReserveQuotas, CommitQuotas
<1>2. d \in Tables
  BY DEF AtRest
<1>3. PICK took : Fits(d, cost, took) /\ Reserved(d, d1, op, took)
  BY <1>1, <1>2, ReserveOwnEffect
<1>4. took \in [Entitlements -> Nat]
  BY <1>3 DEF Fits
<1>5. d.ledger[op]["reserve"] = 0 /\ Logged(d, d1, op, "reserve", cost)
  BY <1>1, <1>2, ReserveOwnEffect
<1>6. d1 \in Tables /\ d1.directStatus[op] = "reserved" /\ d1.direct[op] = took
  BY <1>2, <1>3 DEF Reserved, Tables
<1>7. \A e \in Entitlements : d1.reserved[e] = d.reserved[e] + took[e] /\ d.reserved[e] \in Nat
  BY <1>2, <1>3 DEF Reserved, Tables
<1>8. \A e \in Entitlements : d1.direct[op][e] <= d1.reserved[e]
  BY <1>4, <1>6, <1>7
<1>9. PICK dw : dw = W(d1)
  OBVIOUS
<1>10. /\ Withdrawn(d1, dw, op, "committed", TRUE)
       /\ Logged(d1, dw, op, "commit", Total(took, Entitlements))
  <2>1. "commit" \in Kinds /\ "committed" \in Status
    BY DEF Kinds, Status
  <2> QED
    BY <1>6, <1>8, <1>9, <2>1, WithdrawEffect
<1> HIDE DEF W
<1>11. d2 \in CommitExternal(dw, op)
  BY <1>1, <1>9
<1>12. \A p \in Grants \X Entitlements : dw.externalStatus[op][p] # "reserved"
  BY <1>3, <1>10 DEF AtRest, Reserved, Withdrawn, SameLent
<1>13. /\ d2 \in Tables /\ SameGrants(dw, d2) /\ SameDirect(dw, d2) /\ SameLent(dw, d2)
       /\ d2.used = dw.used /\ d2.reserved = dw.reserved
  BY <1>10, <1>11, <1>12, NothingLent DEF Withdrawn
<1>14. d2.reserved = d.reserved
  <2>1. \A e \in Entitlements : d2.reserved[e] = d.reserved[e]
    BY <1>4, <1>6, <1>7, <1>10, <1>13 DEF Withdrawn
  <2> QED
    BY <1>2, <1>13, <2>1 DEF Tables
<1>15. d2.used = [e \in Entitlements |-> d.used[e] + took[e]]
  BY <1>3, <1>6, <1>10, <1>13 DEF Withdrawn, Reserved
<1>16. d2.direct = [d.direct EXCEPT ![op] = took]
  BY <1>3, <1>10, <1>13 DEF Withdrawn, Reserved, SameDirect
<1>17. d2.directStatus = [d.directStatus EXCEPT ![op] = "committed"]
  BY <1>2, <1>3, <1>10, <1>13 DEF Withdrawn, Reserved, SameDirect, Tables
<1>18. SameGrants(d, d2) /\ SameLent(d, d2)
  BY <1>3, <1>10, <1>13 DEF Withdrawn, Reserved, SameGrants, SameLent
<1>19. d2.ledger[op]["reserve"] = cost /\ \A o \in Ops : o # op => d2.ledger[o] = d.ledger[o]
  BY <1>2, <1>5, <1>10, <1>13 DEF Logged, SameDirect, Tables, Kinds
<1>20. AtRest(d2)
  <2>1. \A o \in Ops : d2.directStatus[o] # "reserved"
    BY <1>2, <1>17 DEF AtRest, Tables
  <2> QED
    BY <1>13, <1>18, <2>1 DEF AtRest, SameLent
<1> QED
  BY <1>3, <1>5, <1>14, <1>15, <1>16, <1>17, <1>18, <1>19, <1>20 DEF ConsumedOwn

\* What a consumption took moves from reserved to used, of the owner as well.
ConsumedLent(d, d2, took) ==
  /\ SameGrants(d, d2) /\ SameDirect(d, d2)
  /\ \A a \in Allocations : d2.lentUsed[a] = d.lentUsed[a] + took[a]
  /\ \A e \in Entitlements :
       LET due == Total(OfGrants(took, e), Grants)
       IN /\ due \in Nat /\ due <= d.reserved[e]
          /\ d2.reserved[e] = d.reserved[e] - due
          /\ d2.used[e] = d.used[e] + due

\* What a reservation on grants will take from the owner when it is committed.
LEMMA DueOfReserved ==
  ASSUME NEW d, AtRest(d), NEW op \in Ops, NEW d1, NEW took \in [Allocations -> Nat],
         ReservedLent(d, d1, op, took)
  PROVE  /\ \A p \in Grants \X Entitlements :
              LentHeld(d1, op)[p] = TookFor(took, p) /\ TookFor(took, p) \in Nat
         /\ \A e \in Entitlements : DueOf(d1, op, e) = Total(OfGrants(took, e), Grants)
<1>1. ASSUME NEW p \in Grants \X Entitlements
      PROVE  LentHeld(d1, op)[p] = TookFor(took, p) /\ TookFor(took, p) \in Nat
  <2>1. TookFor(took, p) \in Nat
    BY DEF TookFor, Allocations, Sources
  <2>2. CASE TookFor(took, p) > 0
    BY <2>1, <2>2 DEF ReservedLent, LentHeld
  <2>3. CASE TookFor(took, p) = 0
    <3>1. d1.externalStatus[op][p] # "reserved"
      BY <2>3 DEF ReservedLent, AtRest
    <3> QED
      BY <2>3, <3>1 DEF LentHeld
  <2> QED
    BY <2>1, <2>2, <2>3
<1>2. ASSUME NEW e \in Entitlements PROVE DueOf(d1, op, e) = Total(OfGrants(took, e), Grants)
  <2>1. \A g \in Grants : [h \in Grants |-> LentHeld(d1, op)[<<h, e>>]][g] = OfGrants(took, e)[g]
    BY <1>1 DEF TookFor, OfGrants
  <2> QED
    BY <2>1, TablesAssumption, TotalSame DEF DueOf
<1> QED
  BY <1>1, <1>2

LEMMA ConsumeLentEffect ==
  ASSUME NEW d, AtRest(d), NEW op \in Ops, NEW cost \in Nat,
         NEW grants \in SUBSET Grants, grants # {},
         NEW d2 \in ConsumeQuotas(d, op, grants, cost)
  PROVE  /\ AtRest(d2)
         /\ \A o \in Ops : \A p \in Grants \X Entitlements :
              o # op => d2.externalStatus[o][p] = d.externalStatus[o][p]
         /\ \E took : LentFits(d, grants, cost, took) /\ ConsumedLent(d, d2, took)
<1>1. PICK d1 \in ReserveExternal(d, op, grants, cost) :
        d2 \in CommitExternal(Withdraw(d1, op, "commit", "committed", TRUE), op)
  BY DEF ConsumeQuotas, ReserveQuotas, CommitQuotas
<1>2. d \in Tables
  BY DEF AtRest
<1>3. PICK took : LentFits(d, grants, cost, took) /\ ReservedLent(d, d1, op, took)
  BY <1>1, <1>2, ReserveExternalEffect
<1>4. d1.directStatus[op] # "reserved"
  BY <1>3 DEF AtRest, ReservedLent, SameDirect
<1>5. Withdraw(d1, op, "commit", "committed", TRUE) = d1
  BY <1>4 DEF Withdraw
<1>6. d1 \in Tables /\ Committed(d1, d2, op)
  BY <1>1, <1>3, <1>5, CommitExternalEffect DEF ReservedLent
<1>7. took \in [Allocations -> Nat]
  BY <1>3 DEF LentFits
<1>8. \A p \in Grants \X Entitlements :
        LentHeld(d1, op)[p] = TookFor(took, p) /\ TookFor(took, p) \in Nat
  BY <1>3, <1>7, DueOfReserved
<1>9. \A a \in Allocations : d1.lentReserved[a] = took[a]
  BY <1>3, <1>7 DEF ReservedLent, AtRest
<1>10. ASSUME NEW a \in Allocations PROVE PartOf(d1, op, a) = took[a]
  <2>1. PICK g \in Grants, e \in Entitlements, s \in Sources : a = <<g, e, s>>
    BY DEF Allocations
  <2>2. PICK held : held = LentHeld(d1, op)[<<g, e>>]
    OBVIOUS
  <2>3. held = took[<<g, e, "explicit">>] + took[<<g, e, "plan">>]
    BY <1>8, <2>2 DEF TookFor
  <2>4. took[<<g, e, "explicit">>] = 0 \/ took[<<g, e, "plan">>] = 0
    BY <1>3 DEF LentFits
  <2>5. took[<<g, e, "explicit">>] \in Nat /\ took[<<g, e, "plan">>] \in Nat
    BY <1>7 DEF Allocations, Sources
  <2>6. PartOf(d1, op, a) = IF held > 0 /\ took[a] >= held THEN held ELSE 0
    BY <1>9, <2>1, <2>2 DEF PartOf
  <2> QED
    BY <2>1, <2>3, <2>4, <2>5, <2>6 DEF Sources
<1>11. \A e \in Entitlements : DueOf(d1, op, e) = Total(OfGrants(took, e), Grants)
  BY <1>3, <1>7, DueOfReserved
<1>12. SameGrants(d, d2) /\ SameDirect(d, d2)
  BY <1>3, <1>6 DEF ReservedLent, Committed, SameGrants, SameDirect
<1>13. d1.used = d.used /\ d1.reserved = d.reserved /\ d1.lentUsed = d.lentUsed
  BY <1>3 DEF ReservedLent
<1>14. ConsumedLent(d, d2, took)
  BY <1>6, <1>10, <1>11, <1>12, <1>13 DEF Committed, ConsumedLent
<1>15. \A a \in Allocations : d2.lentReserved[a] = 0
  BY <1>6, <1>7, <1>9, <1>10 DEF Committed
<1>16. ASSUME NEW o \in Ops, NEW p \in Grants \X Entitlements PROVE d2.externalStatus[o][p] # "reserved"
  <2>1. CASE o # op
    BY <1>3, <1>6, <2>1 DEF ReservedLent, Committed, AtRest
  <2>2. CASE o = op
    BY <1>6, <2>2 DEF Committed
  <2> QED
    BY <2>1, <2>2
<1>17. AtRest(d2)
  BY <1>6, <1>12, <1>15, <1>16 DEF AtRest, Committed, SameDirect
<1>18. ASSUME NEW o \in Ops, NEW p \in Grants \X Entitlements, o # op
       PROVE  d2.externalStatus[o][p] = d.externalStatus[o][p]
  BY <1>3, <1>6, <1>18 DEF ReservedLent, Committed
<1> QED
  BY <1>3, <1>14, <1>17, <1>18

\* A consumption takes its cost off the owner, whoever pays.
LEMMA ConsumeTotal ==
  ASSUME NEW d, AtRest(d), NEW op \in Ops, NEW cost \in Nat, NEW grants \in SUBSET Grants,
         NEW d2 \in ConsumeQuotas(d, op, grants, cost)
  PROVE  AtRest(d2) /\ Total(d2.used, Entitlements) = Total(d.used, Entitlements) + cost
<1>1. IsFiniteSet(Entitlements)
  BY TablesAssumption
<1>2. d.used \in [Entitlements -> Nat]
  BY DEF AtRest, Tables
<1>3. CASE grants = {}
  <2>1. AtRest(d2) /\ \E took : Fits(d, cost, took) /\ ConsumedOwn(d, d2, op, took)
    BY <1>3, ConsumeOwnEffect
  <2>2. PICK took : Fits(d, cost, took) /\ ConsumedOwn(d, d2, op, took)
    BY <2>1
  <2>3. \A e \in Entitlements : d.used[e] \in Int /\ took[e] \in Int /\ d2.used[e] = d.used[e] + took[e]
    BY <1>2, <2>2 DEF Fits, ConsumedOwn
  <2>4. Total(took, Entitlements) = cost
    BY <2>2 DEF Fits
  <2> QED
    BY <1>1, <2>1, <2>3, <2>4, TotalAdd
<1>4. CASE grants # {}
  <2>1. AtRest(d2) /\ \E took : LentFits(d, grants, cost, took) /\ ConsumedLent(d, d2, took)
    BY <1>4, ConsumeLentEffect
  <2>2. PICK took : LentFits(d, grants, cost, took) /\ ConsumedLent(d, d2, took)
    BY <2>1
  <2>3. PICK due : due = [e \in Entitlements |-> Total(OfGrants(took, e), Grants)]
    OBVIOUS
  <2>4. \A e \in Entitlements : d.used[e] \in Int /\ due[e] \in Int /\ d2.used[e] = d.used[e] + due[e]
    BY <1>2, <2>2, <2>3 DEF ConsumedLent
  <2>5. Total(due, Entitlements) = cost
    <3>1. \A a \in Allocations : took[a] \in Int
      BY <2>2 DEF LentFits
    <3> QED
      BY <2>2, <2>3, <3>1, TotalOfAllocations DEF LentFits
  <2> QED
    BY <1>1, <2>1, <2>4, <2>5, TotalAdd
<1> QED
  BY <1>3, <1>4

\* Grants come and go without any use.
LEMMA CreateAtRest ==
  ASSUME NEW d, AtRest(d), NEW g \in Grants,
         NEW bundle \in [plan : Nat, explicit : Nat, deny : BOOLEAN],
         NEW d2 \in CreateExternalGrant(d, g, bundle)
  PROVE  AtRest(d2) /\ d2.used = d.used
<1>1. d \in Tables
  BY DEF AtRest
<1>2. Created(d, d2, g)
  BY <1>1, CreateEffect
<1> QED
  BY <1>2 DEF Created, SameUse, AtRest

LEMMA RevokeAtRest ==
  ASSUME NEW d, AtRest(d), NEW g \in Grants, NEW d2 \in RevokeExternalGrant(d, g)
  PROVE  AtRest(d2) /\ d2.used = d.used
<1>1. d \in Tables
  BY DEF AtRest
<1>2. Revoked(d, d2, g)
  BY <1>1, RevokeEffect
<1> QED
  BY <1>2 DEF Revoked, SameUse, AtRest

LEMMA EmptyAtRest == AtRest(EmptyTables) /\ Total(EmptyTables.used, Entitlements) = 0
<1>1. EmptyTables.deny \in [Grants -> BOOLEAN] /\ EmptyTables.denied \in BOOLEAN
  BY Zenon DEF EmptyTables
<1>2. EmptyTables \in Tables
  BY <1>1 DEF EmptyTables, Tables, Status
<1>3. \A e \in Entitlements : EmptyTables.used[e] = 0
  BY DEF EmptyTables
<1>4. AtRest(EmptyTables)
  BY <1>2 DEF AtRest, EmptyTables
<1> QED
  BY <1>3, <1>4, TablesAssumption, TotalZero

================================================================================
