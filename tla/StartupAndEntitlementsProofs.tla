--------------------- MODULE StartupAndEntitlementsProofs ---------------------
(***************************************************************************)
(* What Startup and Entitlements keep, whatever their constants.           *)
(*                                                                         *)
(* Startup.  Whatever number of processes, migrations and faults: the      *)
(* schema is what the history says, and only a whole schema is served.  A  *)
(* commit relies on two things that the loop made sure of earlier, the     *)
(* lock it holds and the migrations before its own; LoopState says that    *)
(* both still stand.                                                       *)
(*                                                                         *)
(* Entitlements.  The counters of a row are sums over everybody who names  *)
(* it, and the rows come and go under their feet.  Two facts carry it: a   *)
(* row that somebody holds counts it, so that the clearing of a plan       *)
(* passes it by; and the ledger keeps the id of every operation that has a *)
(* reservation, so that none is written over.  What a user does moves one  *)
(* row's counters together with one user's record; what a command does     *)
(* leaves the counters of rows that stay and deletes none that counts.     *)
(***************************************************************************)
EXTENDS Startup, Entitlements, FiniteSetTheorems, TLAPS

-----------------------------------------------------------------------------
(* Startup. *)

LEMMA InitInv == Init => IInv
  BY StartupAssumption DEF Init, IInv, TypeOK, Places, LoopState, SchemaFollowsHistory

\* A process that ends takes its lock with it and leaves no promise behind.
LEMMA ExitInv ==
  ASSUME IInv, NEW p \in Processes, Exit(p), faults' \in 0 .. MaxFaults
  PROVE  IInv'
<1>1. TypeOK'
  <2>1. at' \in [Processes -> Places]
    BY DEF IInv, TypeOK, Exit, Places
  <2>2. flying' \in [Processes -> 0 .. MaxRequests]
    BY StartupAssumption DEF IInv, TypeOK, Exit
  <2> QED
    BY <2>1, <2>2 DEF IInv, TypeOK, Exit
<1>2. \A q \in Processes : at'[q] = IF q = p THEN "down" ELSE at[q]
  BY DEF IInv, TypeOK, Exit
<1>3. LoopState'
  BY <1>2, StartupAssumption DEF IInv, TypeOK, LoopState, Exit
<1>4. SchemaFollowsHistory'
  BY <1>2 DEF IInv, SchemaFollowsHistory, Exit
<1> QED
  BY <1>1, <1>3, <1>4 DEF IInv

\* A process that moves on its own: nothing shared is touched.
LEMMA MoveInv ==
  ASSUME IInv, NEW p \in Processes, NEW to \in Places \ {"record"}, at[p] # "record",
         at' = [at EXCEPT ![p] = to], next' \in [Processes -> 1 .. Last + 1],
         \A q \in Processes : q # p => next'[q] = next[q],
         flying' \in [Processes -> 0 .. MaxRequests], faults' \in 0 .. MaxFaults,
         UNCHANGED <<history, schema, writer>>,
         to \in {"check", "apply"} => 1 .. next'[p] - 1 \subseteq history,
         to = "apply" => next'[p] <= Last,
         to \in {"serving", "draining"} => history = 1 .. Last
  PROVE  IInv'
<1>1. TypeOK'
  BY DEF IInv, TypeOK
<1>2. \A q \in Processes : at'[q] = IF q = p THEN to ELSE at[q]
  BY DEF IInv, TypeOK
<1>3. LoopState'
  BY <1>2 DEF IInv, LoopState, Places
<1>4. SchemaFollowsHistory'
  BY <1>2 DEF IInv, SchemaFollowsHistory
<1> QED
  BY <1>1, <1>3, <1>4 DEF IInv

LEMMA ExecuteInv ==
  ASSUME IInv, NEW p \in Processes, Execute(p)
  PROVE  IInv'
<1>1. TypeOK'
  BY DEF IInv, TypeOK, Execute, Move, Places
<1>2. \A q \in Processes : at'[q] = IF q = p THEN "record" ELSE at[q]
  BY DEF IInv, TypeOK, Execute, Move
<1>3. LoopState'
  BY <1>2, StartupAssumption DEF IInv, TypeOK, LoopState, Execute, Move
<1>4. SchemaFollowsHistory'
  BY <1>2 DEF IInv, SchemaFollowsHistory, Execute
<1> QED
  BY <1>1, <1>3, <1>4 DEF IInv

LEMMA CommitInv ==
  ASSUME IInv, NEW p \in Processes, Commit(p)
  PROVE  IInv'
<1>1. /\ at[p] = "record" /\ writer = p /\ next[p] \in 1 .. Last
      /\ 1 .. next[p] - 1 \subseteq history /\ schema = history
  BY StartupAssumption DEF IInv, TypeOK, LoopState, SchemaFollowsHistory, Commit, Move
<1>2. /\ \A q \in Processes : at'[q] = IF q = p THEN "check" ELSE at[q]
      /\ \A q \in Processes : next'[q] = IF q = p THEN next[p] + 1 ELSE next[q]
      /\ writer' = Nobody
      /\ history' = history \union {next[p]} /\ schema' = history'
  BY <1>1 DEF IInv, TypeOK, Commit, Move
<1>3. TypeOK'
  <2>1. next' \in [Processes -> 1 .. Last + 1]
    BY <1>1, StartupAssumption DEF IInv, TypeOK, Commit
  <2> QED
    BY <1>1, <1>2, <2>1 DEF IInv, TypeOK, Commit, Move, Places
<1>4. LoopState'
  <2> SUFFICES ASSUME NEW q \in Processes
               PROVE  /\ at'[q] = "record" <=> writer' = q
                      /\ at'[q] \in {"check", "apply", "record"} => 1 .. next'[q] - 1 \subseteq history'
                      /\ at'[q] \in {"apply", "record"} => next'[q] <= Last
                      /\ at'[q] \in {"serving", "draining"} => history' = 1 .. Last
    BY DEF LoopState
  <2>1. CASE q = p
    BY <1>1, <1>2, <2>1, StartupAssumption DEF IInv, TypeOK
  <2>2. CASE q # p
    BY <1>1, <1>2, <2>2, StartupAssumption DEF IInv, LoopState
  <2> QED
    BY <2>1, <2>2
<1>5. SchemaFollowsHistory'
  <2>1. \A m, n \in 1 .. Last : m < n /\ n \in history' => m \in history'
    BY <1>1, <1>2 DEF IInv, SchemaFollowsHistory
  <2>2. \A q \in Processes : at'[q] \in {"serving", "draining"} => schema' = 1 .. Last
    BY <1>1, <1>2 DEF IInv, LoopState
  <2> QED
    BY <1>2, <2>1, <2>2 DEF SchemaFollowsHistory
<1> QED
  BY <1>3, <1>4, <1>5 DEF IInv

LEMMA InvStep == IInv /\ [Next]_vars => IInv'
<1> SUFFICES ASSUME IInv, [Next]_vars PROVE IInv'
  OBVIOUS
<1> USE StartupAssumption
<1>1. CASE UNCHANGED vars
  BY <1>1 DEF vars, IInv, TypeOK, LoopState, SchemaFollowsHistory
<1>2. ASSUME NEW p \in Processes, Start(p) PROVE IInv'
  BY <1>2, MoveInv DEF Start, Move, Places, IInv, TypeOK
<1>3. ASSUME NEW p \in Processes, Advance(p) PROVE IInv'
  <2>1. CASE Open(p)
    <3>1. next' \in [Processes -> 1 .. Last + 1] /\ next'[p] = 1
          /\ \A q \in Processes : q # p => next'[q] = next[q]
      BY <2>1 DEF Open, IInv, TypeOK
    <3>2. 1 .. next'[p] - 1 \subseteq history
      BY <3>1
    <3> QED
      BY <2>1, <3>1, <3>2, MoveInv DEF Open, Move, Places, IInv, TypeOK
  <2>2. CASE SkipApplied(p)
    <3>1. next' \in [Processes -> 1 .. Last + 1] /\ next'[p] = next[p] + 1
          /\ \A q \in Processes : q # p => next'[q] = next[q]
      BY <2>2 DEF SkipApplied, IInv, TypeOK
    <3>2. 1 .. next'[p] - 1 \subseteq history
      BY <2>2, <3>1 DEF SkipApplied, Applied, Move, IInv, TypeOK, LoopState
    <3> QED
      BY <2>2, <3>1, <3>2, MoveInv DEF SkipApplied, Move, Places, IInv, TypeOK
  <2>3. CASE FindMissing(p)
    <3>1. 1 .. next[p] - 1 \subseteq history
      BY <2>3 DEF FindMissing, Move, IInv, LoopState
    <3> QED
      BY <2>3, <3>1, MoveInv DEF FindMissing, Move, Places, IInv, TypeOK
  <2>4. CASE Listen(p)
    <3>1. history = 1 .. Last
      <4>1. 1 .. next[p] - 1 \subseteq history /\ history \subseteq 1 .. Last
        BY <2>4 DEF Listen, Move, IInv, TypeOK, LoopState
      <4>2. next[p] \in 1 .. Last + 1 /\ next[p] > Last
        BY <2>4 DEF Listen, IInv, TypeOK
      <4>3. next[p] - 1 = Last
        BY <4>2
      <4> QED
        BY <4>1, <4>3
    <3> QED
      BY <2>4, <3>1, MoveInv DEF Listen, Move, Places, IInv, TypeOK
  <2>5. CASE ExecuteFails(p) \/ ListenFails(p) \/ Drained(p) \/ ShutdownTimeout(p)
    BY <2>5, ExitInv DEF ExecuteFails, ListenFails, Drained, ShutdownTimeout, IInv, TypeOK
  <2> QED
    BY <1>3, <2>1, <2>2, <2>3, <2>4, <2>5, ExecuteInv, CommitInv DEF Advance
<1>4. ASSUME NEW p \in Processes, BusyTimeout(p) \/ Crash(p) PROVE IInv'
  <2>1. Exit(p) /\ faults' \in 0 .. MaxFaults
    BY <1>4 DEF BusyTimeout, Crash, Fault, IInv, TypeOK
  <2> QED
    BY <2>1, ExitInv
<1>5. ASSUME NEW p \in Processes, RequestComes(p) \/ RequestEnds(p) PROVE IInv'
  <2>1. flying' \in [Processes -> 0 .. MaxRequests]
    BY <1>5 DEF RequestComes, RequestEnds, IInv, TypeOK
  <2>2. UNCHANGED <<at, next, history, schema, writer, faults>>
    BY <1>5 DEF RequestComes, RequestEnds
  <2> QED
    BY <2>1, <2>2 DEF IInv, TypeOK, LoopState, SchemaFollowsHistory
<1>6. ASSUME NEW p \in Processes, Signal(p) PROVE IInv'
  <2>1. history = 1 .. Last
    BY <1>6 DEF Signal, Move, IInv, LoopState
  <2>2. faults' \in 0 .. MaxFaults
    BY <1>6 DEF Signal, Fault, IInv, TypeOK
  <2> QED
    BY <1>6, <2>1, <2>2, MoveInv DEF Signal, Move, Places, IInv, TypeOK
<1> QED
  BY <1>1, <1>2, <1>3, <1>4, <1>5, <1>6 DEF Next

\* Migrations race and die anywhere, yet each is applied whole and once, in its
\* order, and no process serves on less than the whole schema.
THEOREM MigrationsSound == Spec => []SchemaFollowsHistory
<1>1. IInv => SchemaFollowsHistory
  BY DEF IInv
<1> QED
  BY <1>1, InitInv, InvStep, PTL DEF Spec

-----------------------------------------------------------------------------
(* Entitlements: counting the users of a row. *)

Holders(S, column, value) == {s \in S : column[s] = value}

Users(id, status) == Holders(Ops, reservation, [row |-> id, status |-> status])
Borrowers(id, status) == Holders(Grants, allocation, [row |-> id, status |-> status])
UsedOf(id) == Cardinality(Users(id, "committed")) + Cardinality(Borrowers(id, "used"))
HeldOf(id) == Cardinality(Users(id, "reserved")) + Cardinality(Borrowers(id, "lent"))

Counted ==
  \A id \in RowIds :
    IF id \in DOMAIN quotas THEN quotas[id].used = UsedOf(id) /\ quotas[id].reserved = HeldOf(id)
    ELSE UsedOf(id) = 0 /\ HeldOf(id) = 0

\* An operation that ever reserved is in the ledger, so that no reservation is
\* written over.
LedgerKeepsIds == \A o \in Ops : reservation[o] # Absent => o \in ledger

SubjectInv == SubjectTypeOK /\ FeaturesFollowPlan /\ QuotasFollowPlan /\ Counted /\ LedgerKeepsIds

LEMMA CountsAreNat ==
  ASSUME NEW id, NEW status
  PROVE  /\ IsFiniteSet(Users(id, status)) /\ Cardinality(Users(id, status)) \in Nat
         /\ IsFiniteSet(Borrowers(id, status)) /\ Cardinality(Borrowers(id, status)) \in Nat
<1>1. Users(id, status) \subseteq Ops /\ Borrowers(id, status) \subseteq Grants
  BY DEF Users, Borrowers, Holders
<1> QED
  BY <1>1, EntitlementsAssumption, FS_Subset, FS_CardinalityType

LEMMA UsesAreNat ==
  ASSUME NEW id
  PROVE  UsedOf(id) \in Nat /\ HeldOf(id) \in Nat
BY CountsAreNat DEF UsedOf, HeldOf

\* Somebody who holds something of a row is counted.
LEMMA HolderCounts ==
  /\ \A id, status : \A o \in Users(id, status) : Cardinality(Users(id, status)) >= 1
  /\ \A id, status : \A g \in Borrowers(id, status) : Cardinality(Borrowers(id, status)) >= 1
<1>1. ASSUME NEW S, IsFiniteSet(S), NEW x \in S PROVE Cardinality(S) >= 1
  BY <1>1, FS_EmptySet, FS_CardinalityType
<1> QED
  BY <1>1, CountsAreNat

DiffersAt(S, before, after, x) == \A y \in S \ {x} : after[y] = before[y]

CountFollows(S, before, after, x, value) ==
  Cardinality(Holders(S, after, value)) =
    Cardinality(Holders(S, before, value))
    - (IF before[x] = value THEN 1 ELSE 0) + (IF after[x] = value THEN 1 ELSE 0)

LEMMA CountChange ==
  ASSUME NEW S, IsFiniteSet(S), NEW r, NEW r2, NEW o \in S, DiffersAt(S, r, r2, o), NEW x
  PROVE  CountFollows(S, r, r2, o, x)
<1> DEFINE rest == {s \in S \ {o} : r[s] = x}
<1>1. IsFiniteSet(rest) /\ o \notin rest
  BY FS_Subset
<1>2. Cardinality(rest) \in Nat /\ Cardinality(rest \union {o}) = Cardinality(rest) + 1
  BY <1>1, FS_CardinalityType, FS_AddElement
<1> DEFINE before == Holders(S, r, x)
<1> DEFINE after == Holders(S, r2, x)
<1>3. before = IF r[o] = x THEN rest \union {o} ELSE rest
  BY DEF Holders, DiffersAt
<1>4. after = IF r2[o] = x THEN rest \union {o} ELSE rest
  BY DEF Holders, DiffersAt
<1> HIDE DEF rest, before, after
<1>6. Cardinality(before) = Cardinality(rest) + (IF r[o] = x THEN 1 ELSE 0)
  BY <1>2, <1>3
<1>7. Cardinality(after) = Cardinality(rest) + (IF r2[o] = x THEN 1 ELSE 0)
  BY <1>2, <1>4
<1>8. Cardinality(after) = Cardinality(before) - (IF r[o] = x THEN 1 ELSE 0) + (IF r2[o] = x THEN 1 ELSE 0)
  BY <1>2, <1>6, <1>7
<1> QED
  BY <1>8 DEF before, after, CountFollows

UserChange(o, row, id, status) ==
  Cardinality(Users(id, status)') =
    Cardinality(Users(id, status))
    - (IF reservation[o] = [row |-> id, status |-> status] THEN 1 ELSE 0)
    + (IF row = [row |-> id, status |-> status] THEN 1 ELSE 0)

\* An operation's reservation changes and nothing else does.
LEMMA UserChanges ==
  ASSUME SubjectTypeOK, NEW o \in Ops, NEW row, reservation' = [reservation EXCEPT ![o] = row],
         NEW id, NEW status
  PROVE  UserChange(o, row, id, status)
<1>2. reservation'[o] = row /\ DiffersAt(Ops, reservation, reservation', o)
  BY DEF SubjectTypeOK, DiffersAt
<1>3. Users(id, status) = Holders(Ops, reservation, [row |-> id, status |-> status])
  BY DEF Users
<1>4. Users(id, status)' = Holders(Ops, reservation', [row |-> id, status |-> status])
  BY DEF Users, Holders
<1> DEFINE value == [row |-> id, status |-> status]
<1>5. CountFollows(Ops, reservation, reservation', o, value)
  <2> HIDE DEF value
  <2> QED
    BY <1>2, EntitlementsAssumption, CountChange
<1> QED
  BY <1>2, <1>3, <1>4, <1>5 DEF CountFollows, UserChange

BorrowerChange(g, row, id, status) ==
  Cardinality(Borrowers(id, status)') =
    Cardinality(Borrowers(id, status))
    - (IF allocation[g] = [row |-> id, status |-> status] THEN 1 ELSE 0)
    + (IF row = [row |-> id, status |-> status] THEN 1 ELSE 0)

LEMMA BorrowerChanges ==
  ASSUME SubjectTypeOK, NEW g \in Grants, NEW row, allocation' = [allocation EXCEPT ![g] = row],
         NEW id, NEW status
  PROVE  BorrowerChange(g, row, id, status)
<1>2. allocation'[g] = row /\ DiffersAt(Grants, allocation, allocation', g)
  BY DEF SubjectTypeOK, DiffersAt
<1>3. Borrowers(id, status) = Holders(Grants, allocation, [row |-> id, status |-> status])
  BY DEF Borrowers
<1>4. Borrowers(id, status)' = Holders(Grants, allocation', [row |-> id, status |-> status])
  BY DEF Borrowers, Holders
<1> DEFINE value == [row |-> id, status |-> status]
<1>5. CountFollows(Grants, allocation, allocation', g, value)
  <2> HIDE DEF value
  <2> QED
    BY <1>2, EntitlementsAssumption, CountChange
<1> QED
  BY <1>2, <1>3, <1>4, <1>5 DEF CountFollows, BorrowerChange

-----------------------------------------------------------------------------
(* Entitlements: the users of the rows. *)

RowWith(id, u, h) ==
  [effect |-> quotas[id].effect, limit |-> quotas[id].limit, used |-> quotas[id].used + u,
   reserved |-> quotas[id].reserved + h, period |-> quotas[id].period]

\* One row's counters move by u and h.
CanMove(id, u, h) ==
  /\ quotas[id].used + u \in Nat /\ quotas[id].reserved + h \in Nat
  /\ quotas[id].used + u + quotas[id].reserved + h <= quotas[id].limit

Counters(id, u, h) == CanMove(id, u, h) /\ quotas' = [quotas EXCEPT ![id] = RowWith(id, u, h)]

LEMMA RowTypes ==
  ASSUME SubjectTypeOK, NEW id \in DOMAIN quotas
  PROVE  /\ id \in RowIds /\ quotas[id] \in Rows
         /\ quotas[id].used \in Nat /\ quotas[id].reserved \in Nat /\ quotas[id].limit \in Nat
         /\ quotas[id].used + quotas[id].reserved <= quotas[id].limit
         /\ quotas[id] = [effect |-> quotas[id].effect, limit |-> quotas[id].limit,
                          used |-> quotas[id].used, reserved |-> quotas[id].reserved,
                          period |-> quotas[id].period]
<1>1. id \in RowIds /\ quotas[id] \in Rows
  BY DEF SubjectTypeOK, Range
<1> QED
  BY <1>1 DEF SubjectTypeOK, Rows

LEMMA PlanRowIds ==
  ASSUME NEW s, NEW plan, NEW p
  PROVE  /\ DOMAIN PlanQuotas(s, plan, p) = {s} \X (DOMAIN QuotaRules[plan]) \X {p}
         /\ DOMAIN PlanFeatures(s, plan) = {s} \X (DOMAIN FeatureRules[plan])
BY DEF PlanQuotas, PlanFeatures

LEMMA PlanRow ==
  ASSUME NEW s, NEW plan, NEW p, NEW id \in DOMAIN PlanQuotas(s, plan, p)
  PROVE  /\ id[1] = s /\ id[2] \in DOMAIN QuotaRules[plan]
         /\ PlanQuotas(s, plan, p)[id].effect = QuotaRules[plan][id[2]].effect
         /\ PlanQuotas(s, plan, p)[id].limit = QuotaRules[plan][id[2]].limit
         /\ PlanQuotas(s, plan, p)[id].used = 0 /\ PlanQuotas(s, plan, p)[id].reserved = 0
         /\ PlanQuotas(s, plan, p)[id] =
              [effect |-> QuotaRules[plan][id[2]].effect, limit |-> QuotaRules[plan][id[2]].limit,
               used |-> 0, reserved |-> 0, period |-> p]
BY DEF PlanQuotas

Records(statuses) == {Absent} \union [row : RowIds, status : statuses]
OpRecords == Records({"reserved", "committed", "released"})
GrantRecords == Records({"lent", "used", "returned"})

\* What a user of a row leaves in order, if the counts of its users move likewise.
LEMMA UserStep ==
  ASSUME SubjectInv, NEW id \in DOMAIN quotas, NEW u \in Int, NEW h \in Int, Counters(id, u, h),
         \A x \in RowIds : /\ UsedOf(x)' = UsedOf(x) + (IF x = id THEN u ELSE 0)
                           /\ HeldOf(x)' = HeldOf(x) + (IF x = id THEN h ELSE 0),
         reservation' \in [Ops -> OpRecords], allocation' \in [Grants -> GrantRecords],
         ledger' \subseteq Ops, LedgerKeepsIds', UNCHANGED <<subscription, features, now>>
  PROVE  SubjectInv'
<1>1. /\ id \in RowIds /\ quotas[id] \in Rows
      /\ quotas[id].used \in Nat /\ quotas[id].reserved \in Nat /\ quotas[id].limit \in Nat
  BY RowTypes DEF SubjectInv
<1> DEFINE new == [effect |-> quotas[id].effect, limit |-> quotas[id].limit,
                   used |-> quotas[id].used + u, reserved |-> quotas[id].reserved + h,
                   period |-> quotas[id].period]
<1>2. /\ new \in Rows /\ new.used + new.reserved <= new.limit
      /\ new.used = quotas[id].used + u /\ new.reserved = quotas[id].reserved + h
      /\ new.effect = quotas[id].effect /\ new.limit = quotas[id].limit
  BY <1>1 DEF Counters, CanMove, Rows
<1>3. DOMAIN quotas' = DOMAIN quotas /\ \A x \in DOMAIN quotas : quotas'[x] = IF x = id THEN new ELSE quotas[x]
  BY DEF Counters, RowWith
<1> HIDE DEF new
<1>4. SubjectTypeOK'
  <2>1. Range(quotas') \subseteq Rows
    BY <1>2, <1>3 DEF Range, SubjectInv, SubjectTypeOK
  <2>2. \A x \in DOMAIN quotas' : quotas'[x].used + quotas'[x].reserved <= quotas'[x].limit
    BY <1>2, <1>3 DEF SubjectInv, SubjectTypeOK
  <2> QED
    BY <1>3, <2>1, <2>2 DEF SubjectInv, SubjectTypeOK, OpRecords, GrantRecords, Records
<1>5. QuotasFollowPlan'
  <2> SUFFICES ASSUME NEW s \in DOMAIN subscription, NEW p, p = subscription[s].period,
                      NEW x \in DOMAIN PlanQuotas(s, subscription[s].plan, p)
               PROVE  /\ x \in DOMAIN quotas'
                      /\ quotas'[x].effect = PlanQuotas(s, subscription[s].plan, p)[x].effect
                      /\ quotas'[x].limit = PlanQuotas(s, subscription[s].plan, p)[x].limit
    BY DEF QuotasFollowPlan
  <2>1. /\ x \in DOMAIN quotas
        /\ quotas[x].effect = PlanQuotas(s, subscription[s].plan, p)[x].effect
        /\ quotas[x].limit = PlanQuotas(s, subscription[s].plan, p)[x].limit
    BY DEF SubjectInv, QuotasFollowPlan
  <2>2. quotas'[x].effect = quotas[x].effect /\ quotas'[x].limit = quotas[x].limit
    BY <1>2, <1>3, <2>1
  <2> QED
    BY <1>3, <2>1, <2>2
<1>6. FeaturesFollowPlan'
  BY DEF SubjectInv, FeaturesFollowPlan, PlanFeatures, Restrict
<1>7. Counted'
  <2> SUFFICES ASSUME NEW x \in RowIds
               PROVE  IF x \in DOMAIN quotas' THEN quotas'[x].used = UsedOf(x)' /\ quotas'[x].reserved = HeldOf(x)'
                      ELSE UsedOf(x)' = 0 /\ HeldOf(x)' = 0
    BY DEF Counted, RowIds, Sources
  <2>1. /\ UsedOf(x)' = UsedOf(x) + (IF x = id THEN u ELSE 0)
        /\ HeldOf(x)' = HeldOf(x) + (IF x = id THEN h ELSE 0)
        /\ UsedOf(x) \in Nat /\ HeldOf(x) \in Nat
    BY UsesAreNat
  <2>2. IF x \in DOMAIN quotas THEN quotas[x].used = UsedOf(x) /\ quotas[x].reserved = HeldOf(x)
        ELSE UsedOf(x) = 0 /\ HeldOf(x) = 0
    BY DEF SubjectInv, Counted
  <2>3. CASE x = id
    BY <1>2, <1>3, <2>1, <2>2, <2>3
  <2>4. CASE x # id
    BY <1>3, <2>1, <2>2, <2>4
  <2> QED
    BY <2>3, <2>4
<1> QED
  BY <1>4, <1>5, <1>6, <1>7 DEF SubjectInv

\* What the counts of a row are after a record of its users went from old to new.
CountsMove(x, old, new) ==
  /\ UsedOf(x)' = UsedOf(x) - (IF old.row = x /\ old.status \in {"committed", "used"} THEN 1 ELSE 0)
                            + (IF new.row = x /\ new.status \in {"committed", "used"} THEN 1 ELSE 0)
  /\ HeldOf(x)' = HeldOf(x) - (IF old.row = x /\ old.status \in {"reserved", "lent"} THEN 1 ELSE 0)
                            + (IF new.row = x /\ new.status \in {"reserved", "lent"} THEN 1 ELSE 0)

LEMMA SameRecord ==
  ASSUME NEW id \in RowIds, NEW status, NEW statuses, NEW r \in Records(statuses), status # "none"
  PROVE  r = [row |-> id, status |-> status] <=> r.row = id /\ r.status = status
<1>1. CASE r = Absent
  <2>1. r.status = "none"
    BY <1>1 DEF Absent
  <2> QED
    BY <2>1
<1>2. CASE r \in [row : RowIds, status : statuses]
  <2>1. r = [row |-> r.row, status |-> r.status]
    BY <1>2
  <2> QED
    BY <2>1
<1> QED
  BY <1>1, <1>2 DEF Records

LEMMA UserMoves ==
  ASSUME SubjectTypeOK, NEW o \in Ops, NEW new \in OpRecords,
         reservation' = [reservation EXCEPT ![o] = new], UNCHANGED allocation, NEW x \in RowIds
  PROVE  CountsMove(x, reservation[o], new)
<1> DEFINE old == reservation[o]
<1>1. old \in OpRecords
  BY DEF SubjectTypeOK, OpRecords, Records
<1>2. ASSUME NEW status \in {"committed", "reserved"}
      PROVE  Cardinality(Users(x, status)') =
               Cardinality(Users(x, status)) - (IF old.row = x /\ old.status = status THEN 1 ELSE 0)
                                             + (IF new.row = x /\ new.status = status THEN 1 ELSE 0)
  <2>1. Cardinality(Users(x, status)') =
          Cardinality(Users(x, status))
          - (IF reservation[o] = [row |-> x, status |-> status] THEN 1 ELSE 0)
          + (IF new = [row |-> x, status |-> status] THEN 1 ELSE 0)
    <3>1. UserChange(o, new, x, status)
      BY UserChanges
    <3> QED
      BY <3>1 DEF UserChange
  <2>2. old = [row |-> x, status |-> status] <=> old.row = x /\ old.status = status
    BY <1>1, SameRecord DEF OpRecords
  <2>3. new = [row |-> x, status |-> status] <=> new.row = x /\ new.status = status
    BY SameRecord DEF OpRecords
  <2> QED
    BY <2>1, <2>2, <2>3
<1>3. Borrowers(x, "used")' = Borrowers(x, "used") /\ Borrowers(x, "lent")' = Borrowers(x, "lent")
  BY DEF Borrowers
<1>4. /\ UsedOf(x)' = Cardinality(Users(x, "committed")') + Cardinality(Borrowers(x, "used"))
      /\ HeldOf(x)' = Cardinality(Users(x, "reserved")') + Cardinality(Borrowers(x, "lent"))
  BY <1>3 DEF UsedOf, HeldOf
<1>5. /\ Cardinality(Users(x, "committed")) \in Nat /\ Cardinality(Borrowers(x, "used")) \in Nat
      /\ Cardinality(Users(x, "reserved")) \in Nat /\ Cardinality(Borrowers(x, "lent")) \in Nat
  BY CountsAreNat
<1>6. ASSUME NEW r \in OpRecords PROVE r.status \notin {"used", "lent"}
  BY <1>6 DEF OpRecords, Records, Absent
<1>7. /\ old.status \notin {"used", "lent"} /\ new.status \notin {"used", "lent"}
  BY <1>1, <1>6
<1>8. Cardinality(Users(x, "committed")') =
        Cardinality(Users(x, "committed")) - (IF old.row = x /\ old.status = "committed" THEN 1 ELSE 0)
                                           + (IF new.row = x /\ new.status = "committed" THEN 1 ELSE 0)
  BY <1>2
<1>9. Cardinality(Users(x, "reserved")') =
        Cardinality(Users(x, "reserved")) - (IF old.row = x /\ old.status = "reserved" THEN 1 ELSE 0)
                                          + (IF new.row = x /\ new.status = "reserved" THEN 1 ELSE 0)
  BY <1>2
<1> HIDE DEF old
<1>10. /\ UsedOf(x)' = UsedOf(x) - (IF old.row = x /\ old.status \in {"committed", "used"} THEN 1 ELSE 0)
                                 + (IF new.row = x /\ new.status \in {"committed", "used"} THEN 1 ELSE 0)
       /\ HeldOf(x)' = HeldOf(x) - (IF old.row = x /\ old.status \in {"reserved", "lent"} THEN 1 ELSE 0)
                                 + (IF new.row = x /\ new.status \in {"reserved", "lent"} THEN 1 ELSE 0)
  BY <1>4, <1>5, <1>7, <1>8, <1>9 DEF UsedOf, HeldOf
<1> QED
  BY <1>10 DEF old, CountsMove

LEMMA BorrowerMoves ==
  ASSUME SubjectTypeOK, NEW g \in Grants, NEW new \in GrantRecords,
         allocation' = [allocation EXCEPT ![g] = new], UNCHANGED reservation, NEW x \in RowIds
  PROVE  CountsMove(x, allocation[g], new)
<1> DEFINE old == allocation[g]
<1>1. old \in GrantRecords
  BY DEF SubjectTypeOK, GrantRecords, Records
<1>2. ASSUME NEW status \in {"used", "lent"}
      PROVE  Cardinality(Borrowers(x, status)') =
               Cardinality(Borrowers(x, status)) - (IF old.row = x /\ old.status = status THEN 1 ELSE 0)
                                                 + (IF new.row = x /\ new.status = status THEN 1 ELSE 0)
  <2>1. Cardinality(Borrowers(x, status)') =
          Cardinality(Borrowers(x, status))
          - (IF allocation[g] = [row |-> x, status |-> status] THEN 1 ELSE 0)
          + (IF new = [row |-> x, status |-> status] THEN 1 ELSE 0)
    <3>1. BorrowerChange(g, new, x, status)
      BY BorrowerChanges
    <3> QED
      BY <3>1 DEF BorrowerChange
  <2>2. old = [row |-> x, status |-> status] <=> old.row = x /\ old.status = status
    BY <1>1, SameRecord DEF GrantRecords
  <2>3. new = [row |-> x, status |-> status] <=> new.row = x /\ new.status = status
    BY SameRecord DEF GrantRecords
  <2> QED
    BY <2>1, <2>2, <2>3
<1>3. Users(x, "committed")' = Users(x, "committed") /\ Users(x, "reserved")' = Users(x, "reserved")
  BY DEF Users
<1>4. /\ UsedOf(x)' = Cardinality(Users(x, "committed")) + Cardinality(Borrowers(x, "used")')
      /\ HeldOf(x)' = Cardinality(Users(x, "reserved")) + Cardinality(Borrowers(x, "lent")')
  BY <1>3 DEF UsedOf, HeldOf
<1>5. /\ Cardinality(Users(x, "committed")) \in Nat /\ Cardinality(Borrowers(x, "used")) \in Nat
      /\ Cardinality(Users(x, "reserved")) \in Nat /\ Cardinality(Borrowers(x, "lent")) \in Nat
  BY CountsAreNat
<1>6. ASSUME NEW r \in GrantRecords PROVE r.status \notin {"committed", "reserved"}
  BY <1>6 DEF GrantRecords, Records, Absent
<1>7. /\ old.status \notin {"committed", "reserved"} /\ new.status \notin {"committed", "reserved"}
  BY <1>1, <1>6
<1>8. Cardinality(Borrowers(x, "used")') =
        Cardinality(Borrowers(x, "used")) - (IF old.row = x /\ old.status = "used" THEN 1 ELSE 0)
                                          + (IF new.row = x /\ new.status = "used" THEN 1 ELSE 0)
  BY <1>2
<1>9. Cardinality(Borrowers(x, "lent")') =
        Cardinality(Borrowers(x, "lent")) - (IF old.row = x /\ old.status = "lent" THEN 1 ELSE 0)
                                          + (IF new.row = x /\ new.status = "lent" THEN 1 ELSE 0)
  BY <1>2
<1> HIDE DEF old
<1>10. /\ UsedOf(x)' = UsedOf(x) - (IF old.row = x /\ old.status \in {"committed", "used"} THEN 1 ELSE 0)
                                 + (IF new.row = x /\ new.status \in {"committed", "used"} THEN 1 ELSE 0)
       /\ HeldOf(x)' = HeldOf(x) - (IF old.row = x /\ old.status \in {"reserved", "lent"} THEN 1 ELSE 0)
                                 + (IF new.row = x /\ new.status \in {"reserved", "lent"} THEN 1 ELSE 0)
  BY <1>4, <1>5, <1>7, <1>8, <1>9 DEF UsedOf, HeldOf
<1> QED
  BY <1>10 DEF old, CountsMove

\* Who holds something of a row names a row that is there and counts it.
LEMMA RowIsHeld ==
  ASSUME SubjectInv, NEW id \in RowIds, HeldOf(id) >= 1
  PROVE  id \in DOMAIN quotas /\ quotas[id].reserved >= 1
BY DEF SubjectInv, Counted

LEMMA HolderHasRow ==
  ASSUME SubjectInv, NEW o \in Ops, reservation[o].status = "reserved"
  PROVE  /\ reservation[o] \in [row : RowIds, status : {"reserved", "committed", "released"}]
         /\ reservation[o].row \in DOMAIN quotas /\ quotas[reservation[o].row].reserved >= 1
<1> DEFINE id == reservation[o].row
<1>1. reservation[o] \in [row : RowIds, status : {"reserved", "committed", "released"}]
  BY DEF SubjectInv, SubjectTypeOK, Absent
<1>2. id \in RowIds /\ reservation[o] = [row |-> id, status |-> "reserved"]
  BY <1>1
<1> HIDE DEF id
<1>3. o \in Users(id, "reserved")
  BY <1>2 DEF Users, Holders
<1>4. HeldOf(id) >= 1
  BY <1>3, HolderCounts, CountsAreNat DEF HeldOf
<1> QED
  BY <1>1, <1>2, <1>4, RowIsHeld DEF id

LEMMA BorrowerHasRow ==
  ASSUME SubjectInv, NEW g \in Grants, allocation[g].status = "lent"
  PROVE  /\ allocation[g] \in [row : RowIds, status : {"lent", "used", "returned"}]
         /\ allocation[g].row \in DOMAIN quotas /\ quotas[allocation[g].row].reserved >= 1
<1> DEFINE id == allocation[g].row
<1>1. allocation[g] \in [row : RowIds, status : {"lent", "used", "returned"}]
  BY DEF SubjectInv, SubjectTypeOK, Absent
<1>2. id \in RowIds /\ allocation[g] = [row |-> id, status |-> "lent"]
  BY <1>1
<1> HIDE DEF id
<1>3. g \in Borrowers(id, "lent")
  BY <1>2 DEF Borrowers, Holders
<1>4. HeldOf(id) >= 1
  BY <1>3, HolderCounts, CountsAreNat DEF HeldOf
<1> QED
  BY <1>1, <1>2, <1>4, RowIsHeld DEF id

\* The three ways in which a user moves the counters of a row.
LEMMA Taken ==
  ASSUME SubjectTypeOK, NEW id \in DOMAIN quotas, quotas[id].used + quotas[id].reserved < quotas[id].limit,
         quotas' = [quotas EXCEPT ![id].reserved = @ + 1]
  PROVE  Counters(id, 0, 1)
<1>1. /\ quotas[id].used \in Nat /\ quotas[id].reserved \in Nat /\ quotas[id].limit \in Nat
      /\ quotas[id] = RowWith(id, 0, 0)
  BY RowTypes DEF RowWith
<1> DEFINE row == [quotas[id] EXCEPT !.reserved = @ + 1]
<1>2. row = RowWith(id, 0, 1)
  BY <1>1 DEF RowWith
<1>3. quotas' = [quotas EXCEPT ![id] = row]
  OBVIOUS
<1> HIDE DEF row
<1>4. CanMove(id, 0, 1)
  BY <1>1 DEF CanMove
<1> QED
  BY <1>2, <1>3, <1>4 DEF Counters

LEMMA Spent ==
  ASSUME SubjectTypeOK, NEW id \in DOMAIN quotas, quotas[id].reserved >= 1,
         quotas' = [quotas EXCEPT ![id].reserved = @ - 1, ![id].used = @ + 1]
  PROVE  Counters(id, 1, -1)
<1>1. /\ quotas[id].used \in Nat /\ quotas[id].reserved \in Nat /\ quotas[id].limit \in Nat
      /\ quotas[id].used + quotas[id].reserved <= quotas[id].limit
      /\ quotas[id] = RowWith(id, 0, 0)
  BY RowTypes DEF RowWith
<1> DEFINE less == [quotas[id] EXCEPT !.reserved = @ - 1]
<1> DEFINE row == [less EXCEPT !.used = @ + 1]
<1>2. less = RowWith(id, 0, -1)
  BY <1>1 DEF RowWith
<1>3. quotas' = [quotas EXCEPT ![id] = row]
  OBVIOUS
<1> HIDE DEF less
<1>4. row = RowWith(id, 1, -1)
  BY <1>1, <1>2 DEF RowWith
<1> HIDE DEF row
<1>5. CanMove(id, 1, -1)
  BY <1>1 DEF CanMove
<1> QED
  BY <1>3, <1>4, <1>5 DEF Counters

LEMMA GivenBack ==
  ASSUME SubjectTypeOK, NEW id \in DOMAIN quotas, quotas[id].reserved >= 1,
         quotas' = [quotas EXCEPT ![id].reserved = @ - 1]
  PROVE  Counters(id, 0, -1)
<1>1. /\ quotas[id].used \in Nat /\ quotas[id].reserved \in Nat /\ quotas[id].limit \in Nat
      /\ quotas[id].used + quotas[id].reserved <= quotas[id].limit
      /\ quotas[id] = RowWith(id, 0, 0)
  BY RowTypes DEF RowWith
<1> DEFINE row == [quotas[id] EXCEPT !.reserved = @ - 1]
<1>2. row = RowWith(id, 0, -1)
  BY <1>1 DEF RowWith
<1>3. quotas' = [quotas EXCEPT ![id] = row]
  OBVIOUS
<1> HIDE DEF row
<1>4. CanMove(id, 0, -1)
  BY <1>1 DEF CanMove
<1> QED
  BY <1>2, <1>3, <1>4 DEF Counters

LEMMA ReservePreserves ==
  ASSUME SubjectInv, NEW o \in Ops, NEW k \in Keys, ReserveQuotas(o, k)
  PROVE  SubjectInv'
<1>1. PICK id \in DOMAIN quotas :
           /\ quotas[id].used + quotas[id].reserved < quotas[id].limit
           /\ quotas' = [quotas EXCEPT ![id].reserved = @ + 1]
           /\ reservation' = [reservation EXCEPT ![o] = [row |-> id, status |-> "reserved"]]
  BY DEF ReserveQuotas, InForce, HasRoom
<1> DEFINE new == [row |-> id, status |-> "reserved"]
<1>2. new \in OpRecords /\ new.row = id /\ new.status = "reserved"
  BY RowTypes DEF SubjectInv, OpRecords, Records
<1>3. reservation' = [reservation EXCEPT ![o] = new]
  BY <1>1
<1> HIDE DEF new
<1>4. Counters(id, 0, 1)
  BY <1>1, Taken DEF SubjectInv
<1>5. reservation[o].status = "none"
  BY DEF SubjectInv, LedgerKeepsIds, ReserveQuotas, Absent
<1>6. ASSUME NEW x \in RowIds
      PROVE  /\ UsedOf(x)' = UsedOf(x) + (IF x = id THEN 0 ELSE 0)
             /\ HeldOf(x)' = HeldOf(x) + (IF x = id THEN 1 ELSE 0)
  <2>1. CountsMove(x, reservation[o], new)
    BY <1>2, <1>3, UserMoves DEF SubjectInv, ReserveQuotas
  <2> QED
    BY <1>2, <1>5, <2>1, UsesAreNat DEF CountsMove
<1>7. reservation' \in [Ops -> OpRecords] /\ allocation' \in [Grants -> GrantRecords]
  BY <1>2, <1>3 DEF SubjectInv, SubjectTypeOK, ReserveQuotas, OpRecords, GrantRecords, Records
<1>8. LedgerKeepsIds' /\ ledger' \subseteq Ops
  BY <1>3 DEF SubjectInv, SubjectTypeOK, LedgerKeepsIds, ReserveQuotas, Absent
<1>9. UNCHANGED <<subscription, features, now>>
  BY DEF ReserveQuotas
<1> QED
  BY <1>4, <1>6, <1>7, <1>8, <1>9, UserStep

LEMMA CommitPreserves ==
  ASSUME SubjectInv, NEW o \in Ops, CommitQuotas(o)
  PROVE  SubjectInv'
<1>1. reservation[o].status = "reserved"
  BY DEF CommitQuotas
<1>2. PICK id \in DOMAIN quotas : id = reservation[o].row /\ quotas[id].reserved >= 1
  BY <1>1, HolderHasRow
<1>3. PICK new : new = [reservation[o] EXCEPT !.status = "committed"]
  OBVIOUS
<1>4. new \in OpRecords /\ new.row = id /\ new.status = "committed"
  BY <1>1, <1>2, <1>3, HolderHasRow DEF OpRecords, Records
<1>5. reservation' = [reservation EXCEPT ![o] = new] /\ UNCHANGED <<subscription, features, ledger, allocation, now>>
  BY <1>3 DEF CommitQuotas
<1>6. quotas' = [quotas EXCEPT ![id].reserved = @ - 1, ![id].used = @ + 1]
  BY <1>2 DEF CommitQuotas
<1>7. Counters(id, 1, -1)
  BY <1>2, <1>6, Spent DEF SubjectInv
<1>8. ASSUME NEW x \in RowIds
      PROVE  /\ UsedOf(x)' = UsedOf(x) + (IF x = id THEN 1 ELSE 0)
             /\ HeldOf(x)' = HeldOf(x) + (IF x = id THEN -1 ELSE 0)
  <2>1. CountsMove(x, reservation[o], new)
    BY <1>4, <1>5, UserMoves DEF SubjectInv
  <2> QED
    BY <1>1, <1>2, <1>4, <2>1, UsesAreNat DEF CountsMove
<1>9. reservation' \in [Ops -> OpRecords] /\ allocation' \in [Grants -> GrantRecords]
  BY <1>4, <1>5 DEF SubjectInv, SubjectTypeOK, OpRecords, GrantRecords, Records
<1>10. LedgerKeepsIds' /\ ledger' \subseteq Ops
  BY <1>1, <1>5 DEF SubjectInv, SubjectTypeOK, LedgerKeepsIds, Absent
<1> QED
  BY <1>5, <1>7, <1>8, <1>9, <1>10, UserStep

LEMMA ReleasePreserves ==
  ASSUME SubjectInv, NEW o \in Ops, ReleaseQuotas(o)
  PROVE  SubjectInv'
<1>1. reservation[o].status = "reserved"
  BY DEF ReleaseQuotas
<1>2. PICK id \in DOMAIN quotas : id = reservation[o].row /\ quotas[id].reserved >= 1
  BY <1>1, HolderHasRow
<1>3. PICK new : new = [reservation[o] EXCEPT !.status = "released"]
  OBVIOUS
<1>4. new \in OpRecords /\ new.row = id /\ new.status = "released"
  BY <1>1, <1>2, <1>3, HolderHasRow DEF OpRecords, Records
<1>5. reservation' = [reservation EXCEPT ![o] = new] /\ UNCHANGED <<subscription, features, ledger, allocation, now>>
  BY <1>3 DEF ReleaseQuotas
<1>6. quotas' = [quotas EXCEPT ![id].reserved = @ - 1]
  BY <1>2 DEF ReleaseQuotas
<1>7. Counters(id, 0, -1)
  BY <1>2, <1>6, GivenBack DEF SubjectInv
<1>8. ASSUME NEW x \in RowIds
      PROVE  /\ UsedOf(x)' = UsedOf(x) + (IF x = id THEN 0 ELSE 0)
             /\ HeldOf(x)' = HeldOf(x) + (IF x = id THEN -1 ELSE 0)
  <2>1. CountsMove(x, reservation[o], new)
    BY <1>4, <1>5, UserMoves DEF SubjectInv
  <2> QED
    BY <1>1, <1>2, <1>4, <2>1, UsesAreNat DEF CountsMove
<1>9. reservation' \in [Ops -> OpRecords] /\ allocation' \in [Grants -> GrantRecords]
  BY <1>4, <1>5 DEF SubjectInv, SubjectTypeOK, OpRecords, GrantRecords, Records
<1>10. LedgerKeepsIds' /\ ledger' \subseteq Ops
  BY <1>1, <1>5 DEF SubjectInv, SubjectTypeOK, LedgerKeepsIds, Absent
<1> QED
  BY <1>5, <1>7, <1>8, <1>9, <1>10, UserStep

LEMMA LendPreserves ==
  ASSUME SubjectInv, NEW g \in Grants, NEW k \in Keys, CreateExternalGrant(g, k)
  PROVE  SubjectInv'
<1>1. PICK id \in DOMAIN quotas :
           /\ quotas[id].used + quotas[id].reserved < quotas[id].limit
           /\ quotas' = [quotas EXCEPT ![id].reserved = @ + 1]
           /\ allocation' = [allocation EXCEPT ![g] = [row |-> id, status |-> "lent"]]
  BY DEF CreateExternalGrant, InForce, HasRoom
<1> DEFINE new == [row |-> id, status |-> "lent"]
<1>2. new \in GrantRecords /\ new.row = id /\ new.status = "lent"
  BY RowTypes DEF SubjectInv, GrantRecords, Records
<1>3. allocation' = [allocation EXCEPT ![g] = new] /\ UNCHANGED <<subscription, features, reservation, ledger, now>>
  BY <1>1 DEF CreateExternalGrant
<1> HIDE DEF new
<1>4. Counters(id, 0, 1)
  BY <1>1, Taken DEF SubjectInv
<1>5. allocation[g].status = "none"
  BY DEF CreateExternalGrant, Absent
<1>6. ASSUME NEW x \in RowIds
      PROVE  /\ UsedOf(x)' = UsedOf(x) + (IF x = id THEN 0 ELSE 0)
             /\ HeldOf(x)' = HeldOf(x) + (IF x = id THEN 1 ELSE 0)
  <2>1. CountsMove(x, allocation[g], new)
    BY <1>2, <1>3, BorrowerMoves DEF SubjectInv
  <2> QED
    BY <1>2, <1>5, <2>1, UsesAreNat DEF CountsMove
<1>7. reservation' \in [Ops -> OpRecords] /\ allocation' \in [Grants -> GrantRecords]
  BY <1>2, <1>3 DEF SubjectInv, SubjectTypeOK, OpRecords, GrantRecords, Records
<1>8. LedgerKeepsIds' /\ ledger' \subseteq Ops
  BY <1>3 DEF SubjectInv, SubjectTypeOK, LedgerKeepsIds
<1> QED
  BY <1>3, <1>4, <1>6, <1>7, <1>8, UserStep

LEMMA ConsumePreserves ==
  ASSUME SubjectInv, NEW g \in Grants, ConsumeExternal(g)
  PROVE  SubjectInv'
<1>1. allocation[g].status = "lent"
  BY DEF ConsumeExternal
<1>2. PICK id \in DOMAIN quotas : id = allocation[g].row /\ quotas[id].reserved >= 1
  BY <1>1, BorrowerHasRow
<1>3. PICK new : new = [allocation[g] EXCEPT !.status = "used"]
  OBVIOUS
<1>4. new \in GrantRecords /\ new.row = id /\ new.status = "used"
  BY <1>1, <1>2, <1>3, BorrowerHasRow DEF GrantRecords, Records
<1>5. allocation' = [allocation EXCEPT ![g] = new] /\ UNCHANGED <<subscription, features, reservation, ledger, now>>
  BY <1>3 DEF ConsumeExternal
<1>6. quotas' = [quotas EXCEPT ![id].reserved = @ - 1, ![id].used = @ + 1]
  BY <1>2 DEF ConsumeExternal
<1>7. Counters(id, 1, -1)
  BY <1>2, <1>6, Spent DEF SubjectInv
<1>8. ASSUME NEW x \in RowIds
      PROVE  /\ UsedOf(x)' = UsedOf(x) + (IF x = id THEN 1 ELSE 0)
             /\ HeldOf(x)' = HeldOf(x) + (IF x = id THEN -1 ELSE 0)
  <2>1. CountsMove(x, allocation[g], new)
    BY <1>4, <1>5, BorrowerMoves DEF SubjectInv
  <2> QED
    BY <1>1, <1>2, <1>4, <2>1, UsesAreNat DEF CountsMove
<1>9. reservation' \in [Ops -> OpRecords] /\ allocation' \in [Grants -> GrantRecords]
  BY <1>4, <1>5 DEF SubjectInv, SubjectTypeOK, OpRecords, GrantRecords, Records
<1>10. LedgerKeepsIds' /\ ledger' \subseteq Ops
  BY <1>5 DEF SubjectInv, SubjectTypeOK, LedgerKeepsIds
<1> QED
  BY <1>5, <1>7, <1>8, <1>9, <1>10, UserStep

LEMMA TakeBackPreserves ==
  ASSUME SubjectInv, NEW g \in Grants, RevokeExternalGrant(g)
  PROVE  SubjectInv'
<1>1. allocation[g].status = "lent"
  BY DEF RevokeExternalGrant
<1>2. PICK id \in DOMAIN quotas : id = allocation[g].row /\ quotas[id].reserved >= 1
  BY <1>1, BorrowerHasRow
<1>3. PICK new : new = [allocation[g] EXCEPT !.status = "returned"]
  OBVIOUS
<1>4. new \in GrantRecords /\ new.row = id /\ new.status = "returned"
  BY <1>1, <1>2, <1>3, BorrowerHasRow DEF GrantRecords, Records
<1>5. allocation' = [allocation EXCEPT ![g] = new] /\ UNCHANGED <<subscription, features, reservation, ledger, now>>
  BY <1>3 DEF RevokeExternalGrant
<1>6. quotas' = [quotas EXCEPT ![id].reserved = @ - 1]
  BY <1>2 DEF RevokeExternalGrant
<1>7. Counters(id, 0, -1)
  BY <1>2, <1>6, GivenBack DEF SubjectInv
<1>8. ASSUME NEW x \in RowIds
      PROVE  /\ UsedOf(x)' = UsedOf(x) + (IF x = id THEN 0 ELSE 0)
             /\ HeldOf(x)' = HeldOf(x) + (IF x = id THEN -1 ELSE 0)
  <2>1. CountsMove(x, allocation[g], new)
    BY <1>4, <1>5, BorrowerMoves DEF SubjectInv
  <2> QED
    BY <1>1, <1>2, <1>4, <2>1, UsesAreNat DEF CountsMove
<1>9. reservation' \in [Ops -> OpRecords] /\ allocation' \in [Grants -> GrantRecords]
  BY <1>4, <1>5 DEF SubjectInv, SubjectTypeOK, OpRecords, GrantRecords, Records
<1>10. LedgerKeepsIds' /\ ledger' \subseteq Ops
  BY <1>5 DEF SubjectInv, SubjectTypeOK, LedgerKeepsIds
<1> QED
  BY <1>5, <1>7, <1>8, <1>9, <1>10, UserStep

-----------------------------------------------------------------------------
(* Entitlements: the manager's commands. *)

GoodRows(table) ==
  /\ DOMAIN table \subseteq RowIds
  /\ \A id \in DOMAIN table : table[id] \in Rows /\ table[id].used + table[id].reserved <= table[id].limit

GoodFeatures(table) ==
  DOMAIN table \subseteq Sources \X Features /\ \A x \in DOMAIN table : table[x] \in Effects

\* The parts of the type invariant that a command touches.
LEMMA TablesAreGood ==
  /\ SubjectTypeOK => GoodRows(quotas) /\ GoodFeatures(features)
  /\ GoodRows(quotas') => /\ DOMAIN quotas' \subseteq RowIds /\ Range(quotas') \subseteq Rows
                          /\ \A id \in DOMAIN quotas' : quotas'[id].used + quotas'[id].reserved <= quotas'[id].limit
  /\ GoodFeatures(features') => /\ DOMAIN features' \subseteq Sources \X Features
                                /\ Range(features') \subseteq Effects
BY DEF GoodRows, GoodFeatures, SubjectTypeOK, Range

Inserted(all, rows, table) ==
  /\ DOMAIN all = (DOMAIN rows) \union DOMAIN table
  /\ \A x \in DOMAIN rows : all[x] = rows[x]
  /\ \A x \in (DOMAIN table) \ DOMAIN rows : all[x] = table[x]

LEMMA InsertIs ==
  ASSUME NEW rows, NEW table
  PROVE  Inserted(Insert(rows, table), rows, table)
BY DEF Insert, Inserted

LEMMA InsertIsGood ==
  ASSUME NEW rows, NEW table
  PROVE  /\ GoodRows(rows) /\ GoodRows(table) => GoodRows(Insert(rows, table))
         /\ GoodFeatures(rows) /\ GoodFeatures(table) => GoodFeatures(Insert(rows, table))
<1> DEFINE all == Insert(rows, table)
<1>1. /\ DOMAIN all = (DOMAIN rows) \union DOMAIN table
      /\ \A x \in DOMAIN all : (x \in DOMAIN rows /\ all[x] = rows[x]) \/ (x \in DOMAIN table /\ all[x] = table[x])
  <2>1. Inserted(all, rows, table)
    BY InsertIs
  <2> QED
    BY <2>1 DEF Inserted
<1> HIDE DEF all
<1>2. GoodRows(rows) /\ GoodRows(table) => GoodRows(all)
  BY <1>1 DEF GoodRows
<1>3. GoodFeatures(rows) /\ GoodFeatures(table) => GoodFeatures(all)
  BY <1>1 DEF GoodFeatures
<1> QED
  BY <1>2, <1>3 DEF all

LEMMA PlanRowsAreGood ==
  ASSUME NEW s \in Subscriptions, NEW plan \in Plans, NEW p \in Periods
  PROVE  GoodRows(PlanQuotas(s, plan, p)) /\ GoodFeatures(PlanFeatures(s, plan))
<1>1. /\ DOMAIN FeatureRules[plan] \subseteq Features /\ DOMAIN QuotaRules[plan] \subseteq Keys
      /\ \A f \in DOMAIN FeatureRules[plan] : FeatureRules[plan][f] \in Effects
      /\ \A k \in DOMAIN QuotaRules[plan] : QuotaRules[plan][k] \in [effect : Effects, limit : Nat]
  BY EntitlementsAssumption
<1>2. s \in Sources
  BY DEF Sources
<1>3. GoodFeatures(PlanFeatures(s, plan))
  BY <1>1, <1>2 DEF GoodFeatures, PlanFeatures
<1>4. DOMAIN PlanQuotas(s, plan, p) \subseteq RowIds
  <2>1. DOMAIN PlanQuotas(s, plan, p) = {s} \X (DOMAIN QuotaRules[plan]) \X {p}
    BY PlanRowIds
  <2> QED
    BY <1>1, <1>2, <2>1 DEF RowIds
<1>5. ASSUME NEW id \in DOMAIN PlanQuotas(s, plan, p)
      PROVE  /\ PlanQuotas(s, plan, p)[id] \in Rows
             /\ PlanQuotas(s, plan, p)[id].used + PlanQuotas(s, plan, p)[id].reserved
                  <= PlanQuotas(s, plan, p)[id].limit
  <2>1. /\ id[2] \in DOMAIN QuotaRules[plan]
        /\ PlanQuotas(s, plan, p)[id] =
             [effect |-> QuotaRules[plan][id[2]].effect, limit |-> QuotaRules[plan][id[2]].limit,
              used |-> 0, reserved |-> 0, period |-> p]
    BY PlanRow
  <2>2. QuotaRules[plan][id[2]].effect \in Effects /\ QuotaRules[plan][id[2]].limit \in Nat
    BY <1>1, <2>1
  <2> QED
    BY <2>1, <2>2 DEF Rows
<1> QED
  BY <1>3, <1>4, <1>5 DEF GoodRows

\* The invariants over the plan, of any tables.
PlanOnly(table) == Restrict(table, {x \in DOMAIN table : x[1] # Manual})

FeaturesOfPlan(table, subs) == \A s \in DOMAIN subs : PlanOnly(table) = PlanFeatures(s, subs[s].plan)

Matches(table, rows) ==
  \A id \in DOMAIN rows : id \in DOMAIN table /\ table[id].effect = rows[id].effect /\ table[id].limit = rows[id].limit

QuotasOfPlan(table, subs) == \A s \in DOMAIN subs : Matches(table, PlanQuotas(s, subs[s].plan, subs[s].period))

LEMMA FollowsPlan ==
  /\ FeaturesFollowPlan <=> FeaturesOfPlan(features, subscription)
  /\ FeaturesFollowPlan' <=> FeaturesOfPlan(features', subscription')
  /\ QuotasFollowPlan <=> QuotasOfPlan(quotas, subscription)
  /\ QuotasFollowPlan' <=> QuotasOfPlan(quotas', subscription')
<1>1. FeaturesFollowPlan <=> FeaturesOfPlan(features, subscription)
  BY DEF FeaturesFollowPlan, FeaturesOfPlan, PlanOnly
<1>2. FeaturesFollowPlan' <=> FeaturesOfPlan(features', subscription')
  BY DEF FeaturesFollowPlan, FeaturesOfPlan, PlanOnly, PlanFeatures
<1>3. QuotasFollowPlan <=> QuotasOfPlan(quotas, subscription)
  BY DEF QuotasFollowPlan, QuotasOfPlan, Matches
<1>4. QuotasFollowPlan' <=> QuotasOfPlan(quotas', subscription')
  BY DEF QuotasFollowPlan, QuotasOfPlan, Matches, PlanQuotas
<1> QED
  BY <1>1, <1>2, <1>3, <1>4

LEMMA CountsStay ==
  ASSUME UNCHANGED <<reservation, allocation>>, NEW x
  PROVE  UsedOf(x)' = UsedOf(x) /\ HeldOf(x)' = HeldOf(x)
BY DEF UsedOf, HeldOf, Users, Borrowers, Holders

\* What a command has to leave in order.
LEMMA CommandStep ==
  ASSUME SubjectInv, GoodRows(quotas'), GoodFeatures(features'),
         DOMAIN subscription' \subseteq Subscriptions,
         \A s \in DOMAIN subscription' :
           subscription'[s] \in [plan : Plans, status : {"trialing", "active", "cancelled"}, period : Periods],
         reservation' \in [Ops -> OpRecords], LedgerKeepsIds', UNCHANGED <<ledger, allocation>>, now' \in Periods,
         FeaturesFollowPlan', QuotasFollowPlan', Counted'
  PROVE  SubjectInv'
<1>1. SubjectTypeOK'
  BY TablesAreGood DEF SubjectInv, SubjectTypeOK, OpRecords, Records
<1> QED
  BY <1>1 DEF SubjectInv

LEMMA CancelPreserves ==
  ASSUME SubjectInv, NEW s \in Subscriptions, Cancel(s)
  PROVE  SubjectInv'
<1>1. /\ s \in DOMAIN subscription /\ subscription' = [subscription EXCEPT ![s].status = "cancelled"]
      /\ UNCHANGED <<features, quotas, reservation, ledger, allocation, now>>
  BY DEF Cancel
<1>2. /\ DOMAIN subscription' = DOMAIN subscription
      /\ \A x \in DOMAIN subscription : /\ subscription'[x].plan = subscription[x].plan
                                        /\ subscription'[x].period = subscription[x].period
  BY <1>1 DEF SubjectInv, SubjectTypeOK
<1>3. \A x \in DOMAIN subscription :
        subscription'[x] \in [plan : Plans, status : {"trialing", "active", "cancelled"}, period : Periods]
  BY <1>1 DEF SubjectInv, SubjectTypeOK
<1>4. FeaturesFollowPlan'
  BY <1>1, <1>2, FollowsPlan DEF SubjectInv, FeaturesOfPlan
<1>5. QuotasFollowPlan'
  BY <1>1, <1>2, FollowsPlan DEF SubjectInv, QuotasOfPlan
<1>6. Counted'
  BY <1>1, CountsStay DEF SubjectInv, Counted
<1>7. GoodRows(quotas') /\ GoodFeatures(features') /\ LedgerKeepsIds'
  BY <1>1, TablesAreGood DEF SubjectInv, LedgerKeepsIds
<1> QED
  BY <1>1, <1>2, <1>3, <1>4, <1>5, <1>6, <1>7, CommandStep DEF SubjectInv, SubjectTypeOK, OpRecords, Records

\* A later period makes no row.
LEMMA NextPeriodPreserves ==
  ASSUME SubjectInv, NextPeriod
  PROVE  SubjectInv'
<1>1. UNCHANGED <<subscription, features, quotas, reservation, ledger, allocation>> /\ now' \in Periods
  BY DEF NextPeriod
<1>2. SubjectTypeOK'
  BY <1>1 DEF SubjectInv, SubjectTypeOK
<1>3. FeaturesFollowPlan' /\ QuotasFollowPlan' /\ LedgerKeepsIds'
  BY <1>1, FollowsPlan DEF SubjectInv, LedgerKeepsIds
<1>4. Counted'
  BY <1>1, CountsStay DEF SubjectInv, Counted
<1> QED
  BY <1>2, <1>3, <1>4 DEF SubjectInv

LEMMA StutterPreserves ==
  ASSUME SubjectInv, UNCHANGED subjectTables
  PROVE  SubjectInv'
<1>1. UNCHANGED <<subscription, features, quotas, reservation, ledger, allocation, now>>
  BY DEF subjectTables
<1>2. SubjectTypeOK'
  BY <1>1 DEF SubjectInv, SubjectTypeOK
<1>3. FeaturesFollowPlan' /\ QuotasFollowPlan' /\ LedgerKeepsIds'
  BY <1>1, FollowsPlan DEF SubjectInv, LedgerKeepsIds
<1>4. Counted'
  BY <1>1, CountsStay DEF SubjectInv, Counted
<1> QED
  BY <1>2, <1>3, <1>4 DEF SubjectInv

LEMMA OverrideFeaturePreserves ==
  ASSUME SubjectInv, NEW f \in Features, NEW effect \in Effects, OverrideFeature(f, effect)
  PROVE  SubjectInv'
<1> DEFINE row == [x \in {<<Manual, f>>} |-> effect]
<1>1. /\ features' = Insert(row, features)
      /\ UNCHANGED <<subscription, quotas, reservation, ledger, allocation, now>>
  BY DEF OverrideFeature
<1>2. GoodFeatures(row) /\ DOMAIN row = {<<Manual, f>>}
  BY DEF GoodFeatures, Sources
<1> HIDE DEF row
<1>3. GoodFeatures(features')
  BY <1>1, <1>2, InsertIsGood, TablesAreGood DEF SubjectInv
<1>4. /\ {x \in DOMAIN features' : x[1] # Manual} = {x \in DOMAIN features : x[1] # Manual}
      /\ \A x \in DOMAIN features : x[1] # Manual => features'[x] = features[x]
  <2>1. /\ DOMAIN features' = {<<Manual, f>>} \union DOMAIN features
        /\ \A x \in (DOMAIN features) \ {<<Manual, f>>} : features'[x] = features[x]
    <3>1. Inserted(features', row, features)
      BY <1>1, InsertIs
    <3> QED
      BY <1>2, <3>1 DEF Inserted
  <2>2. <<Manual, f>>[1] = Manual
    OBVIOUS
  <2>3. ASSUME NEW x, x[1] # Manual
        PROVE  (x \in DOMAIN features' <=> x \in DOMAIN features) /\ (x \in DOMAIN features => features'[x] = features[x])
    <3>1. x # <<Manual, f>>
      BY <2>2, <2>3
    <3> QED
      BY <2>1, <3>1
  <2> QED
    BY <2>3
<1>5. PlanOnly(features') = PlanOnly(features)
  BY <1>4 DEF PlanOnly, Restrict
<1>6. FeaturesFollowPlan'
  BY <1>1, <1>5, FollowsPlan DEF SubjectInv, FeaturesOfPlan
<1>7. QuotasFollowPlan' /\ LedgerKeepsIds'
  BY <1>1, FollowsPlan DEF SubjectInv, LedgerKeepsIds
<1>8. Counted'
  BY <1>1, CountsStay DEF SubjectInv, Counted
<1> QED
  BY <1>1, <1>3, <1>6, <1>7, <1>8, CommandStep, TablesAreGood DEF SubjectInv, SubjectTypeOK, OpRecords, Records

\* Rows that keep the counters of those they replace, and else start at 0.
CountersKept(rows) ==
  \A id \in DOMAIN rows :
    IF id \in DOMAIN quotas THEN rows[id].used = quotas[id].used /\ rows[id].reserved = quotas[id].reserved
    ELSE rows[id].used = 0 /\ rows[id].reserved = 0

LEMMA InsertKeepsCounts ==
  ASSUME SubjectInv, NEW rows, CountersKept(rows), Inserted(quotas', rows, quotas),
         UNCHANGED <<reservation, allocation>>
  PROVE  Counted'
<1> SUFFICES ASSUME NEW id \in RowIds
             PROVE  IF id \in DOMAIN quotas' THEN quotas'[id].used = UsedOf(id)' /\ quotas'[id].reserved = HeldOf(id)'
                    ELSE UsedOf(id)' = 0 /\ HeldOf(id)' = 0
  BY DEF Counted, RowIds, Sources
<1>1. UsedOf(id)' = UsedOf(id) /\ HeldOf(id)' = HeldOf(id)
  BY CountsStay
<1>2. IF id \in DOMAIN quotas THEN quotas[id].used = UsedOf(id) /\ quotas[id].reserved = HeldOf(id)
      ELSE UsedOf(id) = 0 /\ HeldOf(id) = 0
  BY DEF SubjectInv, Counted
<1>3. CASE id \in DOMAIN rows
  BY <1>1, <1>2, <1>3 DEF CountersKept, Inserted
<1>4. CASE id \notin DOMAIN rows
  BY <1>1, <1>2, <1>4 DEF Inserted
<1> QED
  BY <1>3, <1>4

LEMMA OverrideQuotaPreserves ==
  ASSUME SubjectInv, NEW k \in Keys, NEW effect \in Effects, NEW limit \in Limits, NEW p \in Periods,
         OverrideQuota(k, effect, limit, p)
  PROVE  SubjectInv'
<1> DEFINE mine == {id \in DOMAIN quotas : id[1] = Manual /\ id[2] = k}
<1>1. UNCHANGED <<subscription, features, reservation, ledger, allocation, now>>
  BY DEF OverrideQuota
<1>2. PICK rows : /\ quotas' = Insert(rows, quotas) /\ GoodRows(rows) /\ CountersKept(rows)
                  /\ \A id \in DOMAIN rows : id \in DOMAIN quotas => id[1] = Manual
  <2>1. CASE mine = {}
    <3> DEFINE id0 == <<Manual, k, p>>
    <3> DEFINE row == [effect |-> effect, limit |-> limit, used |-> 0, reserved |-> 0, period |-> p]
    <3> DEFINE rows == [id \in {id0} |-> row]
    <3>1. quotas' = Insert(rows, quotas)
      BY <2>1 DEF OverrideQuota
    <3>2. id0[1] = Manual /\ id0[2] = k /\ id0 \in RowIds
      BY DEF RowIds, Sources
    <3>3. id0 \notin DOMAIN quotas
      BY <2>1, <3>2
    <3>4. /\ row \in Rows /\ row.used + row.reserved <= row.limit /\ row.used = 0 /\ row.reserved = 0
      BY EntitlementsAssumption DEF Rows
    <3>5. DOMAIN rows = {id0} /\ rows[id0] = row
      OBVIOUS
    <3> HIDE DEF rows, row, id0
    <3>6. GoodRows(rows)
      BY <3>2, <3>4, <3>5 DEF GoodRows
    <3>7. CountersKept(rows)
      BY <3>3, <3>4, <3>5 DEF CountersKept
    <3> QED
      BY <3>1, <3>3, <3>5, <3>6, <3>7
  <2>2. CASE mine # {}
    <3> DEFINE Changed(id) == [quotas[id] EXCEPT !.effect = effect, !.limit = limit, !.period = p]
    <3> DEFINE rows == [id \in mine |-> Changed(id)]
    <3>1. quotas' = Insert(rows, quotas) /\ \A id \in mine : Fits(Changed(id))
      BY <2>2 DEF OverrideQuota
    <3>2. ASSUME NEW id \in mine
          PROVE  /\ Changed(id) \in Rows /\ Changed(id).used + Changed(id).reserved <= Changed(id).limit
                 /\ Changed(id).used = quotas[id].used /\ Changed(id).reserved = quotas[id].reserved
                 /\ id \in DOMAIN quotas /\ id \in RowIds /\ id[1] = Manual
      <4>1. id \in DOMAIN quotas /\ id[1] = Manual
        OBVIOUS
      <4>2. quotas[id] \in Rows /\ id \in RowIds
        BY <4>1, RowTypes DEF SubjectInv
      <4>3. limit \in Nat
        BY EntitlementsAssumption
      <4>4. /\ Changed(id) \in Rows
            /\ Changed(id).used = quotas[id].used /\ Changed(id).reserved = quotas[id].reserved
        BY <4>2, <4>3 DEF Rows
      <4>5. Changed(id).used + Changed(id).reserved <= Changed(id).limit
        BY <3>1 DEF Fits
      <4> QED
        BY <4>1, <4>2, <4>4, <4>5
    <3>3. DOMAIN rows = mine /\ \A id \in mine : rows[id] = Changed(id)
      OBVIOUS
    <3> HIDE DEF rows, Changed, mine
    <3>4. GoodRows(rows)
      BY <3>2, <3>3 DEF GoodRows
    <3>5. CountersKept(rows)
      BY <3>2, <3>3 DEF CountersKept
    <3> QED
      BY <3>1, <3>2, <3>3, <3>4, <3>5
  <2> QED
    BY <2>1, <2>2
<1> HIDE DEF mine
<1>3. Inserted(quotas', rows, quotas)
  BY <1>2, InsertIs
<1>4. Counted'
  BY <1>1, <1>2, <1>3, InsertKeepsCounts
<1>5. GoodRows(quotas')
  BY <1>2, InsertIsGood, TablesAreGood DEF SubjectInv
<1>6. QuotasFollowPlan'
  <2>1. ASSUME NEW s \in DOMAIN subscription, NEW id \in DOMAIN PlanQuotas(s, subscription[s].plan, subscription[s].period)
        PROVE  id \in DOMAIN quotas => id \notin DOMAIN rows
    <3>1. id[1] = s /\ s # Manual
      BY PlanRow, EntitlementsAssumption DEF SubjectInv, SubjectTypeOK
    <3> QED
      BY <1>2, <3>1
  <2>2. ASSUME NEW s \in DOMAIN subscription
        PROVE  Matches(quotas', PlanQuotas(s, subscription[s].plan, subscription[s].period))
    <3>1. Matches(quotas, PlanQuotas(s, subscription[s].plan, subscription[s].period))
      BY FollowsPlan DEF SubjectInv, QuotasOfPlan
    <3> QED
      BY <1>3, <2>1, <3>1 DEF Matches, Inserted
  <2> QED
    BY <1>1, <2>2, FollowsPlan DEF QuotasOfPlan
<1>7. FeaturesFollowPlan' /\ LedgerKeepsIds' /\ GoodFeatures(features')
  BY <1>1, FollowsPlan, TablesAreGood DEF SubjectInv, LedgerKeepsIds
<1> QED
  BY <1>1, <1>4, <1>5, <1>6, <1>7, CommandStep DEF SubjectInv, SubjectTypeOK, OpRecords, Records

LEMMA RenewPreserves ==
  ASSUME SubjectInv, NEW s \in Subscriptions, NEW p \in Periods, Renew(s, p)
  PROVE  SubjectInv'
<1>1. PICK plan : plan = subscription[s].plan
  OBVIOUS
<1>2. /\ s \in DOMAIN subscription /\ subscription' = [subscription EXCEPT ![s].period = p]
      /\ UNCHANGED <<reservation, ledger, allocation, now>>
      /\ Insertable(PlanFeatures(s, plan), features) /\ Insertable(PlanQuotas(s, plan, p), quotas)
      /\ features' = Insert(PlanFeatures(s, plan), features) /\ quotas' = Insert(PlanQuotas(s, plan, p), quotas)
  BY <1>1 DEF Renew, Materialize
<1>3. plan \in Plans
  BY <1>1, <1>2 DEF SubjectInv, SubjectTypeOK
<1>4. /\ DOMAIN subscription' = DOMAIN subscription
      /\ \A x \in DOMAIN subscription :
           /\ subscription'[x] \in [plan : Plans, status : {"trialing", "active", "cancelled"}, period : Periods]
           /\ subscription'[x].plan = subscription[x].plan
           /\ subscription'[x].period = IF x = s THEN p ELSE subscription[x].period
  BY <1>2 DEF SubjectInv, SubjectTypeOK
<1>5. PICK rows : rows = PlanQuotas(s, plan, p)
  OBVIOUS
<1>6. PICK feats : feats = PlanFeatures(s, plan)
  OBVIOUS
<1>7. /\ Inserted(quotas', rows, quotas) /\ Inserted(features', feats, features)
      /\ (DOMAIN rows) \intersect DOMAIN quotas = {} /\ (DOMAIN feats) \intersect DOMAIN features = {}
  BY <1>2, <1>5, <1>6, InsertIs DEF Insertable
<1>8. GoodRows(quotas') /\ GoodFeatures(features')
  BY <1>2, <1>3, PlanRowsAreGood, InsertIsGood, TablesAreGood DEF SubjectInv
<1>9. PlanOnly(features) = feats
  BY <1>1, <1>2, <1>6, FollowsPlan DEF SubjectInv, FeaturesOfPlan
<1>10. DOMAIN feats = {}
  <2>1. DOMAIN feats \subseteq DOMAIN features
    BY <1>9 DEF PlanOnly, Restrict
  <2> QED
    BY <1>7, <2>1
<1>11. PlanOnly(features') = PlanOnly(features)
  BY <1>7, <1>10 DEF Inserted, PlanOnly, Restrict
<1>12. FeaturesFollowPlan'
  BY <1>4, <1>11, FollowsPlan DEF SubjectInv, FeaturesOfPlan
<1>13. QuotasFollowPlan'
  <2>1. ASSUME NEW x \in DOMAIN subscription
        PROVE  Matches(quotas', PlanQuotas(x, subscription'[x].plan, subscription'[x].period))
    <3>1. CASE x = s
      <4>1. PlanQuotas(x, subscription'[x].plan, subscription'[x].period) = rows
        BY <1>1, <1>4, <1>5, <3>1
      <4>2. Matches(quotas', rows)
        BY <1>7 DEF Matches, Inserted
      <4> QED
        BY <4>1, <4>2
    <3>2. CASE x # s
      <4>1. PICK old : old = PlanQuotas(x, subscription[x].plan, subscription[x].period)
        OBVIOUS
      <4>2. PlanQuotas(x, subscription'[x].plan, subscription'[x].period) = old
        BY <1>4, <3>2, <4>1
      <4>3. Matches(quotas, old)
        BY <4>1, FollowsPlan DEF SubjectInv, QuotasOfPlan
      <4>4. Matches(quotas', old)
        BY <1>7, <4>3 DEF Matches, Inserted
      <4> QED
        BY <4>2, <4>4
    <3> QED
      BY <3>1, <3>2
  <2> QED
    BY <1>4, <2>1, FollowsPlan DEF QuotasOfPlan
<1>14. Counted'
  <2>1. \A id \in DOMAIN rows : rows[id].used = 0 /\ rows[id].reserved = 0
    BY <1>5, PlanRow
  <2>2. CountersKept(rows)
    BY <1>7, <2>1 DEF CountersKept
  <2> QED
    BY <1>2, <1>7, <2>2, InsertKeepsCounts
<1>15. LedgerKeepsIds'
  BY <1>2 DEF SubjectInv, LedgerKeepsIds
<1> QED
  BY <1>2, <1>4, <1>8, <1>12, <1>13, <1>14, <1>15, CommandStep DEF SubjectInv, SubjectTypeOK, OpRecords, Records

\* What an activation deletes was used by nobody, and afterwards is named by nobody.
LEMMA ActivatePreserves ==
  ASSUME SubjectInv, NEW s \in Subscriptions, NEW p \in Periods, NEW plan \in Plans,
         NEW status \in {"trialing", "active", "cancelled"}, Activate(s, plan, status, p)
  PROVE  SubjectInv'
<1>1. PICK gone : gone = Cleared(quotas)
  OBVIOUS
<1>2. PICK new : new = [plan |-> plan, status |-> status, period |-> p]
  OBVIOUS
<1>3. PICK kept : kept = Restrict(quotas, (DOMAIN quotas) \ gone)
  OBVIOUS
<1>4. PICK manual : manual = Restrict(features, {x \in DOMAIN features : x[1] = Manual})
  OBVIOUS
<1>5. PICK rows : rows = PlanQuotas(s, plan, p)
  OBVIOUS
<1>6. PICK feats : feats = PlanFeatures(s, plan)
  OBVIOUS
<1>7. /\ DOMAIN subscription \subseteq {s} /\ \A g \in Grants : allocation[g].row \notin gone
      /\ subscription' = Insert([x \in {s} |-> new], subscription)
      /\ Insertable(rows, kept)
      /\ features' = Insert(feats, manual) /\ quotas' = Insert(rows, kept)
      /\ reservation' = [o \in Ops |-> IF reservation[o].row \in gone THEN Absent ELSE reservation[o]]
      /\ UNCHANGED <<ledger, allocation, now>>
  BY <1>1, <1>2, <1>3, <1>4, <1>5, <1>6 DEF Activate, SubjectIndex, Materialize
<1>8. DOMAIN subscription' = {s} /\ subscription'[s] = new
  BY <1>7 DEF Insert
<1>9. /\ new \in [plan : Plans, status : {"trialing", "active", "cancelled"}, period : Periods]
      /\ new.plan = plan /\ new.period = p
  BY <1>2
<1>10. /\ Inserted(quotas', rows, kept) /\ Inserted(features', feats, manual)
       /\ (DOMAIN rows) \intersect DOMAIN kept = {}
  BY <1>7, InsertIs DEF Insertable
<1>11. /\ DOMAIN kept = (DOMAIN quotas) \ gone /\ \A id \in DOMAIN kept : kept[id] = quotas[id]
  BY <1>3 DEF Restrict
<1>12. /\ DOMAIN manual = {x \in DOMAIN features : x[1] = Manual}
       /\ \A x \in DOMAIN manual : manual[x] = features[x]
  BY <1>4 DEF Restrict
<1>13. GoodRows(kept) /\ GoodFeatures(manual)
  <2>1. GoodRows(quotas) /\ GoodFeatures(features)
    BY TablesAreGood DEF SubjectInv
  <2>2. GoodRows(kept)
    BY <1>11, <2>1 DEF GoodRows
  <2>3. GoodFeatures(manual)
    BY <1>12, <2>1 DEF GoodFeatures
  <2> QED
    BY <2>2, <2>3
<1>14. GoodRows(quotas') /\ GoodFeatures(features')
  BY <1>5, <1>6, <1>7, <1>13, PlanRowsAreGood, InsertIsGood
<1>15. FeaturesFollowPlan'
  <2>1. \A x \in DOMAIN feats : x[1] = s
    BY <1>6 DEF PlanFeatures
  <2>2. s # Manual
    BY EntitlementsAssumption
  <2>3. {x \in DOMAIN features' : x[1] # Manual} = DOMAIN feats
    BY <1>10, <1>12, <2>1, <2>2 DEF Inserted
  <2>4. PlanOnly(features') = [x \in DOMAIN feats |-> feats[x]]
    BY <1>10, <2>3 DEF PlanOnly, Restrict, Inserted
  <2>5. feats = [x \in DOMAIN feats |-> feats[x]]
    BY <1>6 DEF PlanFeatures
  <2>6. PlanOnly(features') = PlanFeatures(s, plan)
    BY <1>6, <2>4, <2>5
  <2> QED
    BY <1>8, <1>9, <2>6, FollowsPlan DEF FeaturesOfPlan
<1>16. QuotasFollowPlan'
  <2>1. Matches(quotas', rows)
    BY <1>10 DEF Matches, Inserted
  <2>2. Matches(quotas', PlanQuotas(s, plan, p))
    BY <1>5, <2>1
  <2> QED
    BY <1>8, <1>9, <2>2, FollowsPlan DEF QuotasOfPlan
<1>17. ASSUME NEW o \in Ops
       PROVE  /\ reservation[o].row \in gone => reservation'[o] = Absent
              /\ reservation[o].row \notin gone => reservation'[o] = reservation[o]
  BY <1>7
<1>18. /\ reservation' \in [Ops -> OpRecords] /\ LedgerKeepsIds'
  <2>1. reservation \in [Ops -> OpRecords]
    BY DEF SubjectInv, SubjectTypeOK, OpRecords, Records
  <2>2. Absent \in OpRecords
    BY DEF OpRecords, Records
  <2>3. reservation' \in [Ops -> OpRecords]
    BY <1>7, <2>1, <2>2
  <2>4. \A o \in Ops : reservation'[o] # Absent => o \in ledger
    BY <1>17 DEF SubjectInv, LedgerKeepsIds
  <2> QED
    BY <1>7, <2>3, <2>4 DEF LedgerKeepsIds
<1>19. ASSUME NEW id \in gone
       PROVE  UsedOf(id)' = 0 /\ HeldOf(id)' = 0
  <2>1. ASSUME NEW st, st # "none"
        PROVE  Users(id, st)' = {} /\ Borrowers(id, st)' = {}
    <3>1. [row |-> id, status |-> st].row = id /\ [row |-> id, status |-> st].status = st /\ Absent.status = "none"
      BY DEF Absent
    <3>2. ASSUME NEW o \in Ops PROVE reservation'[o] # [row |-> id, status |-> st]
      <4>1. CASE reservation[o].row \in gone
        BY <1>17, <2>1, <3>1, <4>1
      <4>2. CASE reservation[o].row \notin gone
        BY <1>17, <3>1, <4>2
      <4> QED
        BY <4>1, <4>2
    <3>3. ASSUME NEW g \in Grants PROVE allocation'[g] # [row |-> id, status |-> st]
      BY <1>7, <3>1
    <3>4. Users(id, st)' = {}
      BY <3>2 DEF Users, Holders
    <3>5. Borrowers(id, st)' = {}
      BY <3>3 DEF Borrowers, Holders
    <3> QED
      BY <3>4, <3>5
  <2>2. /\ Users(id, "committed")' = {} /\ Users(id, "reserved")' = {}
        /\ Borrowers(id, "used")' = {} /\ Borrowers(id, "lent")' = {}
    BY <2>1
  <2> QED
    BY <2>2, FS_EmptySet DEF UsedOf, HeldOf
<1>20. ASSUME NEW id, id \notin gone
       PROVE  UsedOf(id)' = UsedOf(id) /\ HeldOf(id)' = HeldOf(id)
  <2>1. ASSUME NEW st, st # "none"
        PROVE  Users(id, st)' = Users(id, st) /\ Borrowers(id, st)' = Borrowers(id, st)
    <3>1. [row |-> id, status |-> st].row = id /\ [row |-> id, status |-> st].status = st /\ Absent.status = "none"
      BY DEF Absent
    <3>2. ASSUME NEW o \in Ops
          PROVE  reservation'[o] = [row |-> id, status |-> st] <=> reservation[o] = [row |-> id, status |-> st]
      <4>1. CASE reservation[o].row \in gone
        BY <1>17, <1>20, <2>1, <3>1, <4>1
      <4>2. CASE reservation[o].row \notin gone
        BY <1>17, <4>2
      <4> QED
        BY <4>1, <4>2
    <3>3. Users(id, st)' = Users(id, st)
      BY <3>2 DEF Users, Holders
    <3>4. Borrowers(id, st)' = Borrowers(id, st)
      BY <1>7 DEF Borrowers, Holders
    <3> QED
      BY <3>3, <3>4
  <2>2. /\ Users(id, "committed")' = Users(id, "committed") /\ Users(id, "reserved")' = Users(id, "reserved")
        /\ Borrowers(id, "used")' = Borrowers(id, "used") /\ Borrowers(id, "lent")' = Borrowers(id, "lent")
    BY <2>1
  <2> QED
    BY <2>2 DEF UsedOf, HeldOf
<1>21. Counted'
  <2> SUFFICES ASSUME NEW id \in RowIds
               PROVE  IF id \in DOMAIN quotas' THEN quotas'[id].used = UsedOf(id)' /\ quotas'[id].reserved = HeldOf(id)'
                      ELSE UsedOf(id)' = 0 /\ HeldOf(id)' = 0
    BY DEF Counted, RowIds, Sources
  <2>1. IF id \in DOMAIN quotas THEN quotas[id].used = UsedOf(id) /\ quotas[id].reserved = HeldOf(id)
        ELSE UsedOf(id) = 0 /\ HeldOf(id) = 0
    BY DEF SubjectInv, Counted
  <2>2. id \in DOMAIN rows => rows[id].used = 0 /\ rows[id].reserved = 0
    BY <1>5, PlanRow
  <2>3. CASE id \in gone
    <3>1. id \notin DOMAIN kept
      BY <1>11, <2>3
    <3> QED
      BY <1>10, <1>19, <2>2, <2>3, <3>1 DEF Inserted
  <2>4. CASE id \notin gone
    <3>1. UsedOf(id)' = UsedOf(id) /\ HeldOf(id)' = HeldOf(id)
      BY <1>20, <2>4
    <3>2. CASE id \in DOMAIN quotas
      <4>1. id \in DOMAIN kept /\ kept[id] = quotas[id] /\ id \notin DOMAIN rows
        BY <1>10, <1>11, <2>4, <3>2
      <4> QED
        BY <1>10, <2>1, <3>1, <3>2, <4>1 DEF Inserted
    <3>3. CASE id \notin DOMAIN quotas
      <4>1. id \notin DOMAIN kept
        BY <1>11, <3>3
      <4> QED
        BY <1>10, <2>1, <2>2, <3>1, <3>3, <4>1 DEF Inserted
    <3> QED
      BY <3>2, <3>3
  <2> QED
    BY <2>3, <2>4
<1>22. /\ DOMAIN subscription' \subseteq Subscriptions
       /\ \A x \in DOMAIN subscription' :
            subscription'[x] \in [plan : Plans, status : {"trialing", "active", "cancelled"}, period : Periods]
  BY <1>8, <1>9
<1>23. now' \in Periods
  BY <1>7 DEF SubjectInv, SubjectTypeOK
<1> QED
  BY <1>7, <1>14, <1>15, <1>16, <1>18, <1>21, <1>22, <1>23, CommandStep

-----------------------------------------------------------------------------
(* Entitlements: the theorems. *)

LEMMA InitSubject == SubjectInit => SubjectInv
<1> SUFFICES ASSUME SubjectInit PROVE SubjectInv
  OBVIOUS
<1>1. /\ DOMAIN subscription = {} /\ DOMAIN features = {} /\ DOMAIN quotas = {}
      /\ reservation = [o \in Ops |-> Absent] /\ allocation = [g \in Grants |-> Absent]
      /\ ledger = {} /\ now \in Periods
  BY DEF SubjectInit
<1>2. SubjectTypeOK
  BY <1>1 DEF SubjectTypeOK, Range
<1>3. FeaturesFollowPlan /\ QuotasFollowPlan /\ LedgerKeepsIds
  BY <1>1 DEF FeaturesFollowPlan, QuotasFollowPlan, LedgerKeepsIds
<1>4. ASSUME NEW id PROVE UsedOf(id) = 0 /\ HeldOf(id) = 0
  <2>1. ASSUME NEW st, st # "none" PROVE Users(id, st) = {} /\ Borrowers(id, st) = {}
    <3>1. [row |-> id, status |-> st].status = st /\ Absent.status = "none"
      BY DEF Absent
    <3>2. \A o \in Ops : reservation[o] # [row |-> id, status |-> st]
      BY <1>1, <2>1, <3>1
    <3>3. \A g \in Grants : allocation[g] # [row |-> id, status |-> st]
      BY <1>1, <2>1, <3>1
    <3> QED
      BY <3>2, <3>3 DEF Users, Borrowers, Holders
  <2>2. /\ Users(id, "committed") = {} /\ Users(id, "reserved") = {}
        /\ Borrowers(id, "used") = {} /\ Borrowers(id, "lent") = {}
    BY <2>1
  <2> QED
    BY <2>2, FS_EmptySet DEF UsedOf, HeldOf
<1>5. Counted
  BY <1>1, <1>4 DEF Counted
<1> QED
  BY <1>2, <1>3, <1>5 DEF SubjectInv

LEMMA NextSubject == SubjectInv /\ [SubjectNext]_subjectTables => SubjectInv'
<1> SUFFICES ASSUME SubjectInv, [SubjectNext]_subjectTables PROVE SubjectInv'
  OBVIOUS
<1>1. ASSUME NEW s \in Subscriptions, NEW p \in Periods, NEW plan \in Plans,
             NEW status \in {"trialing", "active", "cancelled"}, Activate(s, plan, status, p)
      PROVE  SubjectInv'
  BY <1>1, ActivatePreserves
<1>2. ASSUME NEW s \in Subscriptions, NEW p \in Periods, Renew(s, p) PROVE SubjectInv'
  BY <1>2, RenewPreserves
<1>3. ASSUME NEW s \in Subscriptions, Cancel(s) PROVE SubjectInv'
  BY <1>3, CancelPreserves
<1>4. ASSUME NEW f \in Features, NEW effect \in Effects, OverrideFeature(f, effect) PROVE SubjectInv'
  BY <1>4, OverrideFeaturePreserves
<1>5. ASSUME NEW k \in Keys, NEW effect \in Effects, NEW limit \in Limits, NEW p \in Periods,
             OverrideQuota(k, effect, limit, p)
      PROVE  SubjectInv'
  BY <1>5, OverrideQuotaPreserves
<1>6. ASSUME NEW o \in Ops, (\E k \in Keys : ReserveQuotas(o, k)) \/ CommitQuotas(o) \/ ReleaseQuotas(o)
      PROVE  SubjectInv'
  BY <1>6, ReservePreserves, CommitPreserves, ReleasePreserves
<1>7. ASSUME NEW g \in Grants,
             (\E k \in Keys : CreateExternalGrant(g, k)) \/ ConsumeExternal(g) \/ RevokeExternalGrant(g)
      PROVE  SubjectInv'
  BY <1>7, LendPreserves, ConsumePreserves, TakeBackPreserves
<1>8. ASSUME NextPeriod PROVE SubjectInv'
  BY <1>8, NextPeriodPreserves
<1>9. ASSUME UNCHANGED subjectTables PROVE SubjectInv'
  BY <1>9, StutterPreserves
<1> QED
  BY <1>1, <1>2, <1>3, <1>4, <1>5, <1>6, <1>7, <1>8, <1>9 DEF SubjectNext

LEMMA SubjectInvariant == SubjectSpec => []SubjectInv
BY InitSubject, NextSubject, PTL DEF SubjectSpec

\* The tables hold what their columns and the CHECK of the counters allow,
\* whatever commands and users do (the queries of
\* src/internal/entitlement/infra/repository.go and of the quota engine).
THEOREM SubjectTypesHold == SubjectSpec => []SubjectTypeOK
<1>1. SubjectInv => SubjectTypeOK
  BY DEF SubjectInv
<1> QED
  BY <1>1, SubjectInvariant, PTL

\* The plan's feature rows are those of the plan subscribed to, after any
\* sequence of activations, renewals, cancellations and overrides.
THEOREM FeaturesFollow == SubjectSpec => []FeaturesFollowPlan
<1>1. SubjectInv => FeaturesFollowPlan
  BY DEF SubjectInv
<1> QED
  BY <1>1, SubjectInvariant, PTL

\* Each quota rule of the plan has its row, with the rule's effect and limit,
\* for the period the subscription is in.
THEOREM QuotasFollow == SubjectSpec => []QuotasFollowPlan
<1>1. SubjectInv => QuotasFollowPlan
  BY DEF SubjectInv
<1> QED
  BY <1>1, SubjectInvariant, PTL

\* Whatever a plan change deletes, a row counts as used and reserved what
\* operations and grants have used and hold of it, within its limit, and no row
\* that somebody used or holds is gone.
THEOREM UsageKept == SubjectSpec => []UsageIsNotForgotten
<1>1. SubjectInv => UsageIsNotForgotten
  <2> SUFFICES ASSUME SubjectInv, NEW id \in RowIds
               PROVE  IF id \in DOMAIN quotas
                      THEN /\ quotas[id].used = UsedOf(id) /\ quotas[id].reserved = HeldOf(id)
                           /\ UsedOf(id) + HeldOf(id) <= quotas[id].limit
                      ELSE UsedOf(id) + HeldOf(id) = 0
    BY DEF UsageIsNotForgotten, UsedOf, HeldOf, Users, Borrowers, Holders
  <2> QED
    BY UsesAreNat DEF SubjectInv, SubjectTypeOK, Counted
<1> QED
  BY <1>1, SubjectInvariant, PTL

\* A reservation in force leaves that state by its own commit or release and
\* keeps its row: the deletion of rows by a plan change never takes it along.
THEOREM HoldersKeep == SubjectSpec => HoldersKeepTheirRows
<1> DEFINE Kept(o) == reservation[o].status = "reserved" /\ reservation'[o] # reservation[o] =>
                        reservation'[o].row = reservation[o].row /\ subscription' = subscription
<1>1. ASSUME SubjectInv, SubjectNext, NEW o \in Ops, reservation[o].status = "reserved"
      PROVE  Kept(o)
  <2>1. reservation[o].row \in DOMAIN quotas /\ quotas[reservation[o].row].reserved >= 1
    BY <1>1, HolderHasRow
  <2>2. o \in ledger
    BY <1>1 DEF SubjectInv, LedgerKeepsIds, Absent
  <2>3. ASSUME NEW s, NEW plan, NEW status, NEW p, Activate(s, plan, status, p) PROVE Kept(o)
    <3>1. reservation[o].row \notin Cleared(quotas)
      BY <2>1 DEF Cleared
    <3> QED
      BY <2>3, <3>1 DEF Activate
  <2>4. ASSUME NEW other \in Ops, NEW k, ReserveQuotas(other, k) PROVE Kept(o)
    <3>1. other # o
      BY <2>2, <2>4 DEF ReserveQuotas
    <3>2. reservation'[o] = reservation[o]
      BY <1>1, <2>4, <3>1 DEF ReserveQuotas, SubjectInv, SubjectTypeOK
    <3> QED
      BY <3>2
  <2>5. reservation[o] \in [row : RowIds, status : {"reserved", "committed", "released"}]
    BY <1>1, HolderHasRow
  <2>6. reservation \in [Ops -> OpRecords]
    BY <1>1 DEF SubjectInv, SubjectTypeOK, OpRecords, Records
  <2>7. ASSUME NEW other \in Ops, CommitQuotas(other) \/ ReleaseQuotas(other) PROVE Kept(o)
    <3>1. subscription' = subscription
      BY <2>7 DEF CommitQuotas, ReleaseQuotas
    <3>2. CASE other # o
      BY <2>6, <2>7, <3>2 DEF CommitQuotas, ReleaseQuotas
    <3>3. CASE other = o
      <4>1. reservation'[o] = [reservation[o] EXCEPT !.status = "committed"]
              \/ reservation'[o] = [reservation[o] EXCEPT !.status = "released"]
        BY <2>6, <2>7, <3>3 DEF CommitQuotas, ReleaseQuotas
      <4>2. reservation'[o].row = reservation[o].row
        BY <2>5, <4>1
      <4> QED
        BY <3>1, <4>2
    <3> QED
      BY <3>2, <3>3
  <2>8. CASE UNCHANGED reservation
    BY <2>8
  <2> QED
    BY <1>1, <2>3, <2>4, <2>7, <2>8
    DEF SubjectNext, Renew, Cancel, OverrideFeature, OverrideQuota, CreateExternalGrant, ConsumeExternal,
        RevokeExternalGrant, NextPeriod
<1>2. SubjectInv /\ [SubjectNext]_subjectTables => [\A o \in Ops : Kept(o)]_subjectTables
  BY <1>1
<1> QED
  BY <1>2, SubjectInvariant, PTL DEF SubjectSpec, HoldersKeepTheirRows

================================================================================
