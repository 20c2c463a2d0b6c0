------------------------- MODULE IdentitySnapshotProofs -------------------------
(***************************************************************************)
(* What /me shows is what the engine decides, for any principals, rules    *)
(* and rows in any order.  The invariant says that each fact is the deny-  *)
(* wins fold of the effects of the rows read so far, the period their span *)
(* and the quota their sum; the first part gives the principals they stand *)
(* for.                                                                    *)
(***************************************************************************)
EXTENDS IdentitySnapshot, TotalsProofs, SequenceTheorems

-----------------------------------------------------------------------------
(* Both loops compute what they should when they end, for any principals    *)
(* and any list of rules.  The invariant says that what has been found is   *)
(* right (found things are reachable) and what a pass without changes has   *)
(* shown so far (the rules it visited lead to nothing new).                 *)

\* A rule leads to no origin that is not there.
Satisfied(rule) ==
  origins[rule.from] # {} => Propagated(rule, origins[rule.from]) \subseteq origins[rule.to]

Right(p, o) == /\ p \in Reach(Start, All)
               /\ p \in Reach(o, Inheriting)
               /\ o = Start \/ Assigned(o)

ReachableInv ==
  /\ Granted \in reachable
  /\ reachable \subseteq Reach(Granted, All)
  /\ loop = "reach" /\ ~changed =>
       \A i \in 1 .. next - 1 : rules[i].from \in reachable => rules[i].to \in reachable
  /\ loop # "reach" => ClosedUnder(reachable, All)

OriginsInv ==
  /\ Start \in origins[Start]
  /\ \A p \in Principals : \A o \in origins[p] : Right(p, o)
  /\ loop = "origins" /\ ~changed => \A i \in 1 .. next - 1 : Satisfied(rules[i])
  /\ loop = "done" => \A rule \in All : Satisfied(rule)

LoopsInv == FollowTypeOK /\ ReachableInv /\ OriginsInv

-----------------------------------------------------------------------------
(* Reach. *)

LEMMA ReachStarts ==
  ASSUME NEW p \in Principals, NEW R
  PROVE  p \in Reach(p, R)
BY DEF Reach

LEMMA ReachFollows ==
  ASSUME NEW p \in Principals, NEW R, NEW rule \in R, rule.from \in Reach(p, R), rule.to \in Principals
  PROVE  rule.to \in Reach(p, R)
BY DEF Reach, ClosedUnder

LEMMA ReachLeast ==
  ASSUME NEW p \in Principals, NEW R, NEW S \in SUBSET Principals, p \in S, ClosedUnder(S, R)
  PROVE  Reach(p, R) \subseteq S
BY DEF Reach

LEMMA RuleTypes ==
  ASSUME FollowTypeOK
  PROVE  /\ \A i \in 1 .. Len(rules) : rules[i] \in Rules /\ rules[i] \in All
         /\ \A rule \in All : rule.from \in Principals /\ rule.to \in Principals
<1>1. \A i \in 1 .. Len(rules) : rules[i] \in Rules
  <2> SUFFICES ASSUME NEW i \in 1 .. Len(rules) PROVE rules[i] \in Rules
    OBVIOUS
  <2>1. rules \in Seq(Rules)
    BY DEF FollowTypeOK
  <2> QED BY <2>1, ElementOfSeq
<1>2. \A rule \in Rules : rule.from \in Principals /\ rule.to \in Principals
  BY DEF Rules
<1> QED BY <1>1, <1>2 DEF All

-----------------------------------------------------------------------------
(* The steps. *)

LEMMA InitEstablishes == FollowInit => LoopsInv
<1> SUFFICES ASSUME FollowInit PROVE LoopsInv
  OBVIOUS
<1>1. FollowTypeOK
  <2>1. rules \in Seq(Rules) /\ Start \in Principals /\ Granted \in Principals
    BY PrincipalsAssumption DEF FollowInit
  <2>2. 1 \in 1 .. Len(rules) + 1
    BY <2>1, LenProperties
  <2> QED BY <2>1, <2>2 DEF FollowInit, FollowTypeOK
<1>2. /\ Granted \in Reach(Granted, All)
      /\ Start \in Principals /\ Start \in Reach(Start, All) /\ Start \in Reach(Start, Inheriting)
  BY PrincipalsAssumption, ReachStarts
<1>3. ReachableInv
  BY <1>2 DEF FollowInit, ReachableInv
<1>4. OriginsInv
  BY <1>2 DEF FollowInit, OriginsInv, Right
<1> QED BY <1>1, <1>3, <1>4 DEF LoopsInv

LEMMA VisitReachablePreserves ==
  ASSUME LoopsInv, VisitReachable
  PROVE  LoopsInv'
<1> DEFINE rule == rules[next]
<1>1. /\ loop = "reach" /\ next \in 1 .. Len(rules) /\ UNCHANGED <<rules, loop, origins>>
      /\ next' = next + 1
  BY DEF LoopsInv, FollowTypeOK, VisitReachable
<1>2. rule \in All /\ rule.from \in Principals /\ rule.to \in Principals
  BY <1>1, RuleTypes DEF LoopsInv
<1>3. /\ reachable' = reachable \/ reachable' = reachable \union {rule.to}
      /\ changed' \in BOOLEAN
      /\ ~changed' => ~changed /\ reachable' = reachable
      /\ ~changed' => (rule.from \in reachable => rule.to \in reachable)
      /\ reachable' # reachable => rule.from \in reachable
  BY DEF LoopsInv, FollowTypeOK, VisitReachable
<1>4. FollowTypeOK'
  BY <1>1, <1>2, <1>3 DEF LoopsInv, FollowTypeOK
<1>5. All' = All /\ Inheriting' = Inheriting
  BY <1>1 DEF All, Inheriting
<1>6. reachable' \subseteq Reach(Granted, All)
  BY <1>2, <1>3, ReachFollows, PrincipalsAssumption DEF LoopsInv, ReachableInv
<1>7. ASSUME ~changed', NEW i \in 1 .. next
      PROVE  rules[i].from \in reachable => rules[i].to \in reachable
  BY <1>1, <1>3, <1>7 DEF LoopsInv, FollowTypeOK, ReachableInv
<1>8. ReachableInv'
  <2>1. Granted \in reachable' /\ reachable' \subseteq Reach(Granted, All)'
    BY <1>3, <1>5, <1>6 DEF LoopsInv, ReachableInv, Reach
  <2>2. loop' = "reach"
    BY <1>1
  <2>3. ~changed' => \A i \in 1 .. next' - 1 : rules'[i].from \in reachable' => rules'[i].to \in reachable'
    BY <1>1, <1>3, <1>7
  <2> QED BY <2>1, <2>2, <2>3 DEF ReachableInv
<1>9. OriginsInv'
  <2>1. \A p, o : Right(p, o)' = Right(p, o)
    BY <1>5 DEF Right, Reach, Assigned
  <2> QED BY <1>1, <2>1 DEF LoopsInv, OriginsInv
<1> QED BY <1>4, <1>8, <1>9 DEF LoopsInv

LEMMA VisitOriginsPreserves ==
  ASSUME LoopsInv, VisitOrigins
  PROVE  LoopsInv'
<1> DEFINE rule == rules[next]
           new == IF origins[rule.from] = {} THEN {} ELSE Propagated(rule, origins[rule.from])
<1>1. /\ loop = "origins" /\ next \in 1 .. Len(rules) /\ UNCHANGED <<rules, loop, reachable>>
      /\ next' = next + 1
      /\ origins' = [origins EXCEPT ![rule.to] = @ \union new]
      /\ changed' = (changed \/ ~(new \subseteq origins[rule.to]))
  BY DEF LoopsInv, FollowTypeOK, VisitOrigins
<1>2. rule \in All /\ rule.from \in Principals /\ rule.to \in Principals
  BY <1>1, RuleTypes DEF LoopsInv
<1>3. new \subseteq Principals
  BY <1>2 DEF LoopsInv, FollowTypeOK, Propagated
<1>4. FollowTypeOK'
  BY <1>1, <1>2, <1>3 DEF LoopsInv, FollowTypeOK
<1>5. All' = All /\ Inheriting' = Inheriting
  BY <1>1 DEF All, Inheriting
<1>6. \A p, o : Right(p, o)' = Right(p, o)
  BY <1>5 DEF Right, Reach, Assigned
<1>7. ReachableInv'
  BY <1>1, <1>5 DEF LoopsInv, ReachableInv, Reach, ClosedUnder
<1>8. ASSUME NEW o \in new PROVE Right(rule.to, o)
  <2>1. PICK known \in origins[rule.from] : TRUE
    BY <1>8
  <2>2. Right(rule.from, known)
    BY <1>2, <2>1 DEF LoopsInv, OriginsInv
  <2>3. rule.to \in Reach(Start, All)
    BY <1>2, <2>2, ReachFollows, PrincipalsAssumption DEF Right
  <2>4. CASE Assigns(rule)
    <3>1. o = rule.to
      BY <1>8, <2>4 DEF Propagated
    <3>2. Assigned(o)
      BY <1>2, <2>2, <2>4, <3>1 DEF Assigned, Right
    <3> QED BY <1>2, <2>3, <3>1, <3>2, ReachStarts DEF Right
  <2>5. CASE ~Assigns(rule)
    <3>1. o \in origins[rule.from] /\ o \in Principals
      BY <1>3, <1>8, <2>5 DEF Propagated
    <3>2. Right(rule.from, o)
      BY <1>2, <3>1 DEF LoopsInv, OriginsInv
    <3>3. rule \in Inheriting
      BY <1>2, <2>5 DEF Inheriting
    <3> QED BY <1>2, <2>3, <3>1, <3>2, <3>3, ReachFollows DEF Right
  <2> QED BY <2>4, <2>5
<1>9. ASSUME NEW p \in Principals, NEW o \in origins'[p] PROVE Right(p, o)
  <2>1. o \in origins[p] \/ (p = rule.to /\ o \in new)
    BY <1>1, <1>2 DEF LoopsInv, FollowTypeOK
  <2> QED BY <1>8, <2>1 DEF LoopsInv, OriginsInv
<1>10. ASSUME ~changed' PROVE \A i \in 1 .. next : Satisfied(rules[i])'
  <2>1. ~changed /\ new \subseteq origins[rule.to]
    BY <1>1, <1>10
  <2>2. origins' = origins
    BY <1>1, <1>2, <2>1 DEF LoopsInv, FollowTypeOK
  <2>3. \A i \in 1 .. next - 1 : Satisfied(rules[i])
    BY <1>1, <2>1 DEF LoopsInv, OriginsInv
  <2>4. Satisfied(rule)
    BY <2>1 DEF Satisfied
  <2>5. \A i \in 1 .. next : Satisfied(rules[i])
    BY <1>1, <2>3, <2>4
  <2> QED BY <1>1, <2>2, <2>5 DEF Satisfied
<1>11. OriginsInv'
  <2>1. Start \in origins'[Start]
    BY <1>1, <1>2, PrincipalsAssumption DEF LoopsInv, FollowTypeOK, OriginsInv
  <2>2. \A p \in Principals : \A o \in origins'[p] : Right(p, o)'
    BY <1>6, <1>9
  <2>3. loop' = "origins" /\ next' - 1 = next
    BY <1>1
  <2> QED BY <1>10, <2>1, <2>2, <2>3 DEF OriginsInv
<1> QED BY <1>4, <1>7, <1>11 DEF LoopsInv

LEMMA EndPassPreserves ==
  ASSUME LoopsInv, EndPass
  PROVE  LoopsInv'
<1>1. /\ loop \in {"reach", "origins"} /\ next = Len(rules) + 1 /\ Len(rules) \in Nat
      /\ next' = 1 /\ ~changed' /\ UNCHANGED <<rules, reachable, origins>>
      /\ loop' = IF changed THEN loop ELSE IF loop = "reach" THEN "origins" ELSE "done"
  BY DEF LoopsInv, FollowTypeOK, EndPass
<1>2. FollowTypeOK'
  <2>1. next' \in 1 .. Len(rules') + 1
    BY <1>1
  <2>2. changed' \in BOOLEAN /\ loop' \in {"reach", "origins", "done"}
    BY <1>1 DEF EndPass
  <2>3. rules' \in Seq(Rules) /\ reachable' \in SUBSET Principals /\ origins' \in [Principals -> SUBSET Principals]
    BY <1>1 DEF LoopsInv, FollowTypeOK
  <2> QED BY <2>1, <2>2, <2>3 DEF FollowTypeOK
<1>3. All' = All /\ Inheriting' = Inheriting
  BY <1>1 DEF All, Inheriting
<1>4. loop' # "reach" => ClosedUnder(reachable, All)
  BY <1>1 DEF LoopsInv, ReachableInv, ClosedUnder, All
<1>5. loop' = "done" => \A rule \in All : Satisfied(rule)
  BY <1>1 DEF LoopsInv, OriginsInv, All
<1>6. ReachableInv'
  BY <1>1, <1>3, <1>4 DEF LoopsInv, ReachableInv, Reach, ClosedUnder
<1>7. \A p, o : Right(p, o)' = Right(p, o)
  BY <1>3 DEF Right, Reach, Assigned
<1>8. OriginsInv'
  BY <1>1, <1>3, <1>5, <1>7 DEF LoopsInv, OriginsInv, Satisfied
<1> QED BY <1>2, <1>6, <1>8 DEF LoopsInv

LEMMA StutterPreserves ==
  ASSUME LoopsInv, UNCHANGED following
  PROVE  LoopsInv'
<1>1. UNCHANGED <<rules, loop, next, changed, reachable, origins>>
  BY DEF following
<1>2. All' = All /\ Inheriting' = Inheriting
  BY <1>1 DEF All, Inheriting
<1>3. FollowTypeOK'
  BY <1>1 DEF LoopsInv, FollowTypeOK
<1>4. ReachableInv'
  BY <1>1, <1>2 DEF LoopsInv, ReachableInv, Reach, ClosedUnder
<1>5. \A p, o : Right(p, o)' = Right(p, o)
  BY <1>2 DEF Right, Reach, Assigned
<1>6. OriginsInv'
  BY <1>1, <1>2, <1>5 DEF LoopsInv, OriginsInv, Satisfied
<1> QED BY <1>3, <1>4, <1>6 DEF LoopsInv

LEMMA FollowPreserves ==
  ASSUME LoopsInv, [FollowNext]_following
  PROVE  LoopsInv'
BY StutterPreserves, VisitReachablePreserves, VisitOriginsPreserves, EndPassPreserves DEF FollowNext

\* What the two loops of PoliciesForPrincipal and collectPolicyOrigins have found so
\* far is derivable, and what they have passed by is found, at every step of them.
THEOREM LoopsInvariant == FollowSpec => []LoopsInv
BY FollowPreserves, InitEstablishes, PTL DEF FollowSpec

-----------------------------------------------------------------------------

LEMMA LoopsFindReachable == LoopsInv => ReachableExactly
<1> SUFFICES ASSUME LoopsInv, loop # "reach" PROVE reachable = Reach(Granted, All)
  BY DEF ReachableExactly
<1>1. Reach(Granted, All) \subseteq reachable
  BY ReachLeast, PrincipalsAssumption DEF LoopsInv, FollowTypeOK, ReachableInv
<1> QED BY <1>1 DEF LoopsInv, ReachableInv

\* PoliciesForPrincipal ends with all principals that Granted leads to and no
\* others, for any rules in any order.
THEOREM ReachableIsExact == FollowSpec => []ReachableExactly
BY LoopsFindReachable, LoopsInvariant, PTL

\* collectPolicyOrigins ends with the origins that the assignments explain, and
\* with all of them.
THEOREM OriginsAreExact == FollowSpec => []OriginsExactly
<1>1. LoopsInv => OriginsExactly
  <2> SUFFICES ASSUME LoopsInv, loop = "done", NEW p \in Principals, NEW o \in Principals
               PROVE  o \in origins[p] <=> p \in Reach(o, Inheriting) /\ (o = Start \/ Assigned(o))
    BY DEF OriginsExactly
  <2>1. o \in origins[p] => p \in Reach(o, Inheriting) /\ (o = Start \/ Assigned(o))
    BY DEF LoopsInv, OriginsInv, Right
  <2>2. ASSUME p \in Reach(o, Inheriting), o = Start \/ Assigned(o) PROVE o \in origins[p]
    <3> DEFINE Found == {q \in Principals : origins[q] # {}}
               Having == {q \in Principals : o \in origins[q]}
    <3>1. \A rule \in All : rule.from \in Principals /\ rule.to \in Principals /\ Satisfied(rule)
      BY RuleTypes DEF LoopsInv, OriginsInv
    <3>2. ClosedUnder(Found, All)
      BY <3>1 DEF ClosedUnder, Satisfied, Propagated
    <3>3. Reach(Start, All) \subseteq Found
      <4>1. Start \in Found /\ Start \in Principals
        BY PrincipalsAssumption DEF LoopsInv, OriginsInv
      <4>2. Found \in SUBSET Principals
        OBVIOUS
      <4> HIDE DEF Found
      <4> QED BY <3>2, <4>1, <4>2, ReachLeast
    <3>4. o \in Having
      <4>1. CASE o = Start
        BY <4>1 DEF LoopsInv, OriginsInv
      <4>2. CASE Assigned(o)
        <5>1. PICK rule \in All : Assigns(rule) /\ rule.to = o /\ rule.from \in Reach(Start, All)
          BY <4>2 DEF Assigned
        <5>2. origins[rule.from] # {}
          BY <3>3, <5>1
        <5> QED BY <3>1, <5>1, <5>2 DEF Satisfied, Propagated
      <4> QED BY <2>2, <4>1, <4>2
    <3>5. ClosedUnder(Having, Inheriting)
      BY <3>1 DEF ClosedUnder, Inheriting, Satisfied, Propagated
    <3>6. Reach(o, Inheriting) \subseteq Having
      <4>1. Having \in SUBSET Principals
        OBVIOUS
      <4> HIDE DEF Having
      <4> QED BY <3>4, <3>5, <4>1, ReachLeast
    <3> QED BY <2>2, <3>6
  <2> QED BY <2>1, <2>2
<1> QED BY <1>1, LoopsInvariant, PTL

-----------------------------------------------------------------------------
(* The snapshot's own loop. *)

Fact(S) == IF S = {} THEN "none" ELSE IF "deny" \in S THEN "deny" ELSE "allow"

ShownTypes ==
  /\ rows \in Seq(Rows)
  /\ unread \subseteq DOMAIN rows
  /\ shown \in [Scopes -> [permission : Facts, feature : Facts, quota : Quotas]]
  /\ loop # "done" => unread = DOMAIN rows

\* The p rules of somebody that collectPolicyOrigins found.
OwnPolicies == {n \in DOMAIN rows : rows[n].table = "policy" /\ origins[rows[n].subject] # {}}

\* What the items of these rows do to the permission.
ItemFacts(N) == UNION {ItemEffects(rows[n].effect, PoliciesOf(reachable)) : n \in N}

OwnFold ==
  /\ shown[Own].permission = Fact(EffectsOf(OwnPolicies \ unread))
  /\ shown[Own].feature = Fact(EffectsOf(In("feature", {Own}) \ unread))

LentFold ==
  \A g \in Grants :
    /\ shown[g].permission =
         Fact(EffectsOf(In("permission item", {g}) \ unread)
                \union ItemFacts(In("directory item", {g}) \ unread))
    /\ shown[g].feature = Fact(EffectsOf(In("feature item", {g}) \ unread))

\* q's period spans that of the rows N.
Spans(q, N) ==
  /\ q.effect = "none" <=> N = {}
  /\ N # {} => /\ \A n \in N : q.start <= rows[n].start
               /\ \E n \in N : q.start = rows[n].start
  /\ q.unbounded <=> \E n \in N : rows[n].end = Null
  /\ q.unbounded => q.end = Null
  /\ ~q.unbounded => /\ N = {} <=> q.end = Null
                     /\ \A n \in N : rows[n].end <= q.end
                     /\ N # {} => \E n \in N : rows[n].end = q.end

PeriodFold == Spans(shown[Own].quota, OwnQuotas \ unread)

\* q counts the rows N.  A sum that Go does not wrap has no part that it wraps.
Counts(q, N) ==
  /\ q.effect = Fact(EffectsOf(N))
  /\ q.unlimited <=> \E n \in N : rows[n].effect = "allow" /\ rows[n].limit = Null
  /\ Available(Limited(N)) <= MaxInt => q.left = Available(Limited(N))

QuotaRowsOf(s) == IF s = Own THEN OwnQuotas ELSE In("allocation", {s})

QuotaFold == \A s \in Scopes : Counts(shown[s].quota, QuotaRowsOf(s) \ unread)

SnapshotInv == LoopsInv /\ ShownTypes /\ OwnFold /\ LentFold /\ PeriodFold /\ QuotaFold

-----------------------------------------------------------------------------
(* The helpers. *)

LEMMA AddFactsFolds ==
  ASSUME NEW S \in SUBSET Effects, NEW T \in SUBSET Effects
  PROVE  AddFacts(Fact(S), T) = Fact(S \union T)
BY DEF AddFacts, Fact, Effects

LEMMA AddFactsTypes ==
  ASSUME NEW f \in Facts, NEW T \in SUBSET Effects
  PROVE  AddFacts(f, T) \in Facts
BY DEF AddFacts, Facts, Effects

LEMMA RowTypes ==
  ASSUME rows \in Seq(Rows), NEW n \in DOMAIN rows
  PROVE  /\ rows[n] \in Rows
         /\ rows[n].effect \in Effects
         /\ rows[n].table = "policy" => rows[n].subject \in Principals
         /\ rows[n].table \in {"policy", "feature", "quota"} => rows[n].scope = Own
         /\ rows[n].table \in {"permission item", "feature item", "directory item", "allocation"} =>
              rows[n].scope \in Grants
         /\ rows[n].table = "quota" => rows[n] \in QuotaRows
         /\ rows[n].table = "allocation" => rows[n] \in AllocationRows
<1>1. rows[n] \in Rows
  BY ElementOfSeq, LenProperties
<1> QED BY <1>1 DEF Rows, PolicyRows, FeatureRows, QuotaRows, ItemRows, AllocationRows

LEMMA WrapTypes ==
  ASSUME NEW n \in Int
  PROVE  Wrap(n) \in Int
<1>1. \A a \in Int, b \in Nat \ {0} : a % b \in Int
  BY Z3
<1>2. MaxInt \in Nat
  BY SnapshotAssumption
<1>3. 2 * (MaxInt + 1) \in Nat \ {0} /\ n + MaxInt + 1 \in Int
  BY <1>2
<1>4. (n + MaxInt + 1) % (2 * (MaxInt + 1)) \in Int
  BY <1>1, <1>3
<1> QED BY <1>2, <1>4 DEF Wrap

LEMMA CountTypes ==
  ASSUME NEW q \in Quotas, NEW row, row \in QuotaRows \/ row \in AllocationRows
  PROVE  /\ Count(q, row) \in Quotas
         /\ Count(q, row).effect # "none"
         /\ Count(q, row).start = q.start /\ Count(q, row).end = q.end
         /\ Count(q, row).unbounded = q.unbounded
<1>1. /\ q.effect \in Facts /\ q.unlimited \in BOOLEAN /\ q.left \in Int
      /\ q.start \in Nat /\ q.end \in Nat \union {Null} /\ q.unbounded \in BOOLEAN
      /\ row.effect \in Effects /\ row.limit \in Nat \union {Null} /\ row.taken \in Nat
  BY DEF Quotas, QuotaRows, AllocationRows
<1>2. CASE row.effect = "deny"
  BY <1>2 DEF Count, Quotas, Facts, Effects
<1>3. CASE row.effect # "deny"
  <2> DEFINE left == IF row.limit = Null THEN q.left ELSE Wrap(q.left + row.limit - row.taken)
             effect == AddFacts(q.effect, {"allow"})
             unlimited == q.unlimited \/ row.limit = Null
  <2>1. left \in Int
    BY <1>1, WrapTypes
  <2>2. effect \in Facts /\ effect # "none"
    BY <1>1 DEF AddFacts, Facts, Effects
  <2>3. unlimited \in BOOLEAN
    OBVIOUS
  <2>4. Count(q, row) = [q EXCEPT !.effect = effect, !.unlimited = unlimited, !.left = left]
    BY <1>3 DEF Count
  <2> HIDE DEF left, effect, unlimited
  <2> QED BY <2>1, <2>2, <2>3, <2>4 DEF Quotas
<1> QED BY <1>2, <1>3

LEMMA MergePeriodTypes ==
  ASSUME NEW q \in Quotas, NEW row \in QuotaRows
  PROVE  /\ MergePeriod(q, row) \in Quotas
         /\ MergePeriod(q, row).start = Earlier(q, row)
         /\ MergePeriod(q, row).unbounded = (q.unbounded \/ row.end = Null)
         /\ MergePeriod(q, row).end = IF row.end = Null \/ q.unbounded THEN Null ELSE Later(q, row)
<1> DEFINE start == Earlier(q, row)
           unbounded == q.unbounded \/ row.end = Null
           end == IF row.end = Null \/ q.unbounded THEN Null ELSE Later(q, row)
<1>1. /\ q.start \in Nat /\ q.end \in Nat \union {Null} /\ row.start \in Nat /\ row.end \in Nat \union {Null}
  BY DEF Quotas, QuotaRows
<1>2. start \in Nat /\ end \in Nat \union {Null} /\ unbounded \in BOOLEAN
  BY <1>1 DEF Earlier, Later
<1>3. MergePeriod(q, row) = [q EXCEPT !.start = start, !.unbounded = unbounded, !.end = end]
  BY DEF MergePeriod
<1> HIDE DEF start, unbounded, end
<1>4. /\ MergePeriod(q, row) \in Quotas
      /\ MergePeriod(q, row).start = start
      /\ MergePeriod(q, row).unbounded = unbounded
      /\ MergePeriod(q, row).end = end
  BY <1>2, <1>3 DEF Quotas
<1> QED BY <1>4 DEF start, unbounded, end

\* Go's addition is addition as long as the sum fits.
LEMMA WrapFits ==
  ASSUME NEW n \in 0 .. MaxInt
  PROVE  Wrap(n) = n
<1>1. \A a \in Nat, b \in Nat \ {0} : a < b => a % b = a
  BY Z3
<1>2. MaxInt \in Nat
  BY SnapshotAssumption
<1>3. /\ n + MaxInt + 1 \in Nat /\ 2 * (MaxInt + 1) \in Nat \ {0}
      /\ n + MaxInt + 1 < 2 * (MaxInt + 1)
  BY <1>2
<1>4. (n + MaxInt + 1) % (2 * (MaxInt + 1)) = n + MaxInt + 1
  BY <1>1, <1>3
<1> QED BY <1>2, <1>4 DEF Wrap

\* What the rows leave, one by one.
RowLeft == [n \in DOMAIN rows |-> rows[n].limit - rows[n].taken]

LEMMA FiniteRows ==
  ASSUME rows \in Seq(Rows), NEW N \in SUBSET DOMAIN rows
  PROVE  IsFiniteSet(N)
<1>1. DOMAIN rows = 1 .. Len(rows) /\ Len(rows) \in Nat
  BY LenProperties
<1>2. IsFiniteSet(1 .. Len(rows))
  BY <1>1, FS_Interval
<1> QED BY <1>1, <1>2, FS_Subset

\* Rows with a limit: a CHECK keeps what they leave a natural number.
HasLimit(n) == rows[n] \in QuotaRows \union AllocationRows /\ rows[n].limit # Null

LEMMA RowLeftTypes ==
  ASSUME NEW n \in DOMAIN rows, HasLimit(n)
  PROVE  RowLeft[n] \in Nat
BY DEF HasLimit, RowLeft, QuotaRows, AllocationRows

LEMMA AvailableIs ==
  ASSUME rows \in Seq(Rows), NEW N \in SUBSET DOMAIN rows, \A n \in N : HasLimit(n)
  PROVE  /\ Available(N) = Total(RowLeft, N)
         /\ Available(N) \in Nat
<1>1. IsFiniteSet(N)
  BY FiniteRows
<1>2. \A n \in N : RowLeft[n] \in Nat
  BY RowLeftTypes
<1>3. Available(N) = Total(RowLeft, N)
  <2> DEFINE f == [n \in N |-> rows[n].limit - rows[n].taken]
  <2>1. \A n \in N : f[n] = RowLeft[n]
    BY DEF RowLeft
  <2>2. Total(f, N) = Total(RowLeft, N)
    <3> HIDE DEF f
    <3> QED BY <1>1, <2>1, TotalSame
  <2> QED BY <2>2 DEF Available
<1> QED BY <1>1, <1>2, <1>3, TotalNat

LEMMA AvailableAdds ==
  ASSUME rows \in Seq(Rows), NEW N \in SUBSET DOMAIN rows, NEW n \in DOMAIN rows, n \notin N,
         \A m \in N \union {n} : HasLimit(m)
  PROVE  Available(N \union {n}) = Available(N) + rows[n].limit - rows[n].taken
<1> DEFINE M == N \union {n}
<1>1. IsFiniteSet(M)
  BY FiniteRows
<1>2. \A m \in M : RowLeft[m] \in Nat
  BY RowLeftTypes
<1>3. Total(RowLeft, M) = RowLeft[n] + Total(RowLeft, M \ {n})
  <2>1. n \in M /\ \A m \in M : RowLeft[m] \in Int
    BY <1>2
  <2> HIDE DEF M
  <2> QED BY <1>1, <2>1, TotalStep
<1>4. M \ {n} = N
  OBVIOUS
<1>5. Available(M) = Total(RowLeft, M) /\ Available(N) = Total(RowLeft, N) /\ Available(N) \in Nat
  BY AvailableIs
<1>6. /\ RowLeft[n] = rows[n].limit - rows[n].taken
      /\ rows[n].limit \in Nat /\ rows[n].taken \in Nat
  BY DEF RowLeft, HasLimit, QuotaRows, AllocationRows
<1>7. Available(M) = (rows[n].limit - rows[n].taken) + Available(N)
  BY <1>3, <1>4, <1>5, <1>6
<1> QED BY <1>5, <1>6, <1>7

\* Only the rows are looked at.
LEMMA CountsSame ==
  ASSUME rows' = rows
  PROVE  \A q, N : Counts(q, N)' <=> Counts(q, N)
BY DEF Counts, EffectsOf, Available, Limited

\* What a quota is asked for, without the period.
LEMMA CountsCarries ==
  ASSUME NEW q, NEW p, NEW N, Counts(q, N),
         p.effect = q.effect, p.unlimited = q.unlimited, p.left = q.left
  PROVE  Counts(p, N)
BY DEF Counts

\* One more row is counted, whatever its effect.
LEMMA CountCounts ==
  ASSUME rows \in Seq(Rows), NEW q \in Quotas, NEW N \in SUBSET DOMAIN rows, NEW n \in DOMAIN rows,
         n \notin N, \A m \in N \union {n} : rows[m] \in QuotaRows \union AllocationRows, Counts(q, N)
  PROVE  Counts(Count(q, rows[n]), N \union {n})
<1> DEFINE M == N \union {n}
           row == rows[n]
<1>1. /\ \A m \in M : rows[m].effect \in Effects
      /\ row.limit \in Nat \union {Null} /\ row.taken \in Nat /\ q.left \in Int
      /\ q.effect \in Facts /\ MaxInt \in Nat
  BY SnapshotAssumption DEF QuotaRows, AllocationRows, Quotas
<1>2. \A S \in SUBSET M : (\A m \in S : HasLimit(m)) <=> \A m \in S : rows[m].limit # Null
  BY DEF HasLimit
<1>3. /\ EffectsOf(M) = EffectsOf(N) \union {row.effect}
      /\ EffectsOf(N) \in SUBSET Effects
  BY <1>1 DEF EffectsOf
<1>4. Available(Limited(N)) \in Nat
  <2>1. Limited(N) \in SUBSET DOMAIN rows /\ \A m \in Limited(N) : HasLimit(m)
    BY <1>2 DEF Limited
  <2> QED BY <2>1, AvailableIs
<1>5. CASE row.effect = "deny"
  <2>1. Limited(M) = Limited(N)
    BY <1>5 DEF Limited
  <2>2. Count(q, row) = [q EXCEPT !.effect = "deny"]
    BY <1>5 DEF Count
  <2>3. /\ Count(q, row).effect = "deny" /\ Count(q, row).unlimited = q.unlimited
        /\ Count(q, row).left = q.left
    BY <2>2 DEF Quotas
  <2>4. Fact(EffectsOf(M)) = "deny"
    BY <1>3, <1>5 DEF Fact
  <2>5. (\E m \in M : rows[m].effect = "allow" /\ rows[m].limit = Null)
          <=> \E m \in N : rows[m].effect = "allow" /\ rows[m].limit = Null
    BY <1>5
  <2> QED BY <2>1, <2>3, <2>4, <2>5 DEF Counts
<1>6. CASE row.effect # "deny"
  <2> DEFINE left == IF row.limit = Null THEN q.left ELSE Wrap(q.left + row.limit - row.taken)
             effect == AddFacts(q.effect, {"allow"})
             unlimited == q.unlimited \/ row.limit = Null
  <2>1. row.effect = "allow"
    BY <1>1, <1>6 DEF Effects
  <2>2. Count(q, row) = [q EXCEPT !.effect = effect, !.unlimited = unlimited, !.left = left]
    BY <1>6 DEF Count
  <2>3. effect = Fact(EffectsOf(M))
    <3>1. q.effect = Fact(EffectsOf(N)) /\ {"allow"} \in SUBSET Effects
      BY DEF Counts, Effects
    <3> QED BY <1>3, <2>1, <3>1, AddFactsFolds
  <2>4. unlimited <=> \E m \in M : rows[m].effect = "allow" /\ rows[m].limit = Null
    BY <2>1 DEF Counts
  <2>5. ASSUME Available(Limited(M)) <= MaxInt
        PROVE  left = Available(Limited(M))
    <3>1. CASE row.limit = Null
      <4>1. Limited(M) = Limited(N)
        BY <3>1 DEF Limited
      <4> QED BY <2>5, <3>1, <4>1 DEF Counts
    <3>2. CASE row.limit # Null
      <4>1. Limited(M) = Limited(N) \union {n}
        BY <2>1, <3>2 DEF Limited
      <4>2. Available(Limited(M)) = Available(Limited(N)) + row.limit - row.taken
        <5>1. /\ Limited(N) \in SUBSET DOMAIN rows /\ n \notin Limited(N)
              /\ \A m \in Limited(N) \union {n} : HasLimit(m)
          BY <3>2 DEF Limited, HasLimit
        <5> QED BY <4>1, <5>1, AvailableAdds
      <4>3. row.limit \in Nat /\ row.taken <= row.limit
        BY <3>2 DEF QuotaRows, AllocationRows
      <4>4. Available(Limited(N)) <= MaxInt
        BY <1>1, <1>4, <2>5, <4>2, <4>3
      <4>5. q.left = Available(Limited(N))
        BY <4>4 DEF Counts
      <4>6. q.left + row.limit - row.taken \in 0 .. MaxInt
        BY <1>1, <1>4, <2>5, <4>2, <4>3, <4>5
      <4>7. Wrap(q.left + row.limit - row.taken) = q.left + row.limit - row.taken
        BY <4>6, WrapFits
      <4> QED BY <3>2, <4>2, <4>5, <4>7
    <3> QED BY <3>1, <3>2
  <2> HIDE DEF left, effect, unlimited
  <2>6. /\ Count(q, row).effect = effect /\ Count(q, row).unlimited = unlimited
        /\ Count(q, row).left = left
    BY <2>2 DEF Quotas
  <2> QED BY <2>3, <2>4, <2>5, <2>6 DEF Counts
<1> QED BY <1>5, <1>6

-----------------------------------------------------------------------------
(* The steps. *)

LEMMA InitEstablishesSnapshot == Init => SnapshotInv
<1> SUFFICES ASSUME Init PROVE SnapshotInv
  OBVIOUS
<1>1. LoopsInv
  BY InitEstablishes DEF Init
<1>2. ShownTypes
  <2>1. rows \in Seq(Rows)
    BY SnapshotAssumption DEF Init, FollowInit
  <2>2. NewScope \in [permission : Facts, feature : Facts, quota : Quotas]
    BY DEF NewScope, Facts, Quotas
  <2> QED BY <2>1, <2>2 DEF Init, ShownTypes
<1>3. \A s \in Scopes : shown[s] = NewScope
  BY DEF Init
<1>4. /\ OwnPolicies \ unread = {}
      /\ \A table, S : In(table, S) \ unread = {}
  BY DEF Init, OwnPolicies, In
<1>5. EffectsOf({}) = {} /\ ItemFacts({}) = {} /\ Fact({}) = "none"
  BY DEF EffectsOf, ItemFacts, Fact
<1>6. OwnFold
  BY <1>3, <1>4, <1>5 DEF OwnFold, NewScope, Scopes
<1>7. LentFold
  <2> SUFFICES ASSUME NEW g \in Grants
               PROVE  /\ shown[g].permission =
                           Fact(EffectsOf(In("permission item", {g}) \ unread)
                                  \union ItemFacts(In("directory item", {g}) \ unread))
                      /\ shown[g].feature = Fact(EffectsOf(In("feature item", {g}) \ unread))
    BY DEF LentFold
  <2>1. shown[g].permission = "none" /\ shown[g].feature = "none"
    BY <1>3 DEF NewScope, Scopes
  <2>2. /\ In("permission item", {g}) \ unread = {} /\ In("directory item", {g}) \ unread = {}
        /\ In("feature item", {g}) \ unread = {}
    BY <1>4
  <2>3. {} \union {} = {}
    OBVIOUS
  <2> QED BY <1>5, <2>1, <2>2, <2>3
<1>8. PeriodFold
  BY <1>3, <1>4 DEF PeriodFold, Spans, OwnQuotas, NewScope, Scopes
<1>9. QuotaFold
  <2>1. \A s : QuotaRowsOf(s) \ unread = {}
    BY <1>4 DEF QuotaRowsOf, OwnQuotas
  <2>2. Counts(NewScope.quota, {})
    <3>1. Limited({}) = {}
      BY DEF Limited
    <3>2. Available({}) = 0
      BY TotalEmpty DEF Available
    <3> QED BY <1>5, <3>1, <3>2 DEF Counts, NewScope
  <2> QED BY <1>3, <2>1, <2>2 DEF QuotaFold
<1> QED BY <1>1, <1>2, <1>6, <1>7, <1>8, <1>9 DEF SnapshotInv

\* While the loops run no row is read.
LEMMA FollowPreservesSnapshot ==
  ASSUME SnapshotInv, Follow
  PROVE  SnapshotInv'
<1>1. loop # "done" /\ UNCHANGED <<rows, unread, shown>>
  BY DEF Follow, FollowNext, VisitReachable, VisitOrigins, EndPass
<1>2. LoopsInv'
  BY FollowPreserves DEF SnapshotInv, Follow
<1>3. ShownTypes' /\ unread = DOMAIN rows
  BY <1>1 DEF SnapshotInv, ShownTypes
<1>4. /\ OwnPolicies \ unread = {} /\ OwnPolicies' \ unread' = {}
      /\ \A table, S : In(table, S) \ unread = {} /\ In(table, S)' \ unread' = {}
  BY <1>1, <1>3 DEF OwnPolicies, In
<1>5. EffectsOf({}) = {} /\ EffectsOf({})' = {} /\ ItemFacts({}) = {} /\ ItemFacts({})' = {}
  BY DEF EffectsOf, ItemFacts
<1>6. OwnFold'
  BY <1>1, <1>4, <1>5 DEF SnapshotInv, OwnFold
<1>7. LentFold'
  BY <1>1, <1>4, <1>5 DEF SnapshotInv, LentFold
<1>8. PeriodFold'
  BY <1>1, <1>4 DEF SnapshotInv, PeriodFold, Spans, OwnQuotas
<1>9. QuotaFold'
  <2>1. \A s : QuotaRowsOf(s)' \ unread' = QuotaRowsOf(s) \ unread
    BY <1>1 DEF QuotaRowsOf, OwnQuotas, In
  <2>2. \A q, N : Counts(q, N)' <=> Counts(q, N)
    BY <1>1, CountsSame
  <2> QED BY <1>1, <2>1, <2>2 DEF SnapshotInv, QuotaFold
<1> QED BY <1>2, <1>3, <1>6, <1>7, <1>8, <1>9 DEF SnapshotInv

\* What a loader leaves alone, and what one row adds to the rows read.
LEMMA TakeReads ==
  ASSUME SnapshotInv, NEW n, NEW tables, Take(n, tables)
  PROVE  /\ LoopsInv'
         /\ n \in DOMAIN rows /\ n \in unread /\ rows[n].table \in tables /\ loop' = "done"
         /\ rows' = rows /\ origins' = origins /\ unread' \subseteq DOMAIN rows
         /\ OwnPolicies' = OwnPolicies
         /\ \A table, S : In(table, S)' = In(table, S)
         /\ \A N : EffectsOf(N)' = EffectsOf(N) /\ ItemFacts(N)' = ItemFacts(N)
         /\ \A N : n \in N => N \ unread' = (N \ unread) \union {n}
         /\ \A N : n \notin N => N \ unread' = N \ unread
         /\ \A N : EffectsOf(N \union {n}) = EffectsOf(N) \union {rows[n].effect}
         /\ \A N : ItemFacts(N \union {n}) =
                     ItemFacts(N) \union ItemEffects(rows[n].effect, PoliciesOf(reachable))
<1>1. UNCHANGED following /\ rows' = rows /\ loop = "done" /\ unread' = unread \ {n} /\ n \in unread
  BY DEF Take
<1>2. LoopsInv' /\ loop' = loop /\ origins' = origins /\ reachable' = reachable
  BY <1>1, StutterPreserves DEF SnapshotInv, following
<1>3. n \in DOMAIN rows /\ rows[n].table \in tables /\ unread' \subseteq DOMAIN rows
  BY <1>1 DEF SnapshotInv, ShownTypes, Take
<1>4. OwnPolicies' = OwnPolicies /\ \A table, S : In(table, S)' = In(table, S)
  BY <1>1, <1>2 DEF OwnPolicies, In
<1>5. \A N : EffectsOf(N)' = EffectsOf(N) /\ ItemFacts(N)' = ItemFacts(N)
  BY <1>1, <1>2 DEF EffectsOf, ItemFacts, PoliciesOf
<1>6. \A N : EffectsOf(N \union {n}) = EffectsOf(N) \union {rows[n].effect}
  BY DEF EffectsOf
<1>7. \A N : ItemFacts(N \union {n}) =
               ItemFacts(N) \union ItemEffects(rows[n].effect, PoliciesOf(reachable))
  BY DEF ItemFacts
<1>8. \A N : n \in N => N \ unread' = (N \ unread) \union {n}
  BY <1>1
<1>9. \A N : n \notin N => N \ unread' = N \ unread
  BY <1>1
<1> QED BY <1>1, <1>2, <1>3, <1>4, <1>5, <1>6, <1>7, <1>8, <1>9

\* What a row of another table leaves as it is.
LEMMA OwnKept ==
  ASSUME SnapshotInv, NEW n, NEW tables, Take(n, tables), rows[n].table \notin {"policy", "feature"},
         shown'[Own].permission = shown[Own].permission, shown'[Own].feature = shown[Own].feature
  PROVE  OwnFold'
<1>1. n \notin OwnPolicies /\ n \notin In("feature", {Own})
  BY DEF OwnPolicies, In
<1>2. /\ OwnPolicies' \ unread' = OwnPolicies \ unread
      /\ In("feature", {Own})' \ unread' = In("feature", {Own}) \ unread
      /\ \A N : EffectsOf(N)' = EffectsOf(N)
  BY <1>1, TakeReads
<1>3. OwnFold
  BY DEF SnapshotInv
<1> QED BY <1>2, <1>3 DEF OwnFold

LEMMA LentKept ==
  ASSUME SnapshotInv, NEW n, NEW tables, Take(n, tables),
         rows[n].table \notin {"permission item", "feature item", "directory item"},
         \A g \in Grants : /\ shown'[g].permission = shown[g].permission
                           /\ shown'[g].feature = shown[g].feature
  PROVE  LentFold'
<1>1. \A g \in Grants : /\ n \notin In("permission item", {g})
                        /\ n \notin In("directory item", {g}) /\ n \notin In("feature item", {g})
  BY DEF In
<1>2. \A g \in Grants :
        /\ In("permission item", {g})' \ unread' = In("permission item", {g}) \ unread
        /\ In("directory item", {g})' \ unread' = In("directory item", {g}) \ unread
        /\ In("feature item", {g})' \ unread' = In("feature item", {g}) \ unread
  <2>1. /\ \A table, S : In(table, S)' = In(table, S)
        /\ \A N : n \notin N => N \ unread' = N \ unread
    BY TakeReads
  <2> QED BY <1>1, <2>1
<1>3. \A N : EffectsOf(N)' = EffectsOf(N) /\ ItemFacts(N)' = ItemFacts(N)
  BY TakeReads
<1>4. LentFold
  BY DEF SnapshotInv
<1> QED BY <1>2, <1>3, <1>4 DEF LentFold

LEMMA PeriodKept ==
  ASSUME SnapshotInv, NEW n, NEW tables, Take(n, tables), rows[n].table # "quota",
         shown'[Own].quota = shown[Own].quota
  PROVE  PeriodFold'
<1>1. n \notin OwnQuotas
  BY DEF OwnQuotas, In
<1>2. OwnQuotas' \ unread' = OwnQuotas \ unread /\ rows' = rows
  BY <1>1, TakeReads DEF OwnQuotas
<1>3. PeriodFold
  BY DEF SnapshotInv
<1> QED BY <1>2, <1>3 DEF PeriodFold, Spans

LEMMA QuotasKept ==
  ASSUME SnapshotInv, NEW n, NEW tables, Take(n, tables), rows[n].table \notin {"quota", "allocation"},
         \A t \in Scopes : shown'[t].quota = shown[t].quota
  PROVE  QuotaFold'
<1>1. \A s : n \notin QuotaRowsOf(s)
  BY DEF QuotaRowsOf, OwnQuotas, In
<1>2. \A s : QuotaRowsOf(s)' \ unread' = QuotaRowsOf(s) \ unread
  <2>1. /\ \A table, S : In(table, S)' = In(table, S)
        /\ \A N : n \notin N => N \ unread' = N \ unread
    BY TakeReads
  <2>2. \A s : QuotaRowsOf(s)' = QuotaRowsOf(s)
    BY <2>1 DEF QuotaRowsOf, OwnQuotas
  <2> QED BY <1>1, <2>1, <2>2
<1>3. \A q, N : Counts(q, N)' <=> Counts(q, N)
  <2>1. rows' = rows
    BY TakeReads
  <2> QED BY <2>1, CountsSame
<1>4. QuotaFold
  BY DEF SnapshotInv
<1> QED BY <1>2, <1>3, <1>4 DEF QuotaFold

\* A scope's quota counts the row that was read, the others had none to count.
LEMMA QuotaCounts ==
  ASSUME SnapshotInv, NEW n, NEW tables, Take(n, tables), NEW s \in Scopes,
         \A t \in Scopes : n \in QuotaRowsOf(t) <=> t = s,
         \A t \in Scopes : t # s => shown'[t].quota = shown[t].quota,
         Counts(shown'[s].quota, (QuotaRowsOf(s) \ unread) \union {n})
  PROVE  QuotaFold'
<1>1. /\ \A table, S : In(table, S)' = In(table, S)
      /\ \A N : n \in N => N \ unread' = (N \ unread) \union {n}
      /\ \A N : n \notin N => N \ unread' = N \ unread
      /\ rows' = rows
  BY TakeReads
<1>2. \A t : QuotaRowsOf(t)' = QuotaRowsOf(t)
  BY <1>1 DEF QuotaRowsOf, OwnQuotas
<1>3. \A q, N : Counts(q, N)' <=> Counts(q, N)
  BY <1>1, CountsSame
<1>4. QuotaFold
  BY DEF SnapshotInv
<1>5. ASSUME NEW t \in Scopes PROVE Counts(shown'[t].quota, QuotaRowsOf(t) \ unread')
  <2>1. CASE t = s
    BY <1>1, <2>1
  <2>2. CASE t # s
    <3>1. Counts(shown[t].quota, QuotaRowsOf(t) \ unread)
      BY <1>4 DEF QuotaFold
    <3> QED BY <1>1, <2>2, <3>1
  <2> QED BY <2>1, <2>2
<1> QED BY <1>2, <1>3, <1>5 DEF QuotaFold

LEMMA TypesKept ==
  ASSUME SnapshotInv, NEW n, NEW tables, Take(n, tables),
         shown' \in [Scopes -> [permission : Facts, feature : Facts, quota : Quotas]]
  PROVE  ShownTypes'
<1>1. rows' = rows /\ unread' \subseteq DOMAIN rows /\ loop' = "done"
  BY TakeReads
<1> QED BY <1>1 DEF SnapshotInv, ShownTypes

\* A fact of one scope gets what AddFacts makes of it; the others stay.
FactChanges(s, kind, effects) ==
  /\ kind = "permission" =>
       shown' = [shown EXCEPT ![s].permission = AddFacts(shown[s].permission, effects)]
  /\ kind = "feature" =>
       shown' = [shown EXCEPT ![s].feature = AddFacts(shown[s].feature, effects)]

LEMMA FactChangesExactly ==
  ASSUME ShownTypes, NEW s \in Scopes, NEW kind \in {"permission", "feature"},
         NEW effects \in SUBSET Effects, FactChanges(s, kind, effects)
  PROVE  /\ shown' \in [Scopes -> [permission : Facts, feature : Facts, quota : Quotas]]
         /\ \A t \in Scopes : shown'[t].quota = shown[t].quota
         /\ \A t \in Scopes : shown'[t].permission =
              IF t = s /\ kind = "permission" THEN AddFacts(shown[s].permission, effects)
              ELSE shown[t].permission
         /\ \A t \in Scopes : shown'[t].feature =
              IF t = s /\ kind = "feature" THEN AddFacts(shown[s].feature, effects)
              ELSE shown[t].feature
<1>1. shown \in [Scopes -> [permission : Facts, feature : Facts, quota : Quotas]]
  BY DEF ShownTypes
<1>2. AddFacts(shown[s].permission, effects) \in Facts /\ AddFacts(shown[s].feature, effects) \in Facts
  BY <1>1, AddFactsTypes
<1>3. CASE kind = "permission"
  BY <1>1, <1>2, <1>3 DEF FactChanges
<1>4. CASE kind = "feature"
  BY <1>1, <1>2, <1>4 DEF FactChanges
<1> QED BY <1>3, <1>4

LEMMA AddPolicyPreserves ==
  ASSUME SnapshotInv, NEW n, AddPolicy(n)
  PROVE  SnapshotInv'
<1> DEFINE effects == IF origins[rows[n].subject] = {} THEN {} ELSE {rows[n].effect}
<1>1. Take(n, {"policy"}) /\ FactChanges(Own, "permission", effects) /\ ShownTypes
  BY DEF AddPolicy, FactChanges, SnapshotInv
<1>2. n \in DOMAIN rows /\ rows[n].table = "policy" /\ rows[n].effect \in Effects
  <2>1. n \in DOMAIN rows /\ rows[n].table \in {"policy"}
    BY <1>1, TakeReads
  <2> QED BY <1>1, <2>1, RowTypes DEF ShownTypes
<1>3. Own \in Scopes /\ effects \in SUBSET Effects
  BY <1>2 DEF Scopes
<1>4. /\ shown' \in [Scopes -> [permission : Facts, feature : Facts, quota : Quotas]]
      /\ \A t \in Scopes : shown'[t].quota = shown[t].quota /\ shown'[t].feature = shown[t].feature
      /\ \A g \in Grants : shown'[g].permission = shown[g].permission
      /\ shown'[Own].permission = AddFacts(shown[Own].permission, effects)
  <2> HIDE DEF effects
  <2>1. /\ shown' \in [Scopes -> [permission : Facts, feature : Facts, quota : Quotas]]
        /\ \A t \in Scopes : shown'[t].quota = shown[t].quota
        /\ \A t \in Scopes : shown'[t].permission =
             IF t = Own /\ "permission" = "permission" THEN AddFacts(shown[Own].permission, effects)
             ELSE shown[t].permission
        /\ \A t \in Scopes : shown'[t].feature =
             IF t = Own /\ "permission" = "feature" THEN AddFacts(shown[Own].feature, effects)
             ELSE shown[t].feature
    BY <1>1, <1>3, FactChangesExactly
  <2> QED BY <1>3, <2>1, SnapshotAssumption DEF Scopes
<1>6. EffectsOf(OwnPolicies' \ unread') = EffectsOf(OwnPolicies \ unread) \union effects
  <2>1. CASE origins[rows[n].subject] = {}
    <3>1. n \notin OwnPolicies
      BY <2>1 DEF OwnPolicies
    <3> QED BY <1>1, <2>1, <3>1, TakeReads
  <2>2. CASE origins[rows[n].subject] # {}
    <3>1. n \in OwnPolicies
      BY <1>2, <2>2 DEF OwnPolicies
    <3> QED BY <1>1, <2>2, <3>1, TakeReads
  <2> QED BY <2>1, <2>2
<1>7. OwnFold'
  <2> DEFINE S == EffectsOf(OwnPolicies \ unread)
  <2>1. S \in SUBSET Effects
    BY <1>1, RowTypes DEF EffectsOf, OwnPolicies, ShownTypes
  <2>2. shown[Own].permission = Fact(S) /\ shown[Own].feature = Fact(EffectsOf(In("feature", {Own}) \ unread))
    BY DEF SnapshotInv, OwnFold
  <2>3. AddFacts(Fact(S), effects) = Fact(S \union effects)
    <3> HIDE DEF S, effects
    <3> QED BY <1>3, <2>1, AddFactsFolds
  <2>4. shown'[Own].permission = Fact(EffectsOf(OwnPolicies' \ unread'))
    BY <1>4, <1>6, <2>2, <2>3
  <2>5. In("feature", {Own})' \ unread' = In("feature", {Own}) \ unread
    <3>1. n \notin In("feature", {Own})
      BY <1>2 DEF In
    <3> QED BY <1>1, <3>1, TakeReads
  <2>6. shown'[Own].feature = Fact(EffectsOf(In("feature", {Own})' \ unread'))
    BY <1>3, <1>4, <2>2, <2>5
  <2> QED BY <1>1, <2>4, <2>6, TakeReads DEF OwnFold
<1>8. LentFold'
  BY <1>1, <1>2, <1>4, LentKept DEF Scopes
<1>9. PeriodFold'
  BY <1>1, <1>2, <1>3, <1>4, PeriodKept
<1>10. LoopsInv' /\ ShownTypes'
  BY <1>1, <1>4, TakeReads, TypesKept
<1>11. QuotaFold'
  BY <1>1, <1>2, <1>4, QuotasKept
<1> QED BY <1>7, <1>8, <1>9, <1>10, <1>11 DEF SnapshotInv

LEMMA AddFeaturePreserves ==
  ASSUME SnapshotInv, NEW n, AddFeature(n)
  PROVE  SnapshotInv'
<1> DEFINE s == rows[n].scope
           effects == {rows[n].effect}
<1>1. Take(n, {"feature", "feature item"}) /\ FactChanges(s, "feature", effects) /\ ShownTypes
  BY DEF AddFeature, FactChanges, SnapshotInv
<1>2. n \in DOMAIN rows /\ rows[n].table \in {"feature", "feature item"}
  BY <1>1, TakeReads
<1>3. /\ rows[n].table = "feature" => s = Own
      /\ rows[n].table = "feature item" => s \in Grants
      /\ effects \in SUBSET Effects
  BY <1>1, <1>2, RowTypes DEF ShownTypes
<1>4. s \in Scopes /\ Own \in Scopes
  BY <1>2, <1>3 DEF Scopes
<1>5. /\ shown' \in [Scopes -> [permission : Facts, feature : Facts, quota : Quotas]]
      /\ \A t \in Scopes : shown'[t].quota = shown[t].quota /\ shown'[t].permission = shown[t].permission
      /\ \A t \in Scopes : t # s => shown'[t].feature = shown[t].feature
      /\ shown'[s].feature = AddFacts(shown[s].feature, effects)
  <2> HIDE DEF effects, s
  <2>1. /\ shown' \in [Scopes -> [permission : Facts, feature : Facts, quota : Quotas]]
        /\ \A t \in Scopes : shown'[t].quota = shown[t].quota
        /\ \A t \in Scopes : shown'[t].permission =
             IF t = s /\ "feature" = "permission" THEN AddFacts(shown[s].permission, effects)
             ELSE shown[t].permission
        /\ \A t \in Scopes : shown'[t].feature =
             IF t = s /\ "feature" = "feature" THEN AddFacts(shown[s].feature, effects)
             ELSE shown[t].feature
    BY <1>1, <1>3, <1>4, FactChangesExactly
  <2> QED BY <1>4, <2>1
<1>6. \A table, S : EffectsOf(In(table, S) \ unread) \in SUBSET Effects
  BY <1>1, RowTypes DEF EffectsOf, In, ShownTypes
<1>7. \A table, S : shown[s].feature = Fact(EffectsOf(In(table, S) \ unread)) /\ n \in In(table, S) =>
        shown'[s].feature = Fact(EffectsOf(In(table, S)' \ unread'))
  <2> SUFFICES ASSUME NEW table, NEW S, n \in In(table, S),
                      shown[s].feature = Fact(EffectsOf(In(table, S) \ unread))
               PROVE  shown'[s].feature = Fact(EffectsOf(In(table, S)' \ unread'))
    OBVIOUS
  <2> DEFINE done == EffectsOf(In(table, S) \ unread)
  <2>1. AddFacts(Fact(done), effects) = Fact(done \union effects)
    <3>1. done \in SUBSET Effects
      BY <1>6
    <3> HIDE DEF done, effects
    <3> QED BY <1>3, <3>1, AddFactsFolds
  <2>2. In(table, S)' \ unread' = (In(table, S) \ unread) \union {n}
    <3>1. /\ \A t, T : In(t, T)' = In(t, T)
          /\ \A N : n \in N => N \ unread' = (N \ unread) \union {n}
      BY <1>1, TakeReads
    <3> QED BY <3>1
  <2>3. EffectsOf((In(table, S) \ unread) \union {n}) = done \union effects
    BY <1>1, TakeReads
  <2> QED BY <1>5, <2>1, <2>2, <2>3
<1>8. /\ \A table, S : In(table, S)' = In(table, S)
      /\ \A N : EffectsOf(N)' = EffectsOf(N) /\ ItemFacts(N)' = ItemFacts(N)
      /\ \A N : n \notin N => N \ unread' = N \ unread
      /\ OwnPolicies' = OwnPolicies
  BY <1>1, TakeReads
<1>9. OwnFold'
  <2>1. n \notin OwnPolicies
    BY <1>2 DEF OwnPolicies
  <2>2. OwnFold
    BY DEF SnapshotInv
  <2>3. shown'[Own].permission = Fact(EffectsOf(OwnPolicies' \ unread'))
    BY <1>4, <1>5, <1>8, <2>1, <2>2 DEF OwnFold
  <2>4. shown'[Own].feature = Fact(EffectsOf(In("feature", {Own})' \ unread'))
    <3>1. CASE rows[n].table = "feature"
      <4>1. n \in In("feature", {Own}) /\ s = Own
        BY <1>2, <1>3, <3>1 DEF In
      <4> QED BY <1>7, <2>2, <4>1 DEF OwnFold
    <3>2. CASE rows[n].table # "feature"
      <4>1. n \notin In("feature", {Own}) /\ s # Own
        BY <1>2, <1>3, <3>2, SnapshotAssumption DEF In
      <4> QED BY <1>4, <1>5, <1>8, <2>2, <4>1 DEF OwnFold
    <3> QED BY <3>1, <3>2
  <2> QED BY <1>8, <2>3, <2>4 DEF OwnFold
<1>10. LentFold'
  <2> SUFFICES ASSUME NEW g \in Grants
               PROVE  /\ shown'[g].permission =
                           Fact(EffectsOf(In("permission item", {g})' \ unread')
                                  \union ItemFacts(In("directory item", {g})' \ unread'))
                      /\ shown'[g].feature = Fact(EffectsOf(In("feature item", {g})' \ unread'))
    BY <1>8 DEF LentFold
  <2>1. /\ shown[g].permission = Fact(EffectsOf(In("permission item", {g}) \ unread)
                                        \union ItemFacts(In("directory item", {g}) \ unread))
        /\ shown[g].feature = Fact(EffectsOf(In("feature item", {g}) \ unread))
        /\ g \in Scopes
    BY DEF SnapshotInv, LentFold, Scopes
  <2>2. n \notin In("permission item", {g}) /\ n \notin In("directory item", {g})
    BY <1>2 DEF In
  <2>3. CASE n \in In("feature item", {g})
    <3>1. s = g
      BY <2>3 DEF In
    <3>2. shown'[g].feature = Fact(EffectsOf(In("feature item", {g})' \ unread'))
      BY <1>7, <2>1, <2>3, <3>1
    <3>3. shown'[g].permission = shown[g].permission
      BY <1>5, <2>1
    <3>4. /\ In("permission item", {g})' \ unread' = In("permission item", {g}) \ unread
          /\ In("directory item", {g})' \ unread' = In("directory item", {g}) \ unread
      BY <1>8, <2>2
    <3> QED BY <2>1, <3>2, <3>3, <3>4
  <2>4. CASE n \notin In("feature item", {g})
    <3>1. s # g
      BY <1>2, <1>3, <2>4, SnapshotAssumption DEF In
    <3> QED BY <1>5, <1>8, <2>1, <2>2, <2>4, <3>1
  <2> QED BY <2>3, <2>4
<1>11. PeriodFold'
  BY <1>1, <1>2, <1>4, <1>5, PeriodKept
<1>12. LoopsInv' /\ ShownTypes'
  BY <1>1, <1>5, TakeReads, TypesKept
<1>13. QuotaFold'
  BY <1>1, <1>2, <1>5, QuotasKept
<1> QED BY <1>9, <1>10, <1>11, <1>12, <1>13 DEF SnapshotInv

\* What an item of this table adds to the permission of its grant.
Added(n) ==
  IF rows[n].table = "permission item" THEN {rows[n].effect}
  ELSE ItemEffects(rows[n].effect, PoliciesOf(reachable))

LEMMA AddItemPreserves ==
  ASSUME SnapshotInv, NEW n, NEW tables, Take(n, tables),
         rows[n].table \in {"permission item", "directory item"},
         FactChanges(rows[n].scope, "permission", Added(n))
  PROVE  SnapshotInv'
<1> DEFINE s == rows[n].scope
<1>1. n \in DOMAIN rows /\ ShownTypes
  BY TakeReads DEF SnapshotInv
<1>2. s \in Grants /\ rows[n].effect \in Effects
  BY <1>1, RowTypes DEF ShownTypes
<1>3. s \in Scopes /\ Own \in Scopes /\ s # Own
  BY <1>2, SnapshotAssumption DEF Scopes
<1>4. \A S : PoliciesOf(S) \in SUBSET Effects
  <2>1. \A m \in DOMAIN rows : rows[m].effect \in Effects
    BY <1>1, RowTypes DEF ShownTypes
  <2> QED BY <2>1 DEF PoliciesOf
<1>5. \A m \in DOMAIN rows : ItemEffects(rows[m].effect, PoliciesOf(reachable)) \in SUBSET Effects
  <2>1. \A item, S : S \in SUBSET Effects => ItemEffects(item, S) \in SUBSET Effects
    BY DEF ItemEffects, Effects
  <2> QED BY <1>4, <2>1
<1>6. Added(n) \in SUBSET Effects
  BY <1>1, <1>2, <1>5 DEF Added
<1>7. /\ shown' \in [Scopes -> [permission : Facts, feature : Facts, quota : Quotas]]
      /\ \A t \in Scopes : shown'[t].quota = shown[t].quota /\ shown'[t].feature = shown[t].feature
      /\ \A t \in Scopes : t # s => shown'[t].permission = shown[t].permission
      /\ shown'[s].permission = AddFacts(shown[s].permission, Added(n))
  <2> HIDE DEF s
  <2>1. FactChanges(s, "permission", Added(n))
    BY DEF s
  <2>2. /\ shown' \in [Scopes -> [permission : Facts, feature : Facts, quota : Quotas]]
        /\ \A t \in Scopes : shown'[t].quota = shown[t].quota
        /\ \A t \in Scopes : shown'[t].permission =
             IF t = s /\ "permission" = "permission" THEN AddFacts(shown[s].permission, Added(n))
             ELSE shown[t].permission
        /\ \A t \in Scopes : shown'[t].feature =
             IF t = s /\ "permission" = "feature" THEN AddFacts(shown[s].feature, Added(n))
             ELSE shown[t].feature
    BY <1>1, <1>3, <1>6, <2>1, FactChangesExactly
  <2> QED BY <1>3, <2>2
<1>8. /\ \A table, S : In(table, S)' = In(table, S)
      /\ \A N : EffectsOf(N)' = EffectsOf(N) /\ ItemFacts(N)' = ItemFacts(N)
      /\ \A N : n \notin N => N \ unread' = N \ unread
      /\ \A N : n \in N => N \ unread' = (N \ unread) \union {n}
      /\ \A N : EffectsOf(N \union {n}) = EffectsOf(N) \union {rows[n].effect}
      /\ \A N : ItemFacts(N \union {n}) =
                  ItemFacts(N) \union ItemEffects(rows[n].effect, PoliciesOf(reachable))
  BY TakeReads
<1>9. LentFold'
  <2> SUFFICES ASSUME NEW g \in Grants
               PROVE  /\ shown'[g].permission =
                           Fact(EffectsOf(In("permission item", {g})' \ unread')
                                  \union ItemFacts(In("directory item", {g})' \ unread'))
                      /\ shown'[g].feature = Fact(EffectsOf(In("feature item", {g})' \ unread'))
    BY <1>8 DEF LentFold
  <2> DEFINE direct == EffectsOf(In("permission item", {g}) \ unread)
             items == ItemFacts(In("directory item", {g}) \ unread)
  <2>1. /\ shown[g].permission = Fact(direct \union items)
        /\ shown[g].feature = Fact(EffectsOf(In("feature item", {g}) \ unread))
        /\ g \in Scopes
    BY DEF SnapshotInv, LentFold, Scopes
  <2>2. shown'[g].feature = Fact(EffectsOf(In("feature item", {g})' \ unread'))
    <3>1. n \notin In("feature item", {g})
      BY DEF In
    <3> QED BY <1>7, <1>8, <2>1, <3>1
  <2>3. direct \union items \in SUBSET Effects
    <3>1. direct \in SUBSET Effects
      BY <1>1, RowTypes DEF EffectsOf, In, ShownTypes
    <3>2. items \in SUBSET Effects
      BY <1>5 DEF ItemFacts, In
    <3> QED BY <3>1, <3>2
  <2>4. CASE s # g
    <3>1. n \notin In("permission item", {g}) /\ n \notin In("directory item", {g})
      BY <2>4 DEF In
    <3> QED BY <1>7, <1>8, <2>1, <2>2, <2>4, <3>1
  <2>5. CASE s = g
    <3>1. shown'[g].permission = Fact((direct \union items) \union Added(n))
      <4>1. shown'[g].permission = AddFacts(Fact(direct \union items), Added(n))
        BY <1>7, <2>1, <2>5
      <4> HIDE DEF direct, items
      <4> QED BY <1>6, <2>3, <4>1, AddFactsFolds
    <3>2. CASE rows[n].table = "permission item"
      <4>1. n \in In("permission item", {g}) /\ n \notin In("directory item", {g})
        BY <1>1, <2>5, <3>2 DEF In
      <4>2. EffectsOf(In("permission item", {g})' \ unread') = direct \union Added(n)
        BY <1>8, <3>2, <4>1 DEF Added
      <4>3. ItemFacts(In("directory item", {g})' \ unread') = items
        BY <1>8, <4>1
      <4>4. (direct \union items) \union Added(n) = (direct \union Added(n)) \union items
        OBVIOUS
      <4> QED BY <2>2, <3>1, <4>2, <4>3, <4>4
    <3>3. CASE rows[n].table = "directory item"
      <4>1. n \notin In("permission item", {g}) /\ n \in In("directory item", {g})
        BY <1>1, <2>5, <3>3 DEF In
      <4>2. ItemFacts(In("directory item", {g})' \ unread') = items \union Added(n)
        BY <1>8, <3>3, <4>1 DEF Added
      <4>3. EffectsOf(In("permission item", {g})' \ unread') = direct
        BY <1>8, <4>1
      <4>4. (direct \union items) \union Added(n) = direct \union (items \union Added(n))
        OBVIOUS
      <4> QED BY <2>2, <3>1, <4>2, <4>3, <4>4
    <3> QED BY <3>2, <3>3
  <2> QED BY <2>4, <2>5
<1>10. OwnFold'
  BY <1>3, <1>7, OwnKept
<1>11. PeriodFold'
  BY <1>3, <1>7, PeriodKept
<1>12. LoopsInv' /\ ShownTypes'
  BY <1>7, TakeReads, TypesKept
<1>13. QuotaFold'
  BY <1>7, QuotasKept
<1> QED BY <1>9, <1>10, <1>11, <1>12, <1>13 DEF SnapshotInv

\* A quota changes in one scope.
QuotaChanges(s, quota) == shown' = [shown EXCEPT ![s].quota = quota]

LEMMA QuotaChangesExactly ==
  ASSUME ShownTypes, NEW s \in Scopes, NEW quota \in Quotas, QuotaChanges(s, quota)
  PROVE  /\ shown' \in [Scopes -> [permission : Facts, feature : Facts, quota : Quotas]]
         /\ \A t \in Scopes : /\ shown'[t].permission = shown[t].permission
                              /\ shown'[t].feature = shown[t].feature
                              /\ shown'[t].quota = IF t = s THEN quota ELSE shown[t].quota
BY DEF ShownTypes, QuotaChanges

LEMMA AddAllocationPreserves ==
  ASSUME SnapshotInv, NEW n, AddAllocation(n)
  PROVE  SnapshotInv'
<1>1. /\ Take(n, {"allocation"}) /\ ShownTypes
      /\ QuotaChanges(rows[n].scope, Count(shown[rows[n].scope].quota, rows[n]))
  BY DEF AddAllocation, QuotaChanges, SnapshotInv
<1>2. n \in DOMAIN rows /\ rows[n].table = "allocation"
  <2>1. n \in DOMAIN rows /\ rows[n].table \in {"allocation"}
    BY <1>1, TakeReads
  <2> QED BY <2>1
<1>3. rows[n].scope \in Grants /\ rows[n] \in AllocationRows
  BY <1>1, <1>2, RowTypes DEF ShownTypes
<1>4. rows[n].scope \in Scopes /\ Own \in Scopes /\ rows[n].scope # Own
  BY <1>3, SnapshotAssumption DEF Scopes
<1>5. Count(shown[rows[n].scope].quota, rows[n]) \in Quotas
  <2>1. shown[rows[n].scope].quota \in Quotas
    BY <1>1, <1>4 DEF ShownTypes
  <2> QED BY <1>3, <2>1, CountTypes
<1>6. /\ shown' \in [Scopes -> [permission : Facts, feature : Facts, quota : Quotas]]
      /\ \A t \in Scopes : /\ shown'[t].permission = shown[t].permission
                           /\ shown'[t].feature = shown[t].feature
      /\ shown'[Own].quota = shown[Own].quota
      /\ \A t \in Scopes : t # rows[n].scope => shown'[t].quota = shown[t].quota
      /\ shown'[rows[n].scope].quota = Count(shown[rows[n].scope].quota, rows[n])
  BY <1>1, <1>4, <1>5, QuotaChangesExactly
<1>7. OwnFold' /\ PeriodFold'
  BY <1>1, <1>2, <1>4, <1>6, OwnKept, PeriodKept
<1>8. LentFold'
  BY <1>1, <1>2, <1>6, LentKept DEF Scopes
<1>9. LoopsInv' /\ ShownTypes'
  BY <1>1, <1>6, TakeReads, TypesKept
<1>10. QuotaFold'
  <2> DEFINE s == rows[n].scope
             N == QuotaRowsOf(s) \ unread
  <2>1. \A t \in Scopes : n \in QuotaRowsOf(t) <=> t = s
    BY <1>2, <1>4 DEF QuotaRowsOf, OwnQuotas, In
  <2>2. Counts(shown[s].quota, N) /\ shown[s].quota \in Quotas /\ rows \in Seq(Rows)
    BY <1>1, <1>4 DEF SnapshotInv, QuotaFold, ShownTypes
  <2>3. N \in SUBSET DOMAIN rows /\ n \notin N
    <3>1. n \in unread
      BY <1>1, TakeReads
    <3> QED BY <3>1 DEF QuotaRowsOf, OwnQuotas, In
  <2>4. \A m \in N \union {n} : rows[m] \in QuotaRows \union AllocationRows
    BY <1>2, <1>4, <2>2, RowTypes DEF QuotaRowsOf, In
  <2>5. Counts(Count(shown[s].quota, rows[n]), N \union {n})
    BY <1>2, <2>2, <2>3, <2>4, CountCounts
  <2>6. s \in Scopes /\ \A t \in Scopes : t # s => shown'[t].quota = shown[t].quota
    BY <1>4, <1>6
  <2>7. Counts(shown'[s].quota, (QuotaRowsOf(s) \ unread) \union {n})
    <3>1. shown'[s].quota = Count(shown[s].quota, rows[n])
      BY <1>6
    <3> HIDE DEF s
    <3> QED BY <2>5, <3>1
  <2>8. Take(n, {"allocation"})
    BY <1>1
  <2> HIDE DEF s
  <2> QED BY <2>1, <2>6, <2>7, <2>8, QuotaCounts
<1> QED BY <1>7, <1>8, <1>9, <1>10 DEF SnapshotInv

\* One more row: the period spans it too.
LEMMA MergePeriodSpans ==
  ASSUME NEW q \in Quotas, NEW N \in SUBSET DOMAIN rows, NEW n \in DOMAIN rows, Spans(q, N),
         \A m \in N \union {n} : rows[m] \in QuotaRows
  PROVE  Spans(Count(MergePeriod(q, rows[n]), rows[n]), N \union {n})
<1> DEFINE p == MergePeriod(q, rows[n])
           r == Count(p, rows[n])
<1>1. rows[n] \in QuotaRows
  OBVIOUS
<1>2. /\ p \in Quotas
      /\ p.start = Earlier(q, rows[n])
      /\ p.unbounded = (q.unbounded \/ rows[n].end = Null)
      /\ p.end = IF rows[n].end = Null \/ q.unbounded THEN Null ELSE Later(q, rows[n])
  BY <1>1, MergePeriodTypes
<1>3. r.effect # "none" /\ r.start = p.start /\ r.end = p.end /\ r.unbounded = p.unbounded
  <2> HIDE DEF p
  <2> QED BY <1>1, <1>2, CountTypes
<1>4. /\ q.start \in Nat /\ q.end \in Nat \union {Null} /\ q.unbounded \in BOOLEAN
      /\ \A m \in N \union {n} : rows[m].start \in Nat /\ rows[m].end \in Nat \union {Null}
      /\ Null \notin Int
  BY SnapshotAssumption DEF Quotas, QuotaRows
<1> HIDE DEF p, r
<1>5. /\ \A m \in N \union {n} : r.start <= rows[m].start
      /\ \E m \in N \union {n} : r.start = rows[m].start
  <2>1. CASE q.effect = "none"
    <3>1. N = {} /\ r.start = rows[n].start
      BY <1>2, <1>3, <2>1 DEF Spans, Earlier
    <3> QED BY <1>4, <3>1
  <2>2. CASE q.effect # "none" /\ rows[n].start < q.start
    <3>1. r.start = rows[n].start /\ \A m \in N : q.start <= rows[m].start
      BY <1>2, <1>3, <2>2 DEF Spans, Earlier
    <3> QED BY <1>4, <2>2, <3>1
  <2>3. CASE q.effect # "none" /\ ~(rows[n].start < q.start)
    <3>1. /\ r.start = q.start /\ \A m \in N : q.start <= rows[m].start
          /\ \E m \in N : q.start = rows[m].start
      BY <1>2, <1>3, <2>3 DEF Spans, Earlier
    <3> QED BY <1>4, <2>3, <3>1
  <2> QED BY <2>1, <2>2, <2>3
<1>6. r.unbounded <=> \E m \in N \union {n} : rows[m].end = Null
  BY <1>2, <1>3 DEF Spans
<1>7. r.unbounded => r.end = Null
  BY <1>2, <1>3
<1>8. ASSUME ~r.unbounded
      PROVE  /\ r.end # Null
             /\ \A m \in N \union {n} : rows[m].end <= r.end
             /\ \E m \in N \union {n} : rows[m].end = r.end
  <2>1. ~q.unbounded /\ rows[n].end # Null /\ r.end = Later(q, rows[n])
    BY <1>2, <1>3, <1>8
  <2>2. \A m \in N \union {n} : rows[m].end \in Nat
    BY <1>3, <1>4, <1>6, <1>8
  <2>3. /\ N = {} <=> q.end = Null
        /\ \A m \in N : rows[m].end <= q.end
        /\ N # {} => \E m \in N : rows[m].end = q.end
    BY <2>1 DEF Spans
  <2>4. CASE q.end # Null /\ rows[n].end < q.end
    <3>1. r.end = q.end /\ q.end \in Nat
      BY <1>4, <2>1, <2>4 DEF Later
    <3> QED BY <1>4, <2>2, <2>3, <2>4, <3>1
  <2>5. CASE q.end = Null
    <3>1. r.end = rows[n].end /\ N = {}
      BY <2>1, <2>3, <2>5 DEF Later
    <3> QED BY <1>4, <2>2, <3>1
  <2>6. CASE q.end # Null /\ ~(rows[n].end < q.end)
    <3>1. r.end = rows[n].end /\ q.end \in Nat /\ rows[n].end \in Nat
      BY <1>4, <2>1, <2>2, <2>6 DEF Later
    <3> QED BY <1>4, <2>2, <2>3, <2>6, <3>1
  <2> QED BY <2>4, <2>5, <2>6
<1>9. N \union {n} # {}
  OBVIOUS
<1>10. Spans(r, N \union {n})
  BY <1>3, <1>5, <1>6, <1>7, <1>8, <1>9 DEF Spans
<1> QED BY <1>10 DEF p, r

LEMMA AddQuotaPreserves ==
  ASSUME SnapshotInv, NEW n, AddQuota(n)
  PROVE  SnapshotInv'
<1> DEFINE quota == Count(MergePeriod(shown[Own].quota, rows[n]), rows[n])
<1>1. Take(n, {"quota"}) /\ ShownTypes /\ QuotaChanges(Own, quota)
  BY DEF AddQuota, QuotaChanges, SnapshotInv
<1>2. n \in DOMAIN rows /\ rows[n].table = "quota"
  <2>1. n \in DOMAIN rows /\ rows[n].table \in {"quota"}
    BY <1>1, TakeReads
  <2> QED BY <2>1
<1>3. \A m \in OwnQuotas : m \in DOMAIN rows /\ rows[m] \in QuotaRows
  BY <1>1, RowTypes DEF OwnQuotas, In, ShownTypes
<1>4. n \in OwnQuotas
  BY <1>1, <1>2, RowTypes DEF OwnQuotas, In, ShownTypes
<1>5. Own \in Scopes /\ shown[Own].quota \in Quotas
  BY <1>1 DEF Scopes, ShownTypes
<1>6. quota \in Quotas
  BY <1>3, <1>4, <1>5, MergePeriodTypes, CountTypes
<1>7. /\ shown' \in [Scopes -> [permission : Facts, feature : Facts, quota : Quotas]]
      /\ \A t \in Scopes : /\ shown'[t].permission = shown[t].permission
                           /\ shown'[t].feature = shown[t].feature
      /\ shown'[Own].quota = quota
      /\ \A t \in Scopes : t # Own => shown'[t].quota = shown[t].quota
  <2> HIDE DEF quota
  <2> QED BY <1>1, <1>5, <1>6, QuotaChangesExactly
<1>8. PeriodFold'
  <2>1. Spans(shown[Own].quota, OwnQuotas \ unread)
    BY DEF SnapshotInv, PeriodFold
  <2>2. Spans(quota, (OwnQuotas \ unread) \union {n})
    BY <1>2, <1>3, <1>4, <1>5, <2>1, MergePeriodSpans
  <2>3. /\ \A table, S : In(table, S)' = In(table, S)
        /\ \A N : n \in N => N \ unread' = (N \ unread) \union {n}
        /\ rows' = rows
    BY <1>1, TakeReads
  <2>4. OwnQuotas' \ unread' = (OwnQuotas \ unread) \union {n} /\ rows' = rows
    BY <1>4, <2>3 DEF OwnQuotas
  <2> HIDE DEF quota
  <2> QED BY <1>7, <2>2, <2>4 DEF PeriodFold, Spans
<1>9. OwnFold' /\ LentFold'
  BY <1>1, <1>2, <1>5, <1>7, OwnKept, LentKept DEF Scopes
<1>10. LoopsInv' /\ ShownTypes'
  BY <1>1, <1>7, TakeReads, TypesKept
<1>11. QuotaFold'
  <2> DEFINE N == OwnQuotas \ unread
             merged == MergePeriod(shown[Own].quota, rows[n])
  <2>1. \A t \in Scopes : n \in QuotaRowsOf(t) <=> t = Own
    BY <1>2, <1>4 DEF QuotaRowsOf, OwnQuotas, In
  <2>2. QuotaRowsOf(Own) = OwnQuotas /\ rows \in Seq(Rows)
    BY <1>1 DEF QuotaRowsOf, ShownTypes
  <2>3. Counts(shown[Own].quota, N)
    BY <1>5, <2>2 DEF SnapshotInv, QuotaFold
  <2>4. N \in SUBSET DOMAIN rows /\ n \notin N
    <3>1. n \in unread
      BY <1>1, TakeReads
    <3> QED BY <3>1 DEF OwnQuotas, In
  <2>5. \A m \in N \union {n} : rows[m] \in QuotaRows \union AllocationRows
    BY <1>3, <1>4
  <2>6. merged \in Quotas
    BY <1>3, <1>4, <1>5, MergePeriodTypes
  <2>7. Counts(merged, N)
    <3>1. /\ merged.effect = shown[Own].quota.effect /\ merged.unlimited = shown[Own].quota.unlimited
          /\ merged.left = shown[Own].quota.left
      BY <1>5 DEF MergePeriod, Quotas
    <3> HIDE DEF merged
    <3> QED BY <2>3, <3>1, CountsCarries
  <2>8. Counts(Count(merged, rows[n]), N \union {n})
    <3> HIDE DEF merged
    <3> QED BY <1>2, <2>2, <2>4, <2>5, <2>6, <2>7, CountCounts
  <2> QED BY <1>1, <1>5, <1>7, <2>1, <2>2, <2>8, QuotaCounts
<1> QED BY <1>8, <1>9, <1>10, <1>11 DEF SnapshotInv

\* What the row loops of the snapshot have summed up is what the rows read say, at
\* every row (snapshotPoliciesAndGrants).
THEOREM SnapshotInvariant == Spec => []SnapshotInv
<1>1. ASSUME SnapshotInv, UNCHANGED vars PROVE SnapshotInv'
  <2>1. UNCHANGED following /\ UNCHANGED <<rows, unread, shown>>
    BY <1>1 DEF vars
  <2>2. LoopsInv' /\ loop' = loop /\ origins' = origins /\ reachable' = reachable
    BY <1>1, <2>1, StutterPreserves DEF SnapshotInv, following
  <2>3. /\ OwnPolicies' = OwnPolicies /\ \A table, S : In(table, S)' = In(table, S)
        /\ \A N : EffectsOf(N)' = EffectsOf(N) /\ ItemFacts(N)' = ItemFacts(N)
    BY <2>1, <2>2 DEF OwnPolicies, In, EffectsOf, ItemFacts, PoliciesOf
  <2>4. ShownTypes' /\ OwnFold'
    BY <1>1, <2>1, <2>2, <2>3 DEF SnapshotInv, ShownTypes, OwnFold
  <2>5. LentFold'
    BY <1>1, <2>1, <2>3 DEF SnapshotInv, LentFold
  <2>6. PeriodFold'
    BY <1>1, <2>1, <2>3 DEF SnapshotInv, PeriodFold, Spans, OwnQuotas
  <2>7. QuotaFold'
    <3>1. \A s : QuotaRowsOf(s)' \ unread' = QuotaRowsOf(s) \ unread
      BY <2>1, <2>3 DEF QuotaRowsOf, OwnQuotas
    <3>2. \A q, N : Counts(q, N)' <=> Counts(q, N)
      BY <2>1, CountsSame
    <3> QED BY <1>1, <2>1, <3>1, <3>2 DEF SnapshotInv, QuotaFold
  <2> QED BY <2>2, <2>4, <2>5, <2>6, <2>7 DEF SnapshotInv
<1>2. ASSUME SnapshotInv, Merge PROVE SnapshotInv'
  <2>1. PICK n \in unread :
          \/ AddPolicy(n) \/ AddFeature(n) \/ AddPermission(n) \/ AddDirectoryItem(n)
          \/ AddQuota(n) \/ AddAllocation(n)
    BY <1>2 DEF Merge
  <2>2. CASE AddPermission(n)
    <3>1. Take(n, {"permission item"}) /\ FactChanges(rows[n].scope, "permission", {rows[n].effect})
      BY <2>2 DEF AddPermission, FactChanges
    <3>2. rows[n].table = "permission item"
      BY <3>1 DEF Take
    <3> QED BY <1>2, <3>1, <3>2, AddItemPreserves DEF Added
  <2>3. CASE AddDirectoryItem(n)
    <3>1. /\ Take(n, {"directory item"})
          /\ FactChanges(rows[n].scope, "permission",
                         ItemEffects(rows[n].effect, PoliciesOf(reachable)))
      BY <2>3 DEF AddDirectoryItem, FactChanges
    <3>2. rows[n].table = "directory item"
      BY <3>1 DEF Take
    <3> QED BY <1>2, <3>1, <3>2, AddItemPreserves DEF Added
  <2> QED BY <1>2, <2>1, <2>2, <2>3, AddPolicyPreserves, AddFeaturePreserves, AddQuotaPreserves,
             AddAllocationPreserves
<1>3. SnapshotInv /\ [Next]_vars => SnapshotInv'
  BY <1>1, <1>2, FollowPreservesSnapshot DEF Next
<1> QED BY <1>3, InitEstablishesSnapshot, PTL DEF Spec

-----------------------------------------------------------------------------
(* The results. *)

\* The origins shown are those that assignments explain: reading the rows does
\* not change what the loops found.
THEOREM SnapshotOrigins == Spec => []OriginsExactly
<1>1. Init => FollowInit
  BY DEF Init
<1>2. [Next]_vars => [FollowNext]_following
  BY DEF Next, vars, Follow, Merge, AddPolicy, AddFeature, AddPermission, AddDirectoryItem, AddQuota,
         AddAllocation, Take
<1> QED BY <1>1, <1>2, OriginsAreExact, PTL DEF Spec, FollowSpec

\* The period shown spans the rows, whatever the order they come in.
THEOREM PeriodIsSpan == Spec => []PeriodSpansRows
<1>1. SnapshotInv => PeriodSpansRows
  <2> SUFFICES ASSUME SnapshotInv, Complete, OwnQuotas # {}
               PROVE  LET period == shown[Own].quota
                      IN /\ \A n \in OwnQuotas : period.start <= rows[n].start
                         /\ \E n \in OwnQuotas : period.start = rows[n].start
                         /\ \E n \in OwnQuotas : period.end = rows[n].end
                         /\ \A n \in OwnQuotas :
                              period.end = Null \/ (rows[n].end # Null /\ rows[n].end <= period.end)
    BY DEF PeriodSpansRows
  <2>1. OwnQuotas \ unread = OwnQuotas
    BY DEF Complete
  <2>2. Spans(shown[Own].quota, OwnQuotas)
    BY <2>1 DEF SnapshotInv, PeriodFold
  <2> QED BY <2>2 DEF Spans
<1> QED BY <1>1, SnapshotInvariant, PTL

\* Somebody's policies are those of the principals that have an origin.
LEMMA OriginsFindPolicies ==
  ASSUME LoopsInv, rows \in Seq(Rows), loop = "done"
  PROVE  EffectsOf(OwnPolicies) = PoliciesOf(Reach(Start, All))
<1> DEFINE Found == {q \in Principals : origins[q] # {}}
<1>1. \A rule \in All : rule.from \in Principals /\ rule.to \in Principals /\ Satisfied(rule)
  BY RuleTypes DEF LoopsInv, OriginsInv
<1>2. ClosedUnder(Found, All)
  BY <1>1 DEF ClosedUnder, Satisfied, Propagated
<1>3. Start \in Found /\ Start \in Principals /\ Found \in SUBSET Principals
  BY PrincipalsAssumption DEF LoopsInv, OriginsInv
<1>4. Reach(Start, All) \subseteq Found
  <2> HIDE DEF Found
  <2> QED BY <1>2, <1>3, ReachLeast
<1>5. Found \subseteq Reach(Start, All)
  BY DEF LoopsInv, FollowTypeOK, OriginsInv, Right
<1>6. \A n \in DOMAIN rows : rows[n].table = "policy" => rows[n].subject \in Principals
  BY RowTypes
<1>7. OwnPolicies = {n \in DOMAIN rows : rows[n].table = "policy" /\ rows[n].subject \in Reach(Start, All)}
  BY <1>4, <1>5, <1>6 DEF OwnPolicies
<1> QED BY <1>7 DEF EffectsOf, PoliciesOf

\* /me shows the user of his scope what the engine decides for him.
THEOREM OwnFactsMatch == Spec => []OwnFactsAsDecided
<1>1. \A S \in SUBSET Effects : Fact(S) = "allow" <=> S = {"allow"}
  BY DEF Fact, Effects
<1>2. SnapshotInv => OwnFactsAsDecided
  <2> SUFFICES ASSUME SnapshotInv, Complete
               PROVE  /\ shown[Own].permission = "allow" <=> Enforce
                      /\ shown[Own].feature = "allow" <=> HasFeature
    BY DEF OwnFactsAsDecided
  <2>1. OwnPolicies \ unread = OwnPolicies /\ In("feature", {Own}) \ unread = In("feature", {Own})
    BY DEF Complete
  <2>2. /\ shown[Own].permission = Fact(EffectsOf(OwnPolicies))
        /\ shown[Own].feature = Fact(EffectsOf(In("feature", {Own})))
    BY <2>1 DEF SnapshotInv, OwnFold
  <2>3. \A n \in DOMAIN rows : rows[n].effect \in Effects
    BY RowTypes DEF SnapshotInv, ShownTypes
  <2>4. /\ EffectsOf(OwnPolicies) \in SUBSET Effects
        /\ EffectsOf(In("feature", {Own})) \in SUBSET Effects
    BY <2>3 DEF EffectsOf, OwnPolicies, In
  <2>5. EffectsOf(OwnPolicies) = PoliciesOf(Reach(Start, All))
    BY OriginsFindPolicies DEF SnapshotInv, ShownTypes, Complete
  <2>6. shown[Own].permission = "allow" <=> Enforce
    BY <1>1, <2>2, <2>4, <2>5 DEF Enforce
  <2>7. shown[Own].feature = "allow" <=> HasFeature
    BY <1>1, <2>2, <2>4 DEF HasFeature
  <2> QED BY <2>6, <2>7
<1> QED BY <1>2, SnapshotInvariant, PTL

\* Folding grant by grant is folding them together.
LEMMA OneAllowsTogether ==
  ASSUME NEW G, NEW f, \A g \in G : f[g] \in SUBSET Effects
  PROVE  (\E g \in G : Fact(f[g]) = "allow") /\ (\A g \in G : Fact(f[g]) # "deny")
           <=> (\E g \in G : "allow" \in f[g]) /\ (\A g \in G : "deny" \notin f[g])
BY DEF Fact, Effects

\* What the items of some grants do to the permission.
LEMMA ItemsTogether ==
  ASSUME NEW N, \A n \in N : rows[n].effect \in Effects, PoliciesOf(reachable) \in SUBSET Effects
  PROVE  LET items == EffectsOf(N)
             policies == PoliciesOf(reachable)
         IN /\ "allow" \in ItemFacts(N) <=> "allow" \in items /\ "allow" \in policies
            /\ "deny" \in ItemFacts(N) <=>
                 (items # {} /\ "deny" \in policies) \/ ("deny" \in items /\ policies # {})
<1>1. \A item \in Effects, S \in SUBSET Effects :
        /\ "allow" \in ItemEffects(item, S) <=> item = "allow" /\ "allow" \in S
        /\ "deny" \in ItemEffects(item, S) <=> "deny" \in S \/ (item = "deny" /\ S # {})
  BY DEF ItemEffects, Effects
<1>2. /\ "allow" \in ItemFacts(N) <=>
           \E n \in N : rows[n].effect = "allow" /\ "allow" \in PoliciesOf(reachable)
      /\ "deny" \in ItemFacts(N) <=>
           \E n \in N : \/ "deny" \in PoliciesOf(reachable)
                        \/ rows[n].effect = "deny" /\ PoliciesOf(reachable) # {}
  BY <1>1 DEF ItemFacts
<1>3. /\ \A e : e \in EffectsOf(N) <=> \E n \in N : rows[n].effect = e
      /\ EffectsOf(N) # {} <=> N # {}
  BY DEF EffectsOf
<1> HIDE DEF Effects
<1> QED BY <1>2, <1>3

\* The rows of some grants are those of each.
LEMMA GrantsTogether ==
  ASSUME NEW table, NEW G
  PROVE  /\ \A e : e \in EffectsOf(In(table, G)) <=> \E g \in G : e \in EffectsOf(In(table, {g}))
         /\ \A e : e \in ItemFacts(In(table, G)) <=> \E g \in G : e \in ItemFacts(In(table, {g}))
<1>1. \A n : n \in In(table, G) <=> \E g \in G : n \in In(table, {g})
  BY DEF In
<1>3. \A N, e : e \in ItemFacts(N) <=>
                  \E n \in N : e \in ItemEffects(rows[n].effect, PoliciesOf(reachable))
  BY DEF ItemFacts
<1>4. ASSUME NEW e
      PROVE  e \in EffectsOf(In(table, G)) <=> \E g \in G : e \in EffectsOf(In(table, {g}))
  <2>1. \A g \in G :
          e \in EffectsOf(In(table, {g})) <=> \E n \in In(table, {g}) : e = rows[n].effect
    BY DEF EffectsOf
  <2>2. e \in EffectsOf(In(table, G)) <=> \E n \in In(table, G) : e = rows[n].effect
    BY DEF EffectsOf
  <2>3. (\E n \in In(table, G) : e = rows[n].effect)
          <=> \E g \in G : \E n \in In(table, {g}) : e = rows[n].effect
    BY <1>1
  <2> QED BY <2>1, <2>2, <2>3
<1>5. ASSUME NEW e
      PROVE  e \in ItemFacts(In(table, G)) <=> \E g \in G : e \in ItemFacts(In(table, {g}))
  BY <1>1, <1>3
<1> QED BY <1>4, <1>5

\* /me shows of the grants' bundles what the engine decides for any set of them.
THEOREM LentFactsMatch == Spec => []LentFactsAsDecided
<1>1. ASSUME SnapshotInv, Complete, NEW G \in SUBSET Grants
      PROVE  (\E g \in G : shown[g].feature = "allow") /\ (\A g \in G : shown[g].feature # "deny")
               <=> ExternalFeature(G)
  <2> DEFINE f == [g \in G |-> EffectsOf(In("feature item", {g}))]
  <2>1. \A g \in G : In("feature item", {g}) \ unread = In("feature item", {g})
    BY <1>1 DEF Complete
  <2>2. \A g \in G : shown[g].feature = Fact(f[g])
    BY <1>1, <2>1 DEF SnapshotInv, LentFold
  <2>3. \A g \in G : f[g] \in SUBSET Effects
    <3>1. \A n \in DOMAIN rows : rows[n].effect \in Effects
      BY <1>1, RowTypes DEF SnapshotInv, ShownTypes
    <3> QED BY <3>1 DEF EffectsOf, In
  <2>4. (\E g \in G : Fact(f[g]) = "allow") /\ (\A g \in G : Fact(f[g]) # "deny")
          <=> (\E g \in G : "allow" \in f[g]) /\ (\A g \in G : "deny" \notin f[g])
    <3> HIDE DEF f
    <3> QED BY <2>3, OneAllowsTogether
  <2>5. \A e : e \in EffectsOf(In("feature item", G)) <=> \E g \in G : e \in f[g]
    BY GrantsTogether
  <2> HIDE DEF f
  <2>6. EffectsOf(In("feature item", G)) \in SUBSET Effects
    BY <2>3, <2>5
  <2>7. ExternalFeature(G) <=>
          "allow" \in EffectsOf(In("feature item", G)) /\ "deny" \notin EffectsOf(In("feature item", G))
    BY <2>6 DEF ExternalFeature, Effects
  <2> QED BY <2>2, <2>4, <2>5, <2>7
<1>2. ASSUME SnapshotInv, Complete, NEW G \in SUBSET Grants
      PROVE  (\E g \in G : shown[g].permission = "allow") /\ (\A g \in G : shown[g].permission # "deny")
               <=> ExternalPermission(G)
  <2> DEFINE direct(H) == EffectsOf(In("permission item", H))
             items(H) == ItemFacts(In("directory item", H))
             f == [g \in G |-> direct({g}) \union items({g})]
  <2>1. \A g \in G : /\ In("permission item", {g}) \ unread = In("permission item", {g})
                     /\ In("directory item", {g}) \ unread = In("directory item", {g})
    BY <1>2 DEF Complete
  <2>2. \A g \in G : shown[g].permission = Fact(f[g])
    BY <1>2, <2>1 DEF SnapshotInv, LentFold
  <2>3. \A n \in DOMAIN rows : rows[n].effect \in Effects
    BY <1>2, RowTypes DEF SnapshotInv, ShownTypes
  <2>4. PoliciesOf(reachable) \in SUBSET Effects
    BY <2>3 DEF PoliciesOf
  <2>5. \A item \in Effects, S \in SUBSET Effects : ItemEffects(item, S) \in SUBSET Effects
    BY DEF ItemEffects, Effects
  <2>6. \A g \in G : f[g] \in SUBSET Effects
    <3>1. \A g \in G : direct({g}) \in SUBSET Effects
      BY <2>3 DEF EffectsOf, In
    <3>2. \A g \in G : items({g}) \in SUBSET Effects
      <4>1. \A n \in DOMAIN rows : ItemEffects(rows[n].effect, PoliciesOf(reachable)) \in SUBSET Effects
        BY <2>3, <2>4, <2>5
      <4> QED BY <4>1 DEF ItemFacts, In
    <3> QED BY <3>1, <3>2
  <2>7. (\E g \in G : Fact(f[g]) = "allow") /\ (\A g \in G : Fact(f[g]) # "deny")
          <=> (\E g \in G : "allow" \in f[g]) /\ (\A g \in G : "deny" \notin f[g])
    <3> HIDE DEF f
    <3> QED BY <2>6, OneAllowsTogether
  <2>8. /\ \A e : e \in direct(G) <=> \E g \in G : e \in direct({g})
        /\ \A e : e \in items(G) <=> \E g \in G : e \in items({g})
    BY GrantsTogether
  <2>9. /\ (\E g \in G : "allow" \in f[g]) <=> "allow" \in direct(G) \/ "allow" \in items(G)
        /\ (\A g \in G : "deny" \notin f[g]) <=> "deny" \notin direct(G) /\ "deny" \notin items(G)
    <3> HIDE DEF direct, items
    <3> QED BY <2>8
  <2>10. PoliciesOf(reachable) = PoliciesOf(Reach(Granted, All))
    <3>1. reachable = Reach(Granted, All)
      BY <1>2, LoopsFindReachable DEF SnapshotInv, Complete, ReachableExactly
    <3> QED BY <3>1
  <2>11. /\ "allow" \in items(G) <=>
              "allow" \in EffectsOf(In("directory item", G)) /\ "allow" \in PoliciesOf(reachable)
         /\ "deny" \in items(G) <=>
              \/ EffectsOf(In("directory item", G)) # {} /\ "deny" \in PoliciesOf(reachable)
              \/ "deny" \in EffectsOf(In("directory item", G)) /\ PoliciesOf(reachable) # {}
    <3>1. \A n \in In("directory item", G) : rows[n].effect \in Effects
      BY <2>3 DEF In
    <3> QED BY <2>4, <3>1, ItemsTogether
  <2>12. (\E g \in G : shown[g].permission = "allow") /\ (\A g \in G : shown[g].permission # "deny")
           <=> /\ "allow" \in direct(G) \/ "allow" \in items(G)
               /\ "deny" \notin direct(G) /\ "deny" \notin items(G)
    <3> HIDE DEF direct, items, f
    <3> QED BY <2>2, <2>7, <2>9
  <2> QED BY <2>10, <2>11, <2>12 DEF ExternalPermission
<1>3. SnapshotInv => LentFactsAsDecided
  BY <1>1, <1>2 DEF LentFactsAsDecided, OneAllows
<1> QED BY <1>3, SnapshotInvariant, PTL

\* The rows of a set of grants leave what those of each of them leave.
LEMMA AvailableTogether ==
  ASSUME rows \in Seq(Rows), NEW G \in SUBSET Grants
  PROVE  /\ Available(In("allocation", G)) =
              Total([g \in G |-> Available(In("allocation", {g}))], G)
         /\ Available(In("allocation", G)) \in Nat
         /\ \A g \in G : /\ Available(In("allocation", {g})) \in Nat
                          /\ Available(In("allocation", {g})) <= Available(In("allocation", G))
<1> DEFINE A == In("allocation", G)
           Of(g) == In("allocation", {g})
           class == [n \in A |-> rows[n].scope]
           parts == [g \in G |-> Available(Of(g))]
<1>1. IsFiniteSet(G) /\ IsFiniteSet(A)
  <2>1. A \in SUBSET DOMAIN rows
    BY DEF In
  <2> QED BY <2>1, SnapshotAssumption, FS_Subset, FiniteRows
<1>2. \A n \in DOMAIN rows : rows[n].table = "allocation" => HasLimit(n)
  <2>1. \A n \in DOMAIN rows : rows[n].table = "allocation" => rows[n] \in AllocationRows
    BY RowTypes
  <2> QED BY <2>1, SnapshotAssumption DEF HasLimit, AllocationRows
<1>3. Available(A) = Total(RowLeft, A) /\ Available(A) \in Nat
  <2>1. A \in SUBSET DOMAIN rows /\ \A n \in A : HasLimit(n)
    BY <1>2 DEF In
  <2> HIDE DEF A
  <2> QED BY <2>1, AvailableIs
<1>4. ASSUME NEW g \in G PROVE Available(Of(g)) = Total(RowLeft, Of(g)) /\ Available(Of(g)) \in Nat
  <2>1. Of(g) \in SUBSET DOMAIN rows /\ \A n \in Of(g) : HasLimit(n)
    BY <1>2 DEF In
  <2> HIDE DEF Of
  <2> QED BY <2>1, AvailableIs
<1>5. class \in [A -> G] /\ \A g \in G : {n \in A : class[n] = g} = Of(g)
  BY DEF In
<1>6. \A n \in A : RowLeft[n] \in Int
  <2>1. \A n \in A : n \in DOMAIN rows /\ HasLimit(n)
    BY <1>2 DEF In
  <2> QED BY <2>1, RowLeftTypes
<1>7. Total(RowLeft, A) = Total(ByClass(RowLeft, A, class, G), G)
  <2> HIDE DEF class, A
  <2> QED BY <1>1, <1>5, <1>6, TotalByClass
<1>8. ByClass(RowLeft, A, class, G) = parts
  <2> HIDE DEF Of, class, A
  <2> QED BY <1>4, <1>5 DEF ByClass
<1>9. \A g \in G : parts[g] = Available(Of(g)) /\ parts[g] \in Nat
  BY <1>4
<1>10. \A g \in G : parts[g] <= Total(parts, G)
  <2> HIDE DEF parts
  <2> QED BY <1>1, <1>9, OneOfTotal
<1> QED BY <1>3, <1>7, <1>8, <1>9, <1>10

\* Each grant's quota counts its allocations.
LEMMA LentCounts ==
  ASSUME SnapshotInv, Complete, NEW g \in Grants
  PROVE  Counts(shown[g].quota, In("allocation", {g}))
<1>1. g \in Scopes /\ g # Own
  BY SnapshotAssumption DEF Scopes
<1>2. QuotaRowsOf(g) \ unread = In("allocation", {g})
  BY <1>1 DEF QuotaRowsOf, Complete
<1> QED BY <1>1, <1>2 DEF SnapshotInv, QuotaFold

\* A quota is shown as allowed when all its rows allow it.
LEMMA AllAllow ==
  ASSUME NEW N, \A n \in N : rows[n].effect \in Effects
  PROVE  /\ EffectsOf(N) \in SUBSET Effects
         /\ Fact(EffectsOf(N)) = "allow" <=> EffectsOf(N) = {"allow"}
         /\ EffectsOf(N) = {"allow"} => \A n \in N : rows[n].effect = "allow"
<1>1. EffectsOf(N) \in SUBSET Effects
  BY DEF EffectsOf
<1>2. \A S \in SUBSET Effects : Fact(S) = "allow" <=> S = {"allow"}
  BY DEF Fact, Effects
<1>3. \A n \in N : rows[n].effect \in EffectsOf(N)
  BY DEF EffectsOf
<1> QED BY <1>1, <1>2, <1>3

\* /me shows the quota that the engine holds a cost against, in the scope and in
\* any set of bundles, as long as the engine's sums do not overflow.
THEOREM QuotasMatch == Spec => []QuotasAsDecided
<1>1. ASSUME SnapshotInv, Complete, NEW cost \in 1 .. MaxInt, Answers(Limited(OwnQuotas))
      PROVE  LET q == shown[Own].quota
             IN q.effect = "allow" /\ (q.unlimited \/ q.left >= cost) <=> QuotaAvailable(cost)
  <2>1. Counts(shown[Own].quota, OwnQuotas)
    <3>1. OwnQuotas \ unread = OwnQuotas /\ Own \in Scopes
      BY <1>1 DEF Complete, Scopes
    <3> QED BY <1>1, <3>1 DEF SnapshotInv, QuotaFold, QuotaRowsOf
  <2>2. \A n \in OwnQuotas : rows[n].effect \in Effects
    BY <1>1, RowTypes DEF SnapshotInv, ShownTypes, OwnQuotas, In
  <2>3. /\ Fact(EffectsOf(OwnQuotas)) = "allow" <=> EffectsOf(OwnQuotas) = {"allow"}
        /\ EffectsOf(OwnQuotas) = {"allow"} => \A n \in OwnQuotas : rows[n].effect = "allow"
    BY <2>2, AllAllow
  <2>4. shown[Own].quota.left = Available(Limited(OwnQuotas))
    BY <1>1, <2>1 DEF Counts, Answers
  <2>5. /\ shown[Own].quota.effect = Fact(EffectsOf(OwnQuotas))
        /\ shown[Own].quota.unlimited <=>
             \E n \in OwnQuotas : rows[n].effect = "allow" /\ rows[n].limit = Null
    BY <2>1 DEF Counts
  <2> QED BY <2>3, <2>4, <2>5 DEF QuotaAvailable
<1>2. ASSUME SnapshotInv, Complete, NEW G \in SUBSET Grants
      PROVE  (\E g \in G : shown[g].quota.effect = "allow") /\ (\A g \in G : shown[g].quota.effect # "deny")
               <=> EffectsOf(In("allocation", G)) = {"allow"}
  <2> DEFINE f == [g \in G |-> EffectsOf(In("allocation", {g}))]
  <2>1. \A n \in DOMAIN rows : rows[n].effect \in Effects
    BY <1>2, RowTypes DEF SnapshotInv, ShownTypes
  <2>2. \A g \in G : shown[g].quota.effect = Fact(f[g])
    BY <1>2, LentCounts DEF Counts
  <2>3. \A g \in G : f[g] \in SUBSET Effects
    BY <2>1 DEF EffectsOf, In
  <2>4. (\E g \in G : Fact(f[g]) = "allow") /\ (\A g \in G : Fact(f[g]) # "deny")
          <=> (\E g \in G : "allow" \in f[g]) /\ (\A g \in G : "deny" \notin f[g])
    <3> HIDE DEF f
    <3> QED BY <2>3, OneAllowsTogether
  <2>5. \A e : e \in EffectsOf(In("allocation", G)) <=> \E g \in G : e \in f[g]
    BY GrantsTogether
  <2> HIDE DEF f
  <2>6. EffectsOf(In("allocation", G)) \in SUBSET Effects
    BY <2>3, <2>5
  <2>7. EffectsOf(In("allocation", G)) = {"allow"} <=>
          "allow" \in EffectsOf(In("allocation", G)) /\ "deny" \notin EffectsOf(In("allocation", G))
    BY <2>6 DEF Effects
  <2> QED BY <2>2, <2>4, <2>5, <2>7
<1>3. ASSUME SnapshotInv, Complete, NEW G \in SUBSET Grants, Answers(In("allocation", G)),
             EffectsOf(In("allocation", G)) = {"allow"}
      PROVE  Total([g \in G |-> shown[g].quota.left], G) = Available(In("allocation", G))
  <2> DEFINE Of(g) == In("allocation", {g})
  <2>1. rows \in Seq(Rows)
    BY <1>3 DEF SnapshotInv, ShownTypes
  <2>2. /\ Available(In("allocation", G)) = Total([g \in G |-> Available(Of(g))], G)
        /\ Available(In("allocation", G)) \in Nat
        /\ \A g \in G : Available(Of(g)) \in Nat /\ Available(Of(g)) <= Available(In("allocation", G))
    BY <2>1, AvailableTogether
  <2>3. ASSUME NEW g \in G PROVE shown[g].quota.left = Available(Of(g))
    <3>1. Counts(shown[g].quota, Of(g))
      BY <1>3, LentCounts
    <3>2. \A n \in Of(g) : n \in In("allocation", G) /\ n \in DOMAIN rows /\ rows[n].table = "allocation"
      BY DEF In
    <3>3. \A n \in Of(g) : rows[n].effect = "allow" /\ rows[n].limit # Null
      <4>1. \A n \in In("allocation", G) : rows[n].effect = "allow"
        BY <1>3 DEF EffectsOf
      <4>2. \A n \in Of(g) : rows[n] \in AllocationRows
        BY <2>1, <3>2, RowTypes
      <4>3. \A row \in AllocationRows : row.limit # Null
        BY SnapshotAssumption DEF AllocationRows
      <4> HIDE DEF Of
      <4> QED BY <3>2, <4>1, <4>2, <4>3
    <3>4. Limited(Of(g)) = Of(g)
      BY <3>3 DEF Limited
    <3>5. Available(Of(g)) <= MaxInt
      <4>1. Available(In("allocation", G)) <= MaxInt /\ MaxInt \in Nat
        BY <1>3, SnapshotAssumption DEF Answers
      <4> HIDE DEF Of
      <4> QED BY <2>2, <4>1
    <3> HIDE DEF Of
    <3> QED BY <3>1, <3>4, <3>5 DEF Counts
  <2>4. [g \in G |-> shown[g].quota.left] = [g \in G |-> Available(Of(g))]
    <3> HIDE DEF Of
    <3> QED BY <2>3
  <2> HIDE DEF Of
  <2> QED BY <2>2, <2>4
<1>4. ASSUME SnapshotInv, Complete, NEW cost \in 1 .. MaxInt, NEW G \in SUBSET Grants,
             Answers(In("allocation", G))
      PROVE  ExternalQuota(G, cost) <=>
               /\ OneAllows(G, LAMBDA g : shown[g].quota.effect)
               /\ Total([g \in G |-> shown[g].quota.left], G) >= cost
  <2>1. OneAllows(G, LAMBDA g : shown[g].quota.effect) <=> EffectsOf(In("allocation", G)) = {"allow"}
    BY <1>2, <1>4 DEF OneAllows
  <2> QED BY <1>3, <1>4, <2>1 DEF ExternalQuota
<1>5. SnapshotInv => QuotasAsDecided
  BY <1>1, <1>4 DEF QuotasAsDecided
<1> QED BY <1>5, SnapshotInvariant, PTL

================================================================================
