-------------------------- MODULE PolicyReachability --------------------------
(***************************************************************************)
(* The two loops that follow Casbin's g rules.  PoliciesForPrincipal finds *)
(* the principals whose policies a role or group of an external grant      *)
(* stands for; collectPolicyOrigins does it for the /me snapshot, and      *)
(* remembers which role or group each was reached through.  Both pass over *)
(* the rules, in whatever order Casdoor lists them, until a pass changes   *)
(* nothing; rules may be cyclic.                                           *)
(*                                                                         *)
(* Here one runs after the other on the same rules, those of one domain    *)
(* (a rule of another domain is skipped by both).                          *)
(***************************************************************************)
EXTENDS Naturals, Sequences

CONSTANTS
  Principals,
  KindOf,     \* the prefix of each
  Granted,    \* the role or group of an external grant, where PoliciesForPrincipal starts
  Start,      \* the user whose snapshot is made, where collectPolicyOrigins starts
  RuleLists   \* lists of g rules that Casdoor may return

Kinds == {"user", "membership", "role", "group"}
Rules == [from : Principals, to : Principals]

ASSUME PrincipalsAssumption ==
  /\ KindOf \in [Principals -> Kinds]
  /\ Granted \in Principals /\ KindOf[Granted] \in {"role", "group"}
  /\ Start \in Principals /\ KindOf[Start] = "user"
  /\ RuleLists \subseteq Seq(Rules)

VARIABLES
  rules,      \* the snapshot, which does not change
  loop,       \* the loop that runs
  next,       \* the rule it comes to
  changed,    \* did this pass change anything?
  reachable,  \* of PoliciesForPrincipal
  origins     \* of collectPolicyOrigins: a principal for a role or a group, Start for "direct"

following == <<rules, loop, next, changed, reachable, origins>>

FollowTypeOK ==
  /\ rules \in Seq(Rules)
  /\ loop \in {"reach", "origins", "done"}
  /\ next \in 1 .. Len(rules) + 1
  /\ changed \in BOOLEAN
  /\ reachable \in SUBSET Principals
  /\ origins \in [Principals -> SUBSET Principals]

FollowInit ==
  /\ rules \in RuleLists
  /\ loop = "reach"
  /\ next = 1
  /\ changed = FALSE
  /\ reachable = {Granted}
  /\ origins = [p \in Principals |-> IF p = Start THEN {Start} ELSE {}]

\* Mutant of VisitReachable: a principal that is there counts as new.
VisitReachableAgain ==
  /\ loop = "reach" /\ next <= Len(rules)
  /\ LET rule == rules[next]
     IN IF rule.from \in reachable
        THEN reachable' = reachable \union {rule.to} /\ changed' = TRUE
        ELSE UNCHANGED <<reachable, changed>>
  /\ next' = next + 1
  /\ UNCHANGED <<rules, loop, origins>>

VisitReachable ==
  /\ loop = "reach" /\ next <= Len(rules)
  /\ LET rule == rules[next]
     IN IF rule.from \in reachable /\ rule.to \notin reachable
        THEN reachable' = reachable \union {rule.to} /\ changed' = TRUE
        ELSE UNCHANGED <<reachable, changed>>
  /\ next' = next + 1
  /\ UNCHANGED <<rules, loop, origins>>

\* A rule that gives a user or a membership a role or a group.
Assigns(rule) ==
  KindOf[rule.from] \in {"user", "membership"} /\ KindOf[rule.to] \in {"role", "group"}

\* Mutant of Propagated: every role or group on the way becomes the origin.
PropagatedAnew(rule, current) ==
  IF KindOf[rule.to] \in {"role", "group"} THEN {rule.to} ELSE current

\* propagatedOrigins
Propagated(rule, current) == IF Assigns(rule) THEN {rule.to} ELSE current

VisitOrigins ==
  /\ loop = "origins" /\ next <= Len(rules)
  /\ LET rule == rules[next]
         new == IF origins[rule.from] = {} THEN {} ELSE Propagated(rule, origins[rule.from])
     IN /\ origins' = [origins EXCEPT ![rule.to] = @ \union new]
        /\ changed' = (changed \/ ~(new \subseteq origins[rule.to]))
  /\ next' = next + 1
  /\ UNCHANGED <<rules, loop, reachable>>

EndPass ==
  /\ loop # "done" /\ next = Len(rules) + 1
  /\ next' = 1
  /\ changed' = FALSE
  /\ loop' = IF changed THEN loop ELSE IF loop = "reach" THEN "origins" ELSE "done"
  /\ UNCHANGED <<rules, reachable, origins>>

FollowNext == VisitReachable \/ VisitOrigins \/ EndPass

FollowSpec == FollowInit /\ [][FollowNext]_following

-----------------------------------------------------------------------------
(* What must hold. *)

All == {rules[i] : i \in 1 .. Len(rules)}
Inheriting == {rule \in All : ~Assigns(rule)}

\* S holds what any of its members leads to by rules of R.
ClosedUnder(S, R) == \A rule \in R : rule.from \in S => rule.to \in S

\* What p leads to by rules of R: the members of every closed set that p is in.
Reach(p, R) ==
  {q \in Principals : \A S \in SUBSET Principals : p \in S /\ ClosedUnder(S, R) => q \in S}

\* PoliciesForPrincipal finds all principals that Granted leads to and no
\* others, whatever the order of the rules and their cycles.
ReachableExactly == loop # "reach" => reachable = Reach(Granted, All)

\* Was o assigned to somebody reached?
Assigned(o) ==
  \E rule \in All : Assigns(rule) /\ rule.to = o /\ rule.from \in Reach(Start, All)

\* The origins in the snapshot are right: a role or a group is one of what
\* somebody reached was assigned it and of what it leads to without a further
\* assignment, and "direct" is one of what needs no assignment at all.
OriginsExactly ==
  loop = "done" =>
    \A p, o \in Principals :
      o \in origins[p] <=> p \in Reach(o, Inheriting) /\ (o = Start \/ Assigned(o))

================================================================================
