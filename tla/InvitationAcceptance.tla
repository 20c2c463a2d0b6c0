------------------------- MODULE InvitationAcceptance -------------------------
(***************************************************************************)
(* Acceptance of an organization invitation: a saga over two stores.       *)
(* SQLite holds the invitation, the claim row of the running acceptance    *)
(* and the membership; Casdoor holds the Casbin g policies that tie the    *)
(* membership to the invited roles.  A handler claims the invitation in    *)
(* one transaction, adds the missing policies one HTTP call at a time, and *)
(* completes (or releases, or aborts) the claim in another transaction.    *)
(* Nothing spans the two stores: a handler may die, fail or lose its lease *)
(* between any two steps.                                                  *)
(*                                                                         *)
(* Every SQLite transaction is one action: the database has one connection *)
(* and BEGIN/COMMIT or ROLLBACK brackets every method of the repository.   *)
(* The Casbin edges of membership "invitation:"||i are kept per invitation *)
(* i, as a set of role names plus UserEdge for the edge user -> membership.*)
(***************************************************************************)
EXTENDS Integers

CONSTANTS
  Invitations,   \* invitation ids (a token and a user belong to each)
  Slots,         \* (organization, user) pairs
  SlotOf,        \* the pair an invitation is for
  Roles,         \* Casdoor role ids
  RolesOf,       \* the role bundle of an invitation
  UserEdge,      \* the g edge user -> membership
  Workers,       \* concurrent AcceptInvitation requests
  ClaimIds,      \* the random claim_id values
  NoClaim,       \* no claim_id
  Windows,       \* the durations an invitation may be valid for
  Lease,         \* invitationAcceptanceLease
  MaxTime,       \* bound on the clock
  FaultHorizon   \* the last instant at which the environment misbehaves (-1: never)

ASSUME ConstantsAssumption ==
  /\ Invitations # {}
  /\ SlotOf \in [Invitations -> Slots]
  /\ RolesOf \in [Invitations -> SUBSET Roles]
  /\ \A i \in Invitations : RolesOf[i] # {}
  /\ UserEdge \notin Roles
  /\ NoClaim \notin ClaimIds
  /\ Windows \subseteq Nat \ {0}
  /\ Lease \in Nat \ {0}
  /\ MaxTime \in Nat
  /\ FaultHorizon \in Int

VARIABLES
  now,        \* wall clock, in the one-second units the timestamps have
  status,     \* organization_invitations_v2.status, "none" before the insert
  window,     \* valid_from and valid_until of the invitation
  member,     \* the organization_members row "invitation:"||i
  joined,     \* does the pair have an active membership of other origin
  acceptance, \* the invitation_acceptances_v2 row, NoRow when absent
  policies,   \* g edges of the membership in Casbin
  late,       \* AddPolicy calls reported as failed that may still arrive
  pc,         \* where each running Accept is
  inv,        \* its invitation
  at,         \* the time its handler read
  claim,      \* acceptance.ClaimID
  recovery,   \* acceptance.Recovery
  todo,       \* the required rules it still has to add
  sent        \* those it called AddPolicy for (ExternalMutationPossible: not {})

database == <<status, window, member, joined, acceptance>>
casbin == <<policies, late>>
locals == <<inv, at, claim, recovery, todo, sent>>
handler == <<pc, locals>>
vars == <<now, database, casbin, handler>>

Edge == Roles \union {UserEdge}
Pc == {"idle", "claim", "snapshot", "add", "complete", "release", "abort"}

NoRow == [claim |-> NoClaim, lease |-> 0, started |-> 0, attempts |-> 0]
AnyInvitation == CHOOSE i \in Invitations : TRUE

\* attempt_count is only ever compared with 1, so it saturates at 2.
AttemptCap == 2

TypeOK ==
  /\ now \in Nat
  /\ status \in [Invitations -> {"none", "pending", "accepted"}]
  /\ window \in [Invitations -> [from : Nat, until : Nat]]
  /\ member \in [Invitations -> {"absent", "provisioning", "active", "left"}]
  /\ joined \in [Slots -> BOOLEAN]
  /\ acceptance \in [Invitations -> [claim : ClaimIds \union {NoClaim}, lease : Nat,
                                     started : Nat, attempts : 0 .. AttemptCap]]
  /\ policies \in [Invitations -> SUBSET Edge]
  /\ late \in [Invitations -> SUBSET Edge]
  /\ pc \in [Workers -> Pc]
  /\ inv \in [Workers -> Invitations]
  /\ at \in [Workers -> Nat]
  /\ claim \in [Workers -> ClaimIds \union {NoClaim}]
  /\ recovery \in [Workers -> BOOLEAN]
  /\ todo \in [Workers -> SUBSET Edge]
  /\ sent \in [Workers -> SUBSET Edge]

-----------------------------------------------------------------------------
\* What membershipRoleRules asks of Casbin for the membership of i.
Required(i) == RolesOf[i] \union {UserEdge}

HasRow(i) == acceptance[i].claim # NoClaim

\* Mutant of CurrentMember: the index covers active rows only.
CurrentMemberActiveOnly(s) ==
  \/ joined[s]
  \/ \E i \in Invitations : SlotOf[i] = s /\ member[i] = "active"

\* The rows under the unique index organization_members_one_current.
CurrentMember(s) ==
  \/ joined[s]
  \/ \E i \in Invitations : SlotOf[i] = s /\ member[i] \in {"provisioning", "active"}

\* The membership hard gate: an active row for the pair, whatever its origin.
ActiveMember(s) ==
  \/ joined[s]
  \/ \E i \in Invitations : SlotOf[i] = s /\ member[i] = "active"

\* claim_id is 16 random bytes: never one that a row or a request still holds.
UsedClaims ==
  {acceptance[i].claim : i \in Invitations} \union {claim[w] : w \in Workers}

EnvironmentMisbehaves == now <= FaultHorizon

\* Mutant of ClaimableFirst: the end of the window is not looked at.
ClaimableAnyTime(i, t) == status[i] = "pending" /\ ~HasRow(i) /\ window[i].from <= t

\* The WHERE of the claiming INSERT: a first claim inside the validity window...
ClaimableFirst(i, t) ==
  /\ status[i] = "pending"
  /\ ~HasRow(i)
  /\ window[i].from <= t /\ t < window[i].until

\* Mutants of ClaimableAgain: a running claim is taken over; a recovery needs the
\* window to be open still.
ClaimableDuringLease(i, t) == status[i] = "pending" /\ HasRow(i)
ClaimableAgainInWindow(i, t) ==
  /\ status[i] = "pending"
  /\ HasRow(i)
  /\ acceptance[i].lease <= t /\ t < window[i].until

\* ... or the take-over of a row whose lease is over, window or not.
ClaimableAgain(i, t) ==
  /\ status[i] = "pending"
  /\ HasRow(i)
  /\ acceptance[i].lease <= t

\* ensureProvisioningMembership commits: the row is inserted, or is there and
\* still provisioning.
MembershipClaimable(i) ==
  \/ member[i] = "provisioning"
  \/ member[i] = "absent" /\ ~CurrentMember(SlotOf[i])

\* Mutant of AfterSyncError: only this attempt's own calls count.
AbortUnlessSent(w) == IF sent[w] # {} THEN "release" ELSE "abort"

\* Where Accept goes when EnsureMembershipRoles returns an error.
AfterSyncError(w) ==
  IF recovery[w] \/ sent[w] # {} THEN "release" ELSE "abort"

Goto(w, place) == pc' = [pc EXCEPT ![w] = place] /\ UNCHANGED locals

Finish(w) ==
  /\ pc' = [pc EXCEPT ![w] = "idle"]
  /\ inv' = [inv EXCEPT ![w] = AnyInvitation]
  /\ at' = [at EXCEPT ![w] = 0]
  /\ claim' = [claim EXCEPT ![w] = NoClaim]
  /\ recovery' = [recovery EXCEPT ![w] = FALSE]
  /\ todo' = [todo EXCEPT ![w] = {}]
  /\ sent' = [sent EXCEPT ![w] = {}]

-----------------------------------------------------------------------------
Init ==
  /\ now = 0
  /\ status = [i \in Invitations |-> "none"]
  /\ window = [i \in Invitations |-> [from |-> 0, until |-> 0]]
  /\ member = [i \in Invitations |-> "absent"]
  /\ joined \in [Slots -> BOOLEAN]
  /\ acceptance = [i \in Invitations |-> NoRow]
  /\ policies = [i \in Invitations |-> {}]
  /\ late = [i \in Invitations |-> {}]
  /\ pc = [w \in Workers |-> "idle"]
  /\ inv = [w \in Workers |-> AnyInvitation]
  /\ at = [w \in Workers |-> 0]
  /\ claim = [w \in Workers |-> NoClaim]
  /\ recovery = [w \in Workers |-> FALSE]
  /\ todo = [w \in Workers |-> {}]
  /\ sent = [w \in Workers |-> {}]

Tick ==
  /\ now < MaxTime
  /\ now' = now + 1
  /\ UNCHANGED <<database, casbin, handler>>

\* Invite: UNIQUE(organization_id,user_id,status) allows one pending invitation
\* per pair.  Nothing in the program ever clears a pending one.
Invite(i) ==
  /\ status[i] = "none"
  /\ \A j \in Invitations : SlotOf[j] = SlotOf[i] => status[j] # "pending"
  /\ status' = [status EXCEPT ![i] = "pending"]
  /\ \E d \in Windows : window' = [window EXCEPT ![i] = [from |-> now, until |-> now + d]]
  /\ UNCHANGED <<now, member, joined, acceptance, casbin, handler>>

\* A request to accept arrives; `at` is read here and used to the end.
BeginAccept(w, i) ==
  /\ pc[w] = "idle"
  /\ status[i] # "none"
  /\ pc' = [pc EXCEPT ![w] = "claim"]
  /\ inv' = [inv EXCEPT ![w] = i]
  /\ at' = [at EXCEPT ![w] = now]
  /\ UNCHANGED <<now, database, casbin, claim, recovery, todo, sent>>

\* The claiming transaction, as a first attempt or as a recovery.
ClaimAcceptance(w) ==
  LET i == inv[w]
  IN /\ pc[w] = "claim"
     /\ ClaimableFirst(i, at[w]) \/ ClaimableAgain(i, at[w])
     /\ MembershipClaimable(i)
     /\ \E c \in ClaimIds \ UsedClaims :
          /\ acceptance' = [acceptance EXCEPT ![i] =
               [claim |-> c, lease |-> at[w] + Lease,
                started |-> IF HasRow(i) THEN acceptance[i].started ELSE at[w],
                attempts |-> IF HasRow(i) THEN AttemptCap ELSE 1]]
          /\ claim' = [claim EXCEPT ![w] = c]
     /\ recovery' = [recovery EXCEPT ![w] = HasRow(i)]
     /\ member' = [member EXCEPT ![i] = "provisioning"]
     /\ pc' = [pc EXCEPT ![w] = "snapshot"]
     /\ UNCHANGED <<now, status, window, joined, casbin, inv, at, todo, sent>>

\* ErrApplicationNotPending, or the unique index: the transaction rolls back.
ClaimRejected(w) ==
  /\ pc[w] = "claim"
  /\ \/ ~(ClaimableFirst(inv[w], at[w]) \/ ClaimableAgain(inv[w], at[w]))
     \/ ~MembershipClaimable(inv[w])
  /\ Finish(w)
  /\ UNCHANGED <<now, database, casbin>>

\* EnsureMembershipRoles: ValidateRoles passes and the snapshot that decides
\* which rules are missing is taken.
TakeSnapshot(w) ==
  /\ pc[w] = "snapshot"
  /\ todo' = [todo EXCEPT ![w] = Required(inv[w]) \ policies[inv[w]]]
  /\ pc' = [pc EXCEPT ![w] = "add"]
  /\ UNCHANGED <<now, database, casbin, inv, at, claim, recovery, sent>>

\* A role of the bundle is gone from Casdoor, or Casdoor does not answer.
SnapshotFails(w) ==
  /\ pc[w] = "snapshot"
  /\ EnvironmentMisbehaves
  /\ Goto(w, AfterSyncError(w))
  /\ UNCHANGED <<now, database, casbin>>

\* The role edges first, in an order the program fixes and no property needs,
\* the edge from the user last.
NextEdges(edges) == IF edges \subseteq {UserEdge} THEN edges ELSE edges \ {UserEdge}

AddPolicy(w) ==
  /\ pc[w] = "add"
  /\ \E e \in NextEdges(todo[w]) :
       /\ policies' = [policies EXCEPT ![inv[w]] = @ \union {e}]
       /\ todo' = [todo EXCEPT ![w] = @ \ {e}]
       /\ sent' = [sent EXCEPT ![w] = @ \union {e}]
  /\ UNCHANGED <<now, database, late, pc, inv, at, claim, recovery>>

\* The call errs although Casdoor applied the rule, did not, or applies it
\* later (a request given up by the 3 s client timeout).
AddPolicyFails(w) ==
  /\ pc[w] = "add"
  /\ EnvironmentMisbehaves
  /\ \E e \in NextEdges(todo[w]) :
       /\ sent' = [sent EXCEPT ![w] = @ \union {e}]
       /\ \/ /\ policies' = [policies EXCEPT ![inv[w]] = @ \union {e}]
             /\ UNCHANGED late
          \/ /\ late' = [late EXCEPT ![inv[w]] = @ \union {e}]
             /\ UNCHANGED policies
          \/ UNCHANGED casbin
  /\ pc' = [pc EXCEPT ![w] = "release"]
  /\ UNCHANGED <<now, database, inv, at, claim, recovery, todo>>

\* The call returns no error yet the rule is not in the policy (`affected` is
\* ignored): what the verifying snapshot is for.
AddPolicyIgnored(w) ==
  /\ pc[w] = "add"
  /\ EnvironmentMisbehaves
  /\ \E e \in NextEdges(todo[w]) :
       /\ todo' = [todo EXCEPT ![w] = @ \ {e}]
       /\ sent' = [sent EXCEPT ![w] = @ \union {e}]
  /\ UNCHANGED <<now, database, casbin, pc, inv, at, claim, recovery>>

DeliverLate(i) ==
  /\ \E e \in late[i] : /\ policies' = [policies EXCEPT ![i] = @ \union {e}]
                        /\ late' = [late EXCEPT ![i] = @ \ {e}]
  /\ UNCHANGED <<now, database, handler>>

\* ctx.Err() before a call: the client went away or the server is stopping.
ContextDone(w) ==
  /\ pc[w] = "add"
  /\ todo[w] # {}
  /\ EnvironmentMisbehaves
  /\ Goto(w, AfterSyncError(w))
  /\ UNCHANGED <<now, database, casbin>>

\* Mutant of VerifyRoles: no second snapshot is compared with the bundle.
TrustAddPolicy(w) ==
  /\ pc[w] = "add"
  /\ todo[w] = {}
  /\ Goto(w, "complete")
  /\ UNCHANGED <<now, database, casbin>>

VerifyRoles(w) ==
  /\ pc[w] = "add"
  /\ todo[w] = {}
  /\ Required(inv[w]) \subseteq policies[inv[w]]
  /\ Goto(w, "complete")
  /\ UNCHANGED <<now, database, casbin>>

\* ErrIncompleteCasdoorRoleSync, or the second snapshot fails.
VerifyFails(w) ==
  /\ pc[w] = "add"
  /\ todo[w] = {}
  /\ Required(inv[w]) \subseteq policies[inv[w]] => EnvironmentMisbehaves
  /\ Goto(w, AfterSyncError(w))
  /\ UNCHANGED <<now, database, casbin>>

\* The row is found by claim_id, the membership is still provisioning, and no
\* other accepted invitation of the pair breaks UNIQUE(...,status).
Completable(w) ==
  LET i == inv[w]
  IN /\ acceptance[i].claim = claim[w]
     /\ status[i] = "pending"
     /\ member[i] = "provisioning"
     /\ \A j \in Invitations : SlotOf[j] = SlotOf[i] => status[j] # "accepted"

\* Mutant of CompleteAcceptance: the invitation is not marked accepted.
ActivateOnly(w) ==
  LET i == inv[w]
  IN /\ pc[w] = "complete"
     /\ Completable(w)
     /\ member' = [member EXCEPT ![i] = "active"]
     /\ acceptance' = [acceptance EXCEPT ![i] = NoRow]
     /\ Finish(w)
     /\ UNCHANGED <<now, status, window, joined, casbin>>

CompleteAcceptance(w) ==
  LET i == inv[w]
  IN /\ pc[w] = "complete"
     /\ Completable(w)
     /\ member' = [member EXCEPT ![i] = "active"]
     /\ status' = [status EXCEPT ![i] = "accepted"]
     /\ acceptance' = [acceptance EXCEPT ![i] = NoRow]
     /\ Finish(w)
     /\ UNCHANGED <<now, window, joined, casbin>>

CompleteFails(w) ==
  /\ pc[w] = "complete"
  /\ Completable(w) => EnvironmentMisbehaves
  /\ Goto(w, "release")
  /\ UNCHANGED <<now, database, casbin>>

\* lease_until is set back to `at`; nothing is updated when the claim was lost.
ReleaseAcceptance(w) ==
  LET i == inv[w]
  IN /\ pc[w] = "release"
     /\ acceptance' = IF acceptance[i].claim = claim[w]
                      THEN [acceptance EXCEPT ![i] =
                             [claim |-> claim[w], lease |-> at[w],
                              started |-> acceptance[i].started,
                              attempts |-> acceptance[i].attempts]]
                      ELSE acceptance
     /\ Finish(w)
     /\ UNCHANGED <<now, status, window, member, joined, casbin>>

\* Mutant of AbortAcceptance: only the claim row is deleted.
AbortClaimOnly(w) ==
  LET i == inv[w]
  IN /\ pc[w] = "abort"
     /\ acceptance' = IF acceptance[i].claim = claim[w]
                      THEN [acceptance EXCEPT ![i] = NoRow] ELSE acceptance
     /\ Finish(w)
     /\ UNCHANGED <<now, status, window, member, joined, casbin>>

\* The claim row and the provisioning membership are deleted together; a lost
\* claim deletes nothing, a membership that is not provisioning rolls back.
AbortAcceptance(w) ==
  LET i == inv[w]
      mine == acceptance[i].claim = claim[w] /\ member[i] = "provisioning"
  IN /\ pc[w] = "abort"
     /\ acceptance' = IF mine THEN [acceptance EXCEPT ![i] = NoRow] ELSE acceptance
     /\ member' = IF mine THEN [member EXCEPT ![i] = "absent"] ELSE member
     /\ Finish(w)
     /\ UNCHANGED <<now, status, window, joined, casbin>>

\* The process dies, or the next database call of the request fails: claim,
\* release and abort then leave the database as it was.
Crash(w) ==
  /\ pc[w] # "idle"
  /\ EnvironmentMisbehaves
  /\ Finish(w)
  /\ UNCHANGED <<now, database, casbin>>

\* An administrator ends the pair's active membership.
Kick(s) ==
  /\ ActiveMember(s)
  /\ joined' = [joined EXCEPT ![s] = FALSE]
  /\ member' = [i \in Invitations |->
                  IF SlotOf[i] = s /\ member[i] = "active" THEN "left" ELSE member[i]]
  /\ UNCHANGED <<now, status, window, acceptance, casbin, handler>>

\* ReviewApplication approves: inserts an active row of another id.
ApproveApplication(s) ==
  /\ ~CurrentMember(s)
  /\ joined' = [joined EXCEPT ![s] = TRUE]
  /\ UNCHANGED <<now, status, window, member, acceptance, casbin, handler>>

\* The steps of a request that the code itself takes, faults excluded.
Advance(w) ==
  \/ ClaimAcceptance(w) \/ ClaimRejected(w)
  \/ TakeSnapshot(w) \/ AddPolicy(w)
  \/ VerifyRoles(w) \/ VerifyFails(w)
  \/ CompleteAcceptance(w) \/ CompleteFails(w)
  \/ ReleaseAcceptance(w) \/ AbortAcceptance(w)

Fault(w) ==
  \/ SnapshotFails(w) \/ AddPolicyFails(w) \/ AddPolicyIgnored(w)
  \/ ContextDone(w) \/ Crash(w)

Next ==
  \/ Tick
  \/ \E i \in Invitations : Invite(i) \/ DeliverLate(i)
  \/ \E s \in Slots : Kick(s) \/ ApproveApplication(s)
  \/ \E w \in Workers : \/ \E i \in Invitations : BeginAccept(w, i)
                        \/ Advance(w)
                        \/ Fault(w)

Spec == Init /\ [][Next]_vars

(***************************************************************************)
(* Fairness.  Requests run to their end (the handler never waits for       *)
(* anybody: the database has a 5 s busy timeout and HTTP a 3 s timeout),   *)
(* the clock runs, and an invitee whose acceptance failed tries again.     *)
(* Faults are not fair: FaultHorizon makes them stop, early enough for     *)
(* the last abandoned lease to expire inside the modelled time.            *)
(***************************************************************************)
FairSpec ==
  /\ Spec
  /\ WF_vars(Tick)
  /\ \A w \in Workers : WF_vars(Advance(w))
  /\ \A i \in Invitations : SF_vars(\E w \in Workers : BeginAccept(w, i))

-----------------------------------------------------------------------------
(* What must hold. *)

\* A claim row and a provisioning membership stand and fall together, and only
\* while the invitation is pending: claim, complete and abort touch both tables
\* and no interleaving or crash separates them.
ClaimBacked ==
  \A i \in Invitations :
    /\ HasRow(i) <=> member[i] = "provisioning"
    /\ HasRow(i) => status[i] = "pending"

\* No Casbin edge names a membership the database does not know: an acceptance
\* is aborted (its membership deleted) only if neither this attempt nor any
\* earlier, crashed or superseded one can have reached Casdoor, not even by a
\* call that timed out and arrives later.
NoOrphanPolicies ==
  \A i \in Invitations : policies[i] \union late[i] # {} => member[i] # "absent"

\* An accepted invitation has its whole role bundle in Casbin, whichever of the
\* competing attempts added which edge.
AcceptedHasRoles ==
  \A i \in Invitations : status[i] = "accepted" => Required(i) \subseteq policies[i]

\* "The membership hard gate prevents privilege leakage" (README): edges of an
\* unfinished acceptance never meet an active membership of the same pair, so
\* an invited role is effective only once its invitation is accepted, also when
\* the pair may enter by an application or come back.
Effective(i) ==
  IF UserEdge \in policies[i] /\ ActiveMember(SlotOf[i]) THEN policies[i] \ {UserEdge} ELSE {}

NoEarlyAccess ==
  \A i \in Invitations : Effective(i) # {} => status[i] = "accepted"

\* Fencing: a request between its claim and its end has either still got the
\* claim or outlived the lease it asked for; nobody is superseded in time.
SupersededOnlyAfterLease ==
  \A w \in Workers :
    pc[w] \notin {"idle", "claim"} =>
      \/ acceptance[inv[w]].claim = claim[w]
      \/ now >= at[w] + Lease

\* A recovery ignores the validity window, so the window rests on the row:
\* whatever is being accepted was first claimed inside it.
StartedInWindow ==
  \A i \in Invitations :
    HasRow(i) => window[i].from <= acceptance[i].started /\ acceptance[i].started < window[i].until

\* The saga keeps the promise of one atomic acceptance: seen through the roles
\* that are effective, claiming, adding edges, failing, retrying and releasing
\* are invisible, and completing makes the whole bundle effective at once.
Promise == INSTANCE AcceptancePromise WITH
  present <- {s \in Slots : ActiveMember(s)},
  granted <- [i \in Invitations |-> Effective(i)]

AcceptanceIsAtomic == Promise!Spec

\* "compensates only policies created by that attempt if the transaction fails"
\* (README): when a failed attempt is over, what it created is gone.
FailedAttemptCompensated ==
  [][\A w \in Workers : ReleaseAcceptance(w) => sent[w] \intersect policies'[inv[w]] = {}]_vars

\* Nobody stays half provisioned: once an edge of a membership is in Casbin the
\* invitation is eventually accepted, by whichever attempt comes last, unless
\* the pair has an earlier accepted invitation (whose row blocks a second one).
PartialGrantConverges ==
  \A i \in Invitations :
    (/\ policies[i] # {}
     /\ \A j \in Invitations : SlotOf[j] = SlotOf[i] => status[j] # "accepted")
      ~> status[i] = "accepted"

-----------------------------------------------------------------------------
(* The inductive invariant: what the properties above rest on. *)

\* A request that holds a claim id, current or superseded.
Working(w) == pc[w] \notin {"idle", "claim"}
OwnsRow(w) == acceptance[inv[w]].claim = claim[w]

RequestState ==
  \A w \in Workers :
    /\ at[w] <= now
    /\ Working(w) <=> claim[w] # NoClaim
    /\ pc[w] \in {"idle", "claim", "snapshot", "abort"} => sent[w] = {}
    /\ pc[w] \in {"idle", "claim", "abort"} => ~recovery[w]
    /\ pc[w] = "complete" => Required(inv[w]) \subseteq policies[inv[w]]

ClaimsUnique ==
  /\ \A i, j \in Invitations : i # j /\ HasRow(i) => acceptance[i].claim # acceptance[j].claim
  /\ \A v, w \in Workers : v # w /\ Working(v) => claim[v] # claim[w]
  /\ \A w \in Workers, i \in Invitations :
       Working(w) /\ acceptance[i].claim = claim[w] => inv[w] = i

\* The owner knows whether it is the first attempt; everybody else working on
\* the invitation has been superseded by a recovery, or the invitation is over.
Ownership ==
  \A w \in Workers : Working(w) =>
    LET i == inv[w]
    IN /\ OwnsRow(w) => /\ recovery[w] <=> acceptance[i].attempts = AttemptCap
                        /\ acceptance[i].lease = at[w] + Lease
       /\ HasRow(i) /\ ~OwnsRow(w) => acceptance[i].attempts = AttemptCap
       /\ ~HasRow(i) => status[i] = "accepted"

\* Before the first attempt touches Casdoor there is nothing there to orphan.
FirstAttemptClean ==
  \A w \in Workers :
    Working(w) /\ OwnsRow(w) /\ ~recovery[w] /\ sent[w] = {}
      => policies[inv[w]] \union late[inv[w]] = {}

MemberMatchesStatus ==
  \A i \in Invitations : member[i] \in {"active", "left"} <=> status[i] = "accepted"

\* organization_members_one_current.
OneCurrentMember ==
  \A i \in Invitations : member[i] \in {"provisioning", "active"} =>
    /\ ~joined[SlotOf[i]]
    /\ \A j \in Invitations : j # i /\ SlotOf[j] = SlotOf[i] =>
                               member[j] \notin {"provisioning", "active"}

IInv ==
  /\ TypeOK /\ RequestState /\ ClaimsUnique /\ Ownership /\ FirstAttemptClean
  /\ MemberMatchesStatus /\ OneCurrentMember
  /\ ClaimBacked /\ NoOrphanPolicies /\ AcceptedHasRoles
  /\ SupersededOnlyAfterLease /\ StartedInWindow

=============================================================================
