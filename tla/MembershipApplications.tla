------------------------ MODULE MembershipApplications ------------------------
(***************************************************************************)
(* A user applies for membership of organizations and pays each            *)
(* application with quota of his own; reviewers approve or reject, while   *)
(* invitations make him a member behind their back.  Apply asks three      *)
(* questions, each in a read of its own, and then acts in a transaction    *)
(* that repeats none of them: what still holds then is left to the unique  *)
(* indexes.                                                                *)
(*                                                                         *)
(* An application id is 16 random bytes, so an id is also its request, and *)
(* the quota engine's operation.  The quota tables are the user's.         *)
(***************************************************************************)
EXTENDS QuotaTables

CONSTANTS
  Organizations,
  NoOrganization

ASSUME ApplicationsAssumption == Grants = {} /\ NoOrganization \notin Organizations

VARIABLES
  application,  \* status of the row, "none" before the insert
  of,           \* its organization
  membership,   \* the organization_members row "application:"||id
  invited,      \* the current row of each organization that an invitation made
  pc,           \* how far the Apply request of each id is
  audit,        \* rows of audit_events for the id
  db            \* the quota tables

vars == <<application, of, membership, invited, pc, audit, db>>

RowsTypeOK ==
  /\ application \in [Ops -> {"none", "pending", "approved", "rejected"}]
  /\ of \in [Ops -> Organizations \union {NoOrganization}]
  /\ membership \in [Ops -> {"absent", "active", "left"}]
  /\ invited \in [Organizations -> {"none", "provisioning", "active"}]
  /\ pc \in [Ops -> {"new", "authorized", "not_member", "not_pending", "over"}]
  /\ audit \in [Ops -> 0 .. 1]

TypeOK == RowsTypeOK /\ db \in Tables

Init ==
  /\ application = [op \in Ops |-> "none"]
  /\ of = [op \in Ops |-> NoOrganization]
  /\ membership = [op \in Ops |-> "absent"]
  /\ invited = [o \in Organizations |-> "none"]
  /\ pc = [op \in Ops |-> "new"]
  /\ audit = [op \in Ops |-> 0]
  /\ db = EmptyTables

-----------------------------------------------------------------------------
(* The queries and indexes. *)

\* IsActiveMember
ActiveMember(o) ==
  invited[o] = "active" \/ \E op \in Ops : of[op] = o /\ membership[op] = "active"

\* organization_members_one_current
CurrentMember(o) == ActiveMember(o) \/ invited[o] = "provisioning"

HasPending(o) == \E op \in Ops : of[op] = o /\ application[op] = "pending"

\* uq_pending_membership_application
IndexAdmits(o) == ~HasPending(o)

-----------------------------------------------------------------------------
(* Apply. *)

Step(op, from, to) == pc[op] = from /\ pc' = [pc EXCEPT ![op] = to]

Authorize(op, o) ==
  /\ Step(op, "new", "authorized")
  /\ QuotaAvailable(db, 1)
  /\ of' = [of EXCEPT ![op] = o]
  /\ UNCHANGED <<application, membership, invited, audit, db>>

CheckMember(op) ==
  /\ Step(op, "authorized", "not_member")
  /\ ~ActiveMember(of[op])
  /\ UNCHANGED <<application, of, membership, invited, audit, db>>

CheckPending(op) ==
  /\ Step(op, "not_member", "not_pending")
  /\ ~HasPending(of[op])
  /\ UNCHANGED <<application, of, membership, invited, audit, db>>

\* Mutant of CreateApplication: a refused insert does not take the quota back.
CreateWithoutRollback(op) ==
  /\ Step(op, "not_pending", "over")
  /\ db' \in ConsumeQuotas(db, op, {}, 1)
  /\ application' = [application EXCEPT ![op] = IF IndexAdmits(of[op]) THEN "pending" ELSE @]
  /\ UNCHANGED <<of, membership, invited, audit>>

CreateApplication(op) ==
  /\ Step(op, "not_pending", "over")
  /\ IndexAdmits(of[op])
  /\ db' \in ConsumeQuotas(db, op, {}, 1)
  /\ application' = [application EXCEPT ![op] = "pending"]
  /\ UNCHANGED <<of, membership, invited, audit>>

\* A question is answered no, the transaction rolls back, the process dies.
ApplyEnds(op) ==
  /\ pc[op] \in {"authorized", "not_member", "not_pending"}
  /\ pc' = [pc EXCEPT ![op] = "over"]
  /\ UNCHANGED <<application, of, membership, invited, audit, db>>

-----------------------------------------------------------------------------
(* Review. *)

Review(op, status) ==
  /\ application' = [application EXCEPT ![op] = status]
  /\ audit' = [audit EXCEPT ![op] = @ + 1]
  /\ UNCHANGED <<of, invited, pc, db>>

\* Mutant of Reviewable: any row will do.
ReviewableAlways(op) == application[op] # "none"

Reviewable(op) == application[op] = "pending"

\* Rolls back when the index finds a current member, provisioning included.
Approve(op) ==
  /\ Reviewable(op)
  /\ ~CurrentMember(of[op])
  /\ membership' = [membership EXCEPT ![op] = "active"]
  /\ Review(op, "approved")

Reject(op) ==
  /\ Reviewable(op)
  /\ Review(op, "rejected")
  /\ UNCHANGED membership

-----------------------------------------------------------------------------
(* Meanwhile. *)

\* The acceptance of an invitation: claimed, completed, aborted.
ClaimInvitation(o) ==
  /\ ~CurrentMember(o)
  /\ invited' = [invited EXCEPT ![o] = "provisioning"]
  /\ UNCHANGED <<application, of, membership, pc, audit, db>>

EndClaim(o) ==
  /\ invited[o] = "provisioning"
  /\ \E s \in {"active", "none"} : invited' = [invited EXCEPT ![o] = s]
  /\ UNCHANGED <<application, of, membership, pc, audit, db>>

\* Somebody ends the membership (no code of the program does).
Kick(o) ==
  /\ ActiveMember(o)
  /\ invited' = [invited EXCEPT ![o] = "none"]
  /\ membership' = [op \in Ops |-> IF of[op] = o /\ membership[op] = "active" THEN "left" ELSE membership[op]]
  /\ UNCHANGED <<application, of, pc, audit, db>>

Next ==
  \/ \E op \in Ops :
       \/ \E o \in Organizations : Authorize(op, o)
       \/ CheckMember(op)
       \/ CheckPending(op)
       \/ CreateApplication(op)
       \/ ApplyEnds(op)
       \/ Approve(op)
       \/ Reject(op)
  \/ \E o \in Organizations : ClaimInvitation(o) \/ EndClaim(o) \/ Kick(o)

Spec == Init /\ [][Next]_vars

-----------------------------------------------------------------------------
(* What must hold. *)

\* One unit of quota for each application that exists, and none for a request
\* that lost a race for the index after the quota was taken.
ApplicationsPaid ==
  Total(db.used, Entitlements) = Cardinality({op \in Ops : application[op] # "none"})

\* Two requests may both find no pending application; only one gets one.
OnePending ==
  \A p, q \in Ops :
    application[p] = "pending" /\ application[q] = "pending" /\ of[p] = of[q] => p = q

\* A review is final, and tells the truth: approved applications, and no other,
\* have a membership row, and each reviewed one has one audit row.  No approval
\* makes a second current membership, beside another's or an invitation's, even
\* one that is only claimed.
ReviewIsFinal ==
  \A op \in Ops :
    /\ application[op] = "approved" <=> membership[op] # "absent"
    /\ audit[op] = IF application[op] \in {"approved", "rejected"} THEN 1 ELSE 0
    /\ membership[op] = "active" =>
         /\ invited[of[op]] = "none"
         /\ \A p \in Ops : membership[p] = "active" /\ of[p] = of[op] => p = op

================================================================================
