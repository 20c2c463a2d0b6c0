# A TLA+ verification project for the authorization service

The program is a Go service (Gin, SQLite, Casdoor/Casbin) that decides who may
do what in which organization: roles live in Casdoor, everything else
(memberships, invitations, plans, features, quotas, external grants, invoices)
in one SQLite file. This directory holds TLA+ modules translated from the code,
the TLC configurations that check them on small instances, and TLAPS proofs.

Run a check with `tlc -config X.cfg MCModule`, a proof with `tlapm Module.tla`.
`PROJECT.json` maps every definition to the lines it models.

## Inventory

State is in SQLite unless said otherwise. `sqlite.Open` allows one connection,
so within a process transactions never interleave; another process may share
the file, and then SQLite's write lock serializes them. Every repository method
is one transaction that rolls back on any error. What is not atomic is a
*request*: several transactions, and calls to Casdoor (HTTP, 3 s timeout)
between them.

| Component | State | Operations | What is hard | What makes it correct |
|---|---|---|---|---|
| Invitation acceptance (`membership/application/invitation.go`, `membership/infra/invitation_repository.go`, `security/infra/casdoor.go`) | `organization_invitations_v2`, `invitation_acceptances_v2` (claim, lease, attempts), `organization_members`; g policies in Casdoor | Invite, Accept = claim, synchronise roles, complete / release / abort | a saga over two stores: crashes, late and lost calls, leases, superseded owners | no edges without a membership, whole bundle or nothing, nobody half provisioned for ever |
| Membership applications (`membership/application/service.go`, `membership/infra/repository.go`) | `organization_membership_applications`, `organization_members` | Apply (consumes quota), Review | checks outside the transaction; competes with invitations for the current-membership index | one pending application, one current membership |
| Quota engine (`shared/quota/quota.go`) | `quota_*`, reservations, ledger, external allocations | consume, reserve, commit, release, expire | several counters move together; external capacity is reserved from an owner's allocation | used + reserved never exceeds the limit, ledger matches counters |
| External grants (`security/application/external_grants.go`, `security/infra/external_grant_store.go`, `external_access.go`) | `external_grants_v2` and its items and allocations | create, list, revoke; resolve access | who issues is asked about first and writes last; owner's quota is lent, returned on revocation, while requests run | managed by members, within the owner's means; returned capacity is exactly what was unused |
| Authorization engine (`security/application/hard.go`, `authorizer.go`, `endpoint.go`) | none; reads SQLite and Casdoor | Authorize: hard gate, permission, feature, quota, behaviours | decision and use are separate transactions; deny must win | no allow without every gate |
| Invoice approval (`invoice/application/approve.go`, `invoice/infra/repository.go`) | `invoices`, idempotency replays, audit | Approve | retries of the same key, concurrent approvals, quota in the same transaction | one effect per key, quota consumed iff approved |
| Entitlement lifecycle (`entitlement/...`) | subscriptions, materialized features and quotas, overrides | apply, renew, cancel, override | materialization is repeated over existing rows | materialized state follows the current plan |
| Identity snapshot (`identity/...`) | none | who-am-I: policy origins, facts, quota periods, the bundles of grants | graph reachability; rows merged in any order by code of its own | shows what the authorization engine decides |
| Startup (`shared/app/migrate.go`, `app.go`, `database/sqlite/sqlite.go`) | `schema_migrations` and the schema; the port; running requests | open, migrate, listen, serve, shut down | processes that race, and die anywhere; the check outside the transaction | the history tells the schema, somebody serves |
| Authentication, audit middleware, configuration | none that is read again | | | |

Components call each other directly, inside one process. Those that share
state without calling each other are the invitation saga and the applications
(the unique index `organization_members_one_current`), the memberships and the
issuing of grants, and the quota engine and the external grants (the allocation
tables).

## Plan

In order; each module is followed by its MC module and configurations.

1. `InvitationAcceptance`, refining `AcceptancePromise`; proofs. **Done.**
2. `QuotaTables`, the quota transactions as operators, and `GrantQuota`: an
   owner's quota lent to grants, requests that decide first and consume later,
   revocation in between. **Done.**
3. `QuotaReservations`: the reservation engine with its ledger, over the same
   tables. **Done.**
4. `InvoiceApproval`, over the same tables, refining `ApprovalPromise`: replays,
   versions, quota; proofs. **Done.**
5. `MembershipApplications`: apply and review, over the same tables, against 1's
   index; proofs. **Done.**
6. `Entitlements`: plans materialized into rows that others use. **Done.**
7. `Authorization`: one request through the hard gate and the decision, external
   access with targets and validity; proofs. **Done**; the behaviours of the one endpoint
   that has any are in `InvoiceApproval`.
8. `PolicyReachability`, the loops that follow Casbin's rules, and on top of it
   `IdentitySnapshot`, the merging of everything else; proofs. **Done.**
9. `Startup`: migrations and the server's life; proofs. **Done.**
10. `GrantIssuing`, over 5: who issues and revokes grants, and what they may
   give; proofs. **Done.**

Every safety and action property that a passing run checks, and both
refinements, are also proved for all values of the constants. What a theorem
states about each component, and the invariant it rests on, is under "Proofs" in
the component's section; what stays with TLC is at the end.

| Proof module | Components |
|---|---|
| `AcceptanceAndApprovalProofs` | the two that implement an abstract promise: `InvitationAcceptance`, `InvoiceApproval` |
| `TotalsProofs`, `QuotaTablesProofs`, `QuotaProofs` | sums; the quota transactions; `GrantQuota` and `QuotaReservations` |
| `GrantIssuingProofs` | `MembershipApplications`, `GrantIssuing` |
| `AuthorizationProofs` | `Authorization` |
| `IdentitySnapshotProofs` | `PolicyReachability`, `IdentitySnapshot` |
| `StartupAndEntitlementsProofs` | `Startup`, `Entitlements` |

Two components of one proof module share constants, variables and lemmas or
have different names for theirs (`SubjectSpec`, `StoreSpec`, `ApprovalSpec`).

The modules share state as the code does: 2 to 5 are compositions over
`QuotaTables`, whose operators are the transactions the components call, and 10
is one over 5.

## InvitationAcceptance

### State and actions

Variables are table columns (`status`, `window`, `member`, `acceptance`), the g
edges Casdoor holds (`policies`) and may still receive (`late`), and the local
variables of each running `Accept`: the claim id, `Recovery`, the time the
handler read, the rules still missing (`todo`) and those it called `AddPolicy`
for (`sent`; `ExternalMutationPossible` is `sent # {}`). `joined` stands for an
active membership that came from elsewhere.

One action is one transaction or one HTTP call:

| Code | Actions |
|---|---|
| `CreateInvitation` | `Invite` |
| `Handler.AcceptInvitation` reads the clock | `BeginAccept` |
| `ClaimAcceptance` (insert or take over, membership row, roles) | `ClaimAcceptance`, `ClaimRejected` |
| `EnsureMembershipRoles`: validation and first snapshot | `TakeSnapshot`, `SnapshotFails` |
| ... each `AddPolicy`, in the code's order (user edge last) | `AddPolicy`, `AddPolicyFails`, `AddPolicyIgnored`, `ContextDone`, `DeliverLate` |
| ... verifying snapshot | `VerifyRoles`, `VerifyFails` |
| `CompleteAcceptance` | `CompleteAcceptance`, `CompleteFails` |
| `ReleaseAcceptance`, `AbortAcceptance` | the same names; a lost claim updates nothing |
| process death, database error | `Crash` |
| `ReviewApplication`, the end of a membership | `ApproveApplication`, `Kick` |

Abstractions. Time has the one-second grain of the stored RFC 3339 strings. Role
ids are model values. `attempt_count` saturates at 2, for the code only asks
whether it is above 1. Claim ids are drawn from the unused ones (16 random
bytes). The role edges are added in any order: the program fixes one, no
property depends on it. A role deleted from Casdoor is one of the reasons of
`SnapshotFails`. Losing a policy that was there is not modelled: no code
removes one.

### Runs

| Run | Question | Bounds |
|---|---|---|
| `acceptance_live` | do the two stores ever contradict each other, and does a half-done acceptance end | 1 invitation, 1 role and the user edge, 2 requests, 3 claim ids, lease 1, window 1, clock to 2: enough for a claim, its expiry, a take-over by the other request outside the window, and the return of the first; faults until instant 1 |
| `acceptance_reinvite` | is acceptance one atomic event; does the validity window hold, and the hard gate | 2 invitations of one pair, 1 role and the user edge, 2 requests, 3 claim ids, clock to 1, kicks and applications at any time |
| `acceptance_compensation` | does a failed attempt take its policies back, as the README of the repository says | 2 invitations of one pair, 1 request, no faults: **violated** |

Requests and claim ids are symmetric in `acceptance_reinvite` (nothing compares
or orders them); the liveness run uses no symmetry. A bundle of two edges can be
there in part; more roles repeat that case, and the theorems have any bundle. Deadlock is not checked: the
clock and the claim ids are bounded and a finished system may stop.

Two requests are enough for what the code can get wrong: a claim has one owner,
and every superseded request behaves like any other one.

### Fairness

`FairSpec` lets the clock run, lets every request advance (no step waits for
another: every call has a timeout), and lets the invitee try again infinitely
often (strong fairness of `BeginAccept`, for a retry is not always possible
while requests run). Faults are not fair and stop at `FaultHorizon`.
`PartialGrantConverges` excludes a pair with an earlier accepted invitation,
which is exactly the counterexample of `acceptance_compensation`.

### Finding

README.md:86 says that acceptance "compensates only policies created by that
attempt if the transaction fails". The code never removes a policy: it releases
the claim and relies on a later recovery. Where no recovery can succeed, the
edges and the provisioning membership stay: a user accepted once, kicked and
invited again can never be accepted, since
`UNIQUE(organization_id,user_id,status)` allows one accepted row per pair. The
edges are harmless by themselves (`NoEarlyAccess`).

### Proofs

The second part of `AcceptanceAndApprovalProofs` proves, for every value of the
constants, type correctness, `Spec => []IInv`, and from it every safety property of the runs:
`ClaimsAreBacked`, `WindowKept`, `PoliciesNeverOrphaned`, `AcceptanceGivesRoles`,
`LeaseFences` and `HardGate`. `IInv` adds to them what they rest on:

* `RequestState`, `ClaimsUnique`: a claim id names one row and one request;
* `Ownership`: the owner of the row knows whether it is the first attempt, and
  once somebody was superseded the attempt count says so;
* `FirstAttemptClean`: an owner that is the first attempt and has sent nothing
  left nothing in Casdoor. Without it, `NoOrphanPolicies` is not inductive: an
  abort deletes a membership and only this tells that nothing names it;
* `MemberMatchesStatus`, `OneCurrentMember`: with them the hard gate follows.

Requests that leave both stores alone are proved by one lemma (`LocalStep`), and
those that reach Casdoor by another (`CasdoorStep`); each writing action has its
own. The assumption used is `ConstantsAssumption`, which TLC evaluates in every
run.

`AcceptanceRefines` proves `Spec => AcceptanceIsAtomic`: the saga implements
`AcceptancePromise`, an event per acceptance, seen through the roles that are
effective. It needs one more invariant (`InvitedEdges`: nothing is in Casdoor or
under way for an invitation that was never made), and two facts: only
`CompleteAcceptance` changes what is effective for an invited user, and by then
the bundle is there. Liveness is only model-checked.

## QuotaTables

The tables of one owner and one quota key as a record, and the transactions of
`shared/quota` and of `external_grant_store.go` as operators from tables to the
*set* of tables they may commit. An empty set is a rollback. Transactions
compose as the Go functions do: `ConsumeQuotas` is `ReserveQuotas`, then
`CommitQuotas`; creating a grant is two allocations. A condition of an UPDATE
whose row count is checked empties the set, one whose count is not checked
leaves the row alone (`Moves` in `Withdraw` and `CommitExternal`).

The loops that drain rows are not unrolled: `Spreads` says what they end with, a
row is drained before a later one is touched. Abstractions:

* one owner, one key, one cost per operation, for `Engine.decide` issues no more;
* the order of the rows (by period end) and of their ids are constants, since
  the engine drains the first and the grants' allocations follow the second;
* grants are numbered by their ids, which is the order decisions list them in;
* `open` and `denied` stand for the period tests of the queries;
* two allocation rows of one grant and entitlement (a plan's rule and an
  explicit item) are hit by the same UPDATE when both have room: a reservation
  then rolls back, which `LentSpreads` keeps, and a commit or a release moves
  both, which `CommitExternal` and `ReleaseQuotas` keep. A grant has at most one plan
  with a rule of the key here; the rows of two plans would behave like this pair.

A plan's rule or an explicit item without a limit, which allocates nothing to a
grant, is an amount of 0. The ledger keeps amounts by kind; times and actors are left out.

### Proofs

`TotalsProofs` and `QuotaTablesProofs` have no theorem of a specification: they
prove what sums add up to and what each transaction does to *any* tables, as
lemmas that the proofs of `GrantQuota`, `QuotaReservations`, `GrantIssuing` and
`InvoiceApproval` cite; those of `IdentitySnapshot` cite the sums.

* Sums (`TotalsProofs`). `Total` is a fold, which is a recursive function on sets.
  `SubsetInduction` is induction over the subsets of a finite set, stated with a
  *set* for the predicate (a lemma with an operator parameter could not be used).
  From it: a sum depends on the values only (`TotalSame`), changes with one
  summand (`TotalExcept`), adds (`TotalAdd`), and can be grouped (`TotalByClass`).
  Over the allocations it is the sum over the grants (`TotalOfAllocations`).
* Spreads. A list of parts that `Spreads` or `LentSpreads` allows adds up to the
  cost and exceeds no row (`OwnSpreadFits`, `LentSpreadFits`). There is one
  whenever the rows, in an order that is total (`Ordered`), have enough
  (`SpreadExists`): a least cost without one cannot be, for a unit more goes to
  the first row with room. What a spread takes is what is due of each owner's row
  (`DueOfReserved`).
* Effects. `CreateEffect`, `RevokeEffect`, `ConsumeOwnEffect` and
  `ConsumeLentEffect` say of each table what a committed transaction left in it.
  The last two are about tables `AtRest`, without running reservations, as they
  are between any two steps of a program that only calls `ConsumeQuotas`.

They rest on `TablesAssumption`: rows, grants and operations are finite sets,
rows without a limit are drained last.

## GrantQuota

| Code | Actions |
|---|---|
| `CreateExternalGrant`, `RevokeExternalGrant` | `Create`, `Revoke` |
| the middleware's decision, on own quota or on grants | `AuthorizeMember`, `AuthorizeStranger` |
| the handler's transaction | `Consume`, or `GiveUp` (and retry) |
| a period ends, a deny row begins | `PeriodEnds`, `DenyTakesEffect` |

A decision waits in `decision` for its transaction: everything else may happen
in between. Which grants match a request (target, validity, permissions) is any
set of active ones. The service's `QuotaAvailable` before it creates a grant is
a read whose answer may be stale, so nothing is assumed of it.

| Run | Question | Bounds |
|---|---|---|
| `quota_lent` | is anything oversold, unpaid or paid twice, whatever overlaps; as long as no decision on a grant outlives it (`overtaken`, a history variable), is what is lent exactly backed, do the engine's answers agree with the transactions | 2 rows (limit 2, unlimited) with ids in the other order, 2 grants with an explicit item, both sources, or a plan's rule and a deny item, 2 operations of cost 1 or 2 |
| `quota_stale` | is what is lent returned without that restriction | 1 row, 2 grants, 1 operation: **violated** |

Two rows are needed for a spread, two grants for one to take what was reserved
for the other, costs up to 2 for a part. Deadlock is not checked: grants and
operation ids are used up.

### Proofs

The first part of `QuotaProofs` proves `TypesHold`, `LimitsAreRespected`,
`UsageIsAccounted`, `ReservationIsBacked`, `ConsumptionIsWhole` and
`AnswersAreUsable` for any rows, limits, grants, bundles, operations and costs. The inductive invariant `QuotaInv` is these
properties (`Books`) and what they rest on:

* `Rows`: the tables are at rest, so no step finds another one's reservation;
* `FreshIds`: an operation that is not in the ledger has committed nothing, so
  that consuming adds to the sum of the operations and replaces nothing in it;
* `UnusedIds`: an operation that waits for its transaction has no entry in the
  ledger and no reservation on a grant, which would make it be refused;
* `FreshGrants`: a grant not yet created has no allocation and no use;
* `DecisionsStand`: until something is `overtaken`, every decision's grants are
  active. This is what `OwnerReservationBacked` needs: consuming from a revoked
  grant would take from the owner's row what an active one has left.

`AnswersAreUsable` is about what a transaction *can* do: what `QuotaAvailable`
and `ExternalQuota` find in sums over the rows, the loops find row by row
(`AvailableIsSpread`, `LentAvailableIsSpread`), and the reservation so made can be
committed, for the owner's row has reserved what the grant lends
(`LentAvailableIsConsumed`).

Types are no formality here: `used`, `reserved` and the allocations are
subtracted from, and that they stay natural numbers is that no `UPDATE` gives
back more than there is (the `CHECK`s of the schema).

### Finding

README.md:84 says that a grant's quota is "returned when unused capacity is
revoked". `reserveExternalCost` and `commitExternal` never read the grant's
status. A request allowed on a grant before its revocation consumes after it;
the owner's row pays from what it has reserved for *another* grant, and that one
can then not be revoked: the owner's row has less reserved than it should get
back. Nothing is oversold by it (`quota_lent`).

## QuotaReservations

The engine's API as its tests use it; the program itself only calls
`ConsumeQuotas`. The tables are `store`. `Reserve`, `Commit`, `Release` and
`ExpireReservations` are the functions, `Lend` and `TakeBack` create and revoke
grants, which hold one of the `Offers`. Reserving again with a used id, and
settling what is settled, are in the model.

* `Reserve` takes any grants, as `reserveExternalCost` does: they come from a
  decision and may have been revoked since. What is reserved on a grant that is
  no longer active is kept in `late`, a history variable.
* Nothing but the sweep reads `expires_at`, so an operation may be committed when
  it is overdue, and `ExpireReservations` finds any set of those that hold
  something of their own. A grant's reservation never expires in the code, nor
  in the model: `ExpireOne` leaves it.
* A grant may lend a row of the owner twice, from its plan's rule and from an
  explicit item.

Two things go wrong with a row here, and the properties say that they do not
spread. The second needs reservations that run beside each other, which a
program that only calls `ConsumeQuotas` never has.

* *A late reservation is committed.* The owner's row gave the grant's part back
  when the grant was revoked. If other reservations are still in it, the commit
  takes theirs (the finding of `GrantQuota`); if none is, it is refused.
* *A grant has the row twice.* The statements that move a grant's counters name
  the entitlement and not the source. A commit moves its amount in each of the
  two rows that has it reserved, and nobody looks at how many those were, so
  the grant's rows no longer add up to what operations hold and have used, and
  the next commit may find less there than it reserved; it then moves the owner's
  row only, and what the grant has reserved stays so for ever.

`SoleSource` and `Undisturbed` name the rows to which neither happened. Of those
`ReservationsBacked` and the second half of `LedgerBalanced` speak, and
`ReservationsHonoured` of operations that hold only such rows and nothing late.
A grant's own counters are explained even when its reservations are late, and
the ledger's entries and `SettledForEver` hold without exception.

Run `quota_reservations`: 2 limited rows, 1 grant of either one explicit item or
an item and a plan's rule, 3 operations with costs up to 2. Two rows are what it
takes for a loss in one to leave the other alone; three operations for one that
commits late, one whose reservation it takes, and one to which nothing happens. It
relates three records of the same facts, the counters of both sides, the
reservation rows and the ledger; and it shows that a reservation is a promise
(`ReservationsHonoured`) and a settlement final (`SettledForEver`). Reservations
on several grants at once are beyond a run of some minutes; the theorems have
any number of them, and `quota_lent` has two grants.

### Proofs

The second part of `QuotaProofs` proves `StoreTypesHold`, `ReservationsAreBacked`,
`LedgerIsBalanced`, `ReservationsAreHonoured` and `SettledStaysSettled` for any
rows, grants, offers, operations and costs. The assumptions are
`TablesAssumption` and that offers are records of amounts. No table is at rest
here, so the invariant `StoreInv` says of the tables (`Sound`) what every
transaction leaves true while any number of reservations run:

* `HeldAndLent`: what an undisturbed row of the owner has reserved is what
  operations hold of it and what active grants have left of it;
* `HeldOfGrants`: what a grant's rows have reserved, where it has quota of the
  owner's row from one source, is what operations hold of it;
* `HeldOfActive`: what was not reserved late keeps its grant active, because
  revocation is refused while something is reserved. Such a reservation has its
  part in the owner's row, which a revoked grant's has not;
* `Told`: the ledger's entries follow the status of the operation, so that a
  second settlement of any kind finds nothing to do;
* `UsedIsCommitted`: what an undisturbed row has used is what operations
  committed, and what grants used is in the owner's row as well;
* `InBounds`: no grant's row exceeds what is allocated to it.

A row can become disturbed and never undisturbed (`UndisturbedBefore`): sources
are fixed when a grant is created, and a commit is final. So each step has to
show its part for rows that were undisturbed before it, too. A commit and the
two ways to withdraw are each one lemma about any sound tables;
`ExpireReservations` repeats one of them over a set, by `SubsetInduction`
(`Sweeps`). A promise is kept because what `Sound` says of an operation is what
its commit asks for (`CommitSucceeds`).

## InvoiceApproval

| Code | Actions |
|---|---|
| the middleware | `Authorize`: a unit of quota, from the organization or the actor's grants |
| `ApproveService.execute` finds the key | `Replay` |
| ... decides | `ManualReview`, `Approve` |
| ... fails anywhere, or the process dies | `RollBack` |
| the grants' managers | `CreateGrant`, `RevokeGrant` |

The handler is one transaction, so one action; the decision before it is
another. The order of the checks does not matter to a transaction that commits.
`request_hash` is the pair it is computed from. A key belongs to one actor, as
in the table's key. `answers` is a history variable: the 200 answers ever given.

`ApprovalPromise` is the abstract specification: one event decides an invoice,
charges the quota unless a person must review it, and fixes the key's answer.
`ApprovalIsAtomic` is the refinement.

Run `invoice_approval`: an invoice anybody may approve, one assigned to the
stranger, one below the limit for automatic approval; two actors with three keys;
two requests at a time; two units of quota, two grants. Deadlock is not checked:
quota and grants are used up. Three keys let one be repeated, one be used for
something else and one compete; the quota is short of the demand by one.

### Proofs

The first part of `AcceptanceAndApprovalProofs` proves everything that the run
checks, for all constants.
`AnswersStayTrue`: only a decision changes an invoice, only a pending one, and an
answer is never about a pending one; the quota tables are not looked at.
`EffectsComeTogether`: the invariant `EffectsInv` adds that a pending invoice has
left no trace and a decided one of each kind one, and that the quota used is the
number of approvals; `ConsumeTotal` of `QuotaTablesProofs` is the step of the
sum. `ApprovalRefines`: a decision is the abstract event, with its charge, and
all else leaves what the mapping shows alone; replays change nothing at all. The
assumptions are `ApprovalAssumption`, `TablesAssumption` and that the missing
record is no record (`RecordAssumption`).

## MembershipApplications

One user, any number of applications. `Apply` asks three questions in three
reads (`Authorize`, `CheckMember`, `CheckPending`) and then acts in a
transaction that repeats none (`CreateApplication`); `ApplyEnds` is every
failure. `Approve` and `Reject` are the two outcomes of `ReviewApplication`.
`ClaimInvitation` and `EndClaim` are what module 1 does to the membership table,
`Kick` ends a membership from outside the program. The quota tables are the
user's, without grants: the route is not one that grants cover.

Its actions run inside `grant_issuing` (see below), with 2 applications, 2
organizations and 2 units of quota: enough for two requests that both find
nothing pending, and for an approval that finds the user invited or a member,
which `ReviewIsFinal` says never makes him one twice. That an
organization has at most one pending application is the theorem
`AtMostOnePending`, in no run of its own.

### Proofs

The first part of `GrantIssuingProofs` proves `AtMostOnePending`,
`ReviewsAreFinal` and `ApplicationsArePaid` for any organizations and requests.
None is inductive alone: the invariant adds `RowsAreMadeLast` (an id has no row
before its request is over, and an organization before), without which
`Authorize` could move a pending application to another organization, and for
the sum that the quota tables are at rest. `ApplicationsPaid` rests on `TablesAssumption` and
`ApplicationsAssumption` (no grants), the other two on none.

## Entitlements

The manager's commands over the tables of one subject; the application wires no
route to them, its test calls them. Each is one transaction whose refusals
(primary key, `UNIQUE(subject_type,subject_id)`, CHECK, foreign key) are guards.
Operations and grants use the rows at any time, one unit each: this is the
quota engine's and the grants' effect on a row, and not their whole, which
`QuotaTables` has.

Left out: validity dates (they do not decide what a command writes), unlimited
rows, plan rules that change (no code changes them), and other subjects: the
upsert of a subscription (`repository.go:20`) looks at its id and not at whose it
is, so a command that names another subject's subscription id would change that
one's row, and nothing is said of this.

Run `entitlements`: 2 subscription ids of one subject, a plan with a feature and
one without (only that one can be renewed), 2 periods, 2 operations, 1 grant,
overrides to 0 or 1. Two ids are needed for the index, two periods for a renewal
over old rows.

Three behaviours that the model keeps and nothing in the repository calls wrong:
a plan with features can never be renewed, since renewal inserts the features
again; once an unused allocation names a plan's row, every plan change is
refused by the foreign key; a cancelled plan leaves its features in force.

### Proofs

The second part of `StartupAndEntitlementsProofs` proves `SubjectTypesHold`,
`FeaturesFollow`, `QuotasFollow`, `UsageKept` and `HoldersKeep` for any plans,
rules, periods, operations and grants. The invariant `SubjectInv` is the types,
`FeaturesFollowPlan`, `QuotasFollowPlan` and

* `Counted`: the counters of a row are the numbers of operations and grants that
  use or hold it (`UsageIsNotForgotten` says it of the rows and of those that are
  gone);
* `LedgerKeepsIds`: an operation that names a row is in the ledger. Without it an
  operation could reserve again, its first reservation would be written over,
  and the row would count what nobody holds.

A row that is cleared counts nothing, so nobody holds it (`Counted`), so the
cascade ends no reservation: this is `HoldersKeep`. `QuotasFollow` rests on the
types: only an override changes a limit, and a manual row is no plan's. The
assumption is `EntitlementsAssumption`; that operations and grants are finite is
needed to count them.

## GrantIssuing

The user of `MembershipApplications`, while he is a member, manages grants.
`ExternalGrantService` puts its questions one after the other, and the store
writes in a transaction that repeats few of them.

| Code | Actions |
|---|---|
| the handlers, `validateExternalGrant` | `AskToIssue`, `AskToRevoke` (a grant id comes from the path: it may be anybody's) |
| `IsMember`, `Enforce`, `ValidateRoles` and `ValidateGroups`, `HasFeature`, `HasPlan`, `QuotaAvailable`, in this order | `AnswerYes`, `AnswerNo` |
| `CreateExternalGrant`, with `insertPlanItems` | `CreateGrant` |
| `RevokeExternalGrant` | `RevokeGrant` |
| an error, the end of the process | `RequestEnds` |
| Casdoor's administrators, the end of a plan, usage | `OwnershipChanges` |

Abstractions. An item is a key with a kind; how much quota it lends is
`GrantQuota`'s matter and whom a grant serves `Authorization`'s; a quota item
without a limit is not asked about and lends nothing, and is left out. Roles are held
against one snapshot of Casdoor, so their questions are one, and so are those of
groups. Items of one kind are asked about in any order, as their order in the
request is anybody's choice. A grant's id is made for its request (16 random
bytes), so the request's name stands for it.

`seen` is a history variable: the questions whose answer was yes at some moment
of the request. `ManagedByMembers` and `WithinMeans` say of what is *written*
that it was right at such moments, one moment for each question. They could not
say more: `MCGrantIssuing` lets the manager be kicked, and the items go, between
a question and the transaction.

Run `grant_issuing`: two requests, one grant issued (so the other request
revokes, or is refused), three bundles that have an item of each kind, allowed
and denied, a plan with rules among them, and the one permission that is never
lent; organization `one` may lend the plan and loses or gains one item once.
`MaxIssues`, `MaxChanges` and `Changing` are the bounds; the theorems have none.
A user who may apply or be invited again is never done, so deadlock is checked.

### Proofs

`GrantIssuingProofs` proves `ManagersAreMembers`, `GrantsWithinMeans` and, for
the composition, `IssuingKeepsReviews` (what is proved of applications holds of it). The inductive invariant `IssueInv` says
that an answer once given is a moment of the request (what is due and no longer
left is in `seen`), that a request is done only when nothing is left, and that a
grant's content is what its request asked for. The assumption is
`IssuingAssumption`. Applications and memberships enter only through
`ActiveMember`.

## Authorization

One request at a time: requests share nothing that they write, and what others
change is a separate action. One action is one question:

| Code | Actions |
|---|---|
| `EndpointResolver.Resolve` and the loader | `Begin` |
| `HardEngine.membershipAllowed` | `CheckMember` |
| `ResolveExternalAccess` | `ResolveExternal` |
| `resourceAllowed`, `assuranceAllowed`, `evaluateTenant` | `PassGate` |
| `permissionAllowed`, `featureAllowed`, `quotaAllowed` | `AskPermission`, `AskFeature`, `AskQuota` |
| an error of any of them | `Fail` |
| invitations, applications, the end of a membership | `Claim`, `Activate`, `AbortClaim`, `Kick` |
| the grants' managers, the clock | `CreateExternalGrant`, `RevokeExternalGrant`, `Tick` |

Abstractions. What Casdoor, the subject's features and its counters answer is
any value at each question. "manage" stands for the strictly isolated endpoints
of an organization (review, invite, grants), "apply" for those of a user, with
the union of what they ask for. A grant's items never change after its creation,
as in the code, and those of other operations or keys are left out. The age of
the second factor is one flag. The cost is 1, so any amount left is enough. A
grant's validity is held against the time the request began, as in the code;
its status and its targets are read when the query runs. What changes between a
decision and the answer is left out: it is the same as what changes afterwards,
and `GrantQuota` has the consequences.

`moments` is a history variable: the memberships and the grants in force at each
instant since the request began. It lets the properties say *when* an allowed
request was allowed: `OneMoment` says that an external decision, taken in four
queries, is one that the grants of a single instant give, of which none denies
anything. `MembershipGate`, `KickIsFinal` and `OutsidersFindNothing` are its
companions for members, former members and error codes.

Run `authorization`: two grants (one may deny what the other allows) out of six
bundles that differ in target, effect, validity and items; two memberships of
the partner, so that a kicked member can return; clock to 1, so that a grant
begins or ends during a request; three moments, which is two changes seen by one
request. Grants are symmetric. Deadlock is checked: a request always ends and
the next begins.

### Proofs

`AuthorizationProofs` proves the four properties and `TypeOK` for any invoices,
grants and bundles. `IInv` says of every moment that its grants are still there
and were given to the membership of that moment (`TrueMoments`), of a request
past the membership check how it got there (`Entry`), and of its grants what
their items said to each question so far (`Answers`). `Change` keeps it because a
grant's bundle never changes (`GrantsStay`); each question adds its own part.
`CurrentIds`, that a membership has an id other than 0, is what makes a kick
visible. The assumptions are `AuthorizationAssumption` and that no grant is
`Absent` (`AbsentAssumption`).

## PolicyReachability

The loops of `PoliciesForPrincipal` (external grants) and `collectPolicyOrigins`
(the identity snapshot), one rule per step, one loop after the other on the same
rules of one domain. The reference they are held against, `Reach`, is no loop:
it is what every closed set that contains the start contains.

The loops run inside `identity_snapshot`, over every list of at most three rules
between a user, a membership, a role and a group, cycles and repetitions
included: three rules against the direction of the list are what needs a further
pass.

### Proofs

The first part of `IdentitySnapshotProofs` proves `FollowSpec => []ReachableExactly` and
`FollowSpec => []OriginsExactly` for any principals and any lists of rules. The
inductive invariant `LoopsInv` says that what was found is reachable, and that
while a pass has changed nothing, the rules it has visited lead from what was
found to nothing new. At the end of such a pass the result is closed, hence
everything. The assumption is `PrincipalsAssumption`.

## IdentitySnapshot

`GET /v1/me` after the loops: the rows of each table are merged one by one, in
any order, for the queries have no ORDER BY.

| Code | Actions |
|---|---|
| `PoliciesForPrincipal`, `collectPolicyOrigins` | `Follow` |
| `addCasbinPermissionFacts` | `AddPolicy` |
| `loadFeatures`, `loadExternalFactRows` | `AddFeature`, `AddPermission` |
| `loadExternalDirectoryFacts` | `AddDirectoryItem` |
| `addQuota` | `AddQuota` |
| `loadExternalQuotas` | `AddAllocation` |

One operation, one feature and one quota key: every other key has a map entry
that shares nothing with this one. The tables are read in one transaction, so
they do not change. Sums are those of Go's int64 (`Wrap`, with `MaxInt` 3 in the
run): the properties say that they come out right wherever SQLite's own `SUM`,
which fails where Go wraps, has an answer. No row has more taken than its limit,
as the `CHECK`s of the schema say.

The properties compare with the other side of the program: what /me shows has to
be what the engine's queries, other code on the same rows, decide: Casbin's
matcher and effect (`Enforce`), `HasFeature`, `QuotaAvailable`, and for any set
of grants together `externalDirectPermission`, `externalDirectoryPermission` and
the external feature and quota queries.

Run `identity_snapshot`: besides the lists of rules, up to three quota rows out
of those in force at one instant (deny, unlimited, used up or not, with three
ends), up to three allocations and feature items of two grants, two policies and
four items. The rows that cannot matter to each other are not combined
(`RowsFor`). `Answered` needs only that the one handler keeps running
(`FairSpec`). A request ends, so deadlock is not checked.

### Proofs

The second part of `IdentitySnapshotProofs` proves `SnapshotOrigins`,
`OwnFactsMatch`, `LentFactsMatch`, `QuotasMatch` and `PeriodIsSpan` for any
principals, rules, grants and rows. The invariant `SnapshotInv` extends
`LoopsInv`: each fact is the deny-wins fold of the effects read so far, the period
their span (`Spans`), and the quota their sum as long as that fits in an int64
(`Counts`). The `CHECK`s make this inductive: no row leaves less than nothing, so
where the whole sum fits every part of it did, and `Wrap` changed none of them
(`WrapFits`). Of a set of bundles, the sum of what is shown is the sum over all
their rows (`AvailableTogether`). The assumptions are `PrincipalsAssumption` and
`SnapshotAssumption`.

## Startup

Processes around one database file: a new one may start while the old one
drains, and any may die at any step.

| Code | Actions |
|---|---|
| `sqlite.Open`, `CREATE TABLE IF NOT EXISTS schema_migrations` | `Start`, `Open` |
| `Migrate`: the check, outside of the transaction | `SkipApplied`, `FindMissing` |
| ... the file's statements, which take SQLite's write lock | `Execute`, `ExecuteFails` (another process has made the tables) |
| ... the row of the history and the commit | `Commit` |
| `busy_timeout` | `BusyTimeout` |
| `ListenAndServe` | `Listen`, `ListenFails`, `RequestComes`, `RequestEnds` |
| a signal, `Shutdown` and its deadline | `Signal`, `Drained`, `ShutdownTimeout` |
| an error of the server, the end of the process | `Crash` |

Process, lock and port are the operating system's and SQLite's; a transaction of
a process that dies is taken back. Requests are only counted: what they do is in
the other modules.

Run `startup`: three processes (one serves, two race), two migrations (a gap is
possible), two requests, three faults. Deadlock is checked: there is always
somebody to start.

Fairness. A process runs, and is started again when it has ended, by whatever
supervises it. Waiting for the lock and draining are bounded by timeouts, so they
end; that a process *gets* the lock, or that its requests end, is not assumed.
`EventuallyServes` says that a lost race costs no more than a start.

### Proofs

The first part of `StartupAndEntitlementsProofs` proves
`Spec => []SchemaFollowsHistory` (`MigrationsSound`) for any processes and
migrations. `IInv` adds the types and `LoopState`: who records holds the lock,
and what a loop has passed is in the history. The lock is what `Commit` relies
on: between `Execute` and `Commit` nobody else writes.

## What is only model-checked

* Liveness (`PartialGrantConverges`, `Answered`, `EventuallyServes`): the proof
  system does not prove liveness under fairness.

## Not modelled

* Token verification (the Casdoor SDK's), JSON, the wiring in `newApp`, the
  configuration, the catalog's registration (checked once, when the server
  starts): no state that lives on.
* The audit row of a decision, which nobody reads and which is written in no
  transaction with anything else; the events of grants.
* `ExternalRole`, `ExternalGroup` and `ExternalPlan`: no code calls them.
* Of `/me`: names, sources, roles and groups as they are listed, and plans. The
  plan of a bundle is the last row that its query returns, so of several plans it
  shows one; no decision rests on it.
* Validity dates and unlimited rows in `Entitlements`; several owners or keys in
  one transaction of the quota engine (`Engine.decide` issues one key).
* Test doubles and the layout guard.
