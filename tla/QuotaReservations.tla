--------------------------- MODULE QuotaReservations ---------------------------
(***************************************************************************)
(* The quota engine as its interface allows it to be used: an operation    *)
(* reserves in one transaction and is committed, released or expired in    *)
(* another, while others do the same and grants come and go.  The program  *)
(* itself reserves and commits in one transaction (GrantQuota).            *)
(***************************************************************************)
EXTENDS QuotaTables

CONSTANT Offers   \* what a grant may hold of the key: plan, explicit and deny items

ASSUME OffersAssumption == Offers \subseteq [plan : Nat, explicit : Nat, deny : BOOLEAN]

VARIABLES
  store,  \* the quota tables
  late    \* history: what was reserved on a grant already revoked, by operation

storeVars == <<store, late>>

Shares == Grants \X Entitlements

StoreTypeOK == store \in Tables /\ late \subseteq Ops \X Shares

StoreInit == store = EmptyTables /\ late = {}

Lend(g) ==
  /\ \E bundle \in Offers : store' \in CreateExternalGrant(store, g, bundle)
  /\ UNCHANGED late

TakeBack(g) == store' \in RevokeExternalGrant(store, g) /\ UNCHANGED late

\* An operation id is new, or is used again (a retry of the same request).  The
\* grants come from a decision: any of them may have been revoked since.
Reserve(op, grants, cost) ==
  /\ store' \in ReserveQuotas(store, op, grants, cost)
  /\ late' = late \union
       {<<op, p>> : p \in {q \in Shares :
          /\ store.grant[q[1]] # "active"
          /\ store'.externalStatus[op][q] # store.externalStatus[op][q]}}

\* The clock is not looked at: an overdue operation can be committed until
\* somebody expires it.  With nothing reserved these two change nothing.
Commit(op) == store' \in CommitQuotas(store, op) /\ UNCHANGED late

Release(op) == store' = ReleaseQuotas(store, op) /\ UNCHANGED late

\* Only expires_at of the operations' own reservations is asked for; nothing but
\* the sweep reads it, so what it finds due may be any of what is reserved.
ExpireReservations ==
  /\ \E due \in SUBSET {op \in Ops : store.directStatus[op] = "reserved"} :
       store' = FoldSet(LAMBDA op, d : ExpireOne(d, op), store, due)
  /\ UNCHANGED late

StoreNext ==
  \/ \E g \in Grants : Lend(g) \/ TakeBack(g)
  \/ \E op \in Ops :
       \/ \E grants \in SUBSET Grants, cost \in Costs : Reserve(op, grants, cost)
       \/ Commit(op)
       \/ Release(op)
  \/ ExpireReservations

StoreSpec == StoreInit /\ [][StoreNext]_storeVars

-----------------------------------------------------------------------------
(* What must hold. *)

\* The statements address a grant's rows by entitlement: with quota of one from
\* both sources, settling a reservation moves its amount in each row that has it.
SoleSource(d, g, e) ==
  d.allocated[<<g, e, "explicit">>] = 0 \/ d.allocated[<<g, e, "plan">>] = 0

\* The rows of the owner that nobody takes from what he has no part in: no grant
\* has them twice, and nothing was committed that was reserved late.
Undisturbed(d, past) ==
  {e \in Entitlements :
     /\ \A g \in Grants : SoleSource(d, g, e)
     /\ \A op \in Ops, g \in Grants :
          <<op, <<g, e>>>> \in past => d.externalStatus[op][<<g, e>>] # "committed"}

OwnReservationsBacked ==
  \A e \in Undisturbed(store, late) :
    store.reserved[e] =
      Total([op \in Ops |-> Held(store, op)[e]], Ops)
      + Total([g \in Grants |-> Unused(store, g, e)], {g \in Grants : store.grant[g] = "active"})

LentReservationsBacked ==
  \A g \in Grants, e \in Entitlements : SoleSource(store, g, e) =>
    store.lentReserved[<<g, e, "explicit">>] + store.lentReserved[<<g, e, "plan">>] =
      Total([op \in Ops |-> LentHeld(store, op)[<<g, e>>]], Ops)

\* The reserved counters are explained row by row: the owner's by reservations
\* still held by operations and by what active grants have left, the grants' by
\* reservations on them, late ones too.  In particular a released external
\* reservation goes back to its grant, not to the owner, and what goes wrong with
\* one row of the owner stays there.
ReservationsBacked == OwnReservationsBacked /\ LentReservationsBacked

\* The ledger tells the counters: what was reserved and not settled is held,
\* what was committed is used, and an operation is settled by one entry only.
Settlements == {"commit", "release", "expire"}
Settled(op) == Total(store.ledger[op], Settlements)
OwnCommitted(d, op) ==
  IF d.directStatus[op] = "committed" THEN d.direct[op] ELSE [e \in Entitlements |-> 0]

LedgerBalanced ==
  /\ \A op \in Ops :
       /\ store.ledger[op]["reserve"] = Settled(op) + Total(Held(store, op), Entitlements)
       /\ store.ledger[op]["commit"] = Total(OwnCommitted(store, op), Entitlements)
       /\ \A j, k \in Settlements : store.ledger[op][j] > 0 /\ store.ledger[op][k] > 0 => j = k
  /\ \A e \in Undisturbed(store, late) :
       store.used[e] =
         Total([op \in Ops |-> OwnCommitted(store, op)[e]], Ops)
         + Total([g \in Grants |-> store.lentUsed[<<g, e, "explicit">>]
                                    + store.lentUsed[<<g, e, "plan">>]], Grants)

\* What an operation holds of a row, and whether it has a part in it that it
\* reserved late.
Holds(d, op, e) ==
  Held(d, op)[e] + Total([g \in Grants |-> LentHeld(d, op)[<<g, e>>]], Grants)
HoldsLate(op) ==
  \E p \in Shares : <<op, p>> \in late /\ LentHeld(store, op)[p] > 0

\* A reservation is a promise: until it is released or expires its commit succeeds
\* and counts all of it, whatever other operations and the grants' managers do
\* meanwhile.  A grant that was active when it was reserved stays so for it.
ReservationsHonoured ==
  \A op \in Ops :
    ~HoldsLate(op) /\ {e \in Entitlements : Holds(store, op, e) > 0} \subseteq Undisturbed(store, late) =>
      /\ CommitQuotas(store, op) # {}
      /\ \A d \in CommitQuotas(store, op), e \in Entitlements :
           d.used[e] = store.used[e] + Holds(store, op, e)

\* A settled reservation never comes back: a retry that reserves again, a late
\* commit or the sweeper leave it, and its amount, as it is.
SettledForEver ==
  [][/\ \A op \in Ops :
          store.directStatus[op] \in {"committed", "released", "expired"} =>
            store'.directStatus[op] = store.directStatus[op] /\ store'.direct[op] = store.direct[op]
     /\ \A op \in Ops, p \in Grants \X Entitlements :
          store.externalStatus[op][p] \in {"committed", "released"} =>
            /\ store'.externalStatus[op][p] = store.externalStatus[op][p]
            /\ store'.external[op][p] = store.external[op][p]]_storeVars

================================================================================
