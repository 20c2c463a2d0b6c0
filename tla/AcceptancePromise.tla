--------------------------- MODULE AcceptancePromise ---------------------------
(***************************************************************************)
(* What the invitation service promises its users, with no claim, lease,   *)
(* Casbin edge or second store in sight: accepting an invitation is ONE    *)
(* event that makes its user a member and hands over the whole bundle.     *)
(***************************************************************************)
CONSTANTS Invitations, Slots, SlotOf, RolesOf

VARIABLES
  status,   \* of each invitation: "none", "pending" or "accepted"
  present,  \* the (organization, user) pairs with an active membership
  granted   \* the roles each invitation makes effective for its user

vars == <<status, present, granted>>

Init ==
  /\ status = [i \in Invitations |-> "none"]
  /\ present \in SUBSET Slots
  /\ granted = [i \in Invitations |-> {}]

Invite(i) ==
  /\ status[i] = "none"
  /\ \A j \in Invitations : SlotOf[j] = SlotOf[i] => status[j] # "pending"
  /\ status' = [status EXCEPT ![i] = "pending"]
  /\ UNCHANGED <<present, granted>>

Accept(i) ==
  /\ status[i] = "pending"
  /\ SlotOf[i] \notin present
  /\ \A j \in Invitations : SlotOf[j] = SlotOf[i] => status[j] # "accepted"
  /\ status' = [status EXCEPT ![i] = "accepted"]
  /\ present' = present \union {SlotOf[i]}
  /\ granted' = [granted EXCEPT ![i] = RolesOf[i]]

\* Leaving takes every invited role of the pair away, at once.
Leave(s) ==
  /\ s \in present
  /\ present' = present \ {s}
  /\ granted' = [i \in Invitations |-> IF SlotOf[i] = s THEN {} ELSE granted[i]]
  /\ UNCHANGED status

\* Coming back by an application revives the accepted bundles of the pair, and
\* never a bundle whose invitation is still pending.
Return(s) ==
  /\ s \notin present
  /\ present' = present \union {s}
  /\ granted' = [i \in Invitations |->
                   IF SlotOf[i] = s /\ status[i] = "accepted" THEN RolesOf[i] ELSE granted[i]]
  /\ UNCHANGED status

Next ==
  \/ \E i \in Invitations : Invite(i) \/ Accept(i)
  \/ \E s \in Slots : Leave(s) \/ Return(s)

Spec == Init /\ [][Next]_vars

================================================================================
