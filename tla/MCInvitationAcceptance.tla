------------------------ MODULE MCInvitationAcceptance ------------------------
(* Small instances of InvitationAcceptance for TLC. *)
EXTENDS InvitationAcceptance, TLC

CONSTANTS i1, i2, s1, r1

\* Two invitations of the same (organization, user) pair: the second can only be
\* issued once the first is accepted.
SamePair == i1 :> s1 @@ i2 :> s1

\* One invitation.
OnePair == i1 :> s1

OneRole == i1 :> {r1}
SmallBundles == i1 :> {r1} @@ i2 :> {r1}

\* No HTTP call, database call or process ever fails.
NoFaults == -1

Symmetry == Permutations(ClaimIds) \union Permutations(Workers)
===============================================================================
