--------------------------- MODULE MCInvitations ---------------------------
(* Instances of Invitations for TLC. *)
EXTENDS Invitations, TLC

CONSTANTS u1, u2, i1, i2, i3, k1, k2, k3, r1, r2

\* Invitations, tokens and requests are interchangeable.
SymmetricIds == Permutations(Invites) \cup Permutations(Tokens) \cup Permutations(Requests)
=============================================================================
