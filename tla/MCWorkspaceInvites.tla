------------------------- MODULE MCWorkspaceInvites -------------------------
(* WorkspaceInvites on a small instance.                                   *)
EXTENDS WorkspaceInvites, TLC

Symmetry == Permutations(Users \ {Founder}) \union Permutations(Requests)
              \union Permutations(Invites)

=============================================================================
