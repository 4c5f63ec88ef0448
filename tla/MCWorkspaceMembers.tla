------------------------- MODULE MCWorkspaceMembers -------------------------
(* WorkspaceMembers on a small instance.                                   *)
EXTENDS WorkspaceMembers, TLC

Symmetry == Permutations(Users) \union Permutations(Requests)

\* Only what happens while every caller still has the role the guard saw: a
\* violation under this constraint is not the work of a stale role.
RolesCurrent ==
  \A r \in Requests : call[r].op \in {"update", "remove", "leave", "transfer"}
    => role[call[r].ws][call[r].actor] = call[r].role

=============================================================================
