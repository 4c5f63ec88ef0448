------------------------- MODULE MCDashboardSession -------------------------
(* DashboardSession on a small instance.                                   *)
EXTENDS DashboardSession, TLC

Symmetry == Permutations(Users) \union Permutations(Tokens)
              \union Permutations(Tabs) \union Permutations(Runs)

=============================================================================
