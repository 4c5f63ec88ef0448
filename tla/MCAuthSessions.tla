--------------------------- MODULE MCAuthSessions ---------------------------
(* AuthSessions on a small instance.                                       *)
EXTENDS AuthSessions, TLC

Symmetry == Permutations(Users) \union Permutations(Tokens)
              \union Permutations(Requests)

=============================================================================
