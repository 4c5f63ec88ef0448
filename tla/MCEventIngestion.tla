-------------------------- MODULE MCEventIngestion --------------------------
(* EventIngestion on a small instance.                                     *)
EXTENDS EventIngestion, TLC

Symmetry == Permutations(Keys) \union Permutations(Requests)

=============================================================================
