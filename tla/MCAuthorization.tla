--------------------------- MODULE MCAuthorization ---------------------------
(* Instances of Authorization for TLC. *)
EXTENDS Authorization, TLC

Symmetry == Permutations(Account) \cup Permutations(Key) \cup Permutations(Request)
=============================================================================
