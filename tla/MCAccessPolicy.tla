--------------------------- MODULE MCAccessPolicy ---------------------------
(* Small instances of AccessPolicy for TLC. *)
EXTENDS AccessPolicy, TLC

Symmetry == Permutations(Handlers) \cup Permutations(Accounts)
=============================================================================
