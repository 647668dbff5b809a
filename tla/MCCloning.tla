------------------------------ MODULE MCCloning ------------------------------
(***************************************************************************)
(* Small instances of the clone jobs.                                      *)
(***************************************************************************)
EXTENDS Cloning

CONSTANTS r1, r2, r3, w1, w2, m1, m2

\* A retry of the first request, and a request of its own.
MCRetried == [r \in Requests |-> IF r = r3 THEN 2 ELSE 1]

Symmetry == Permutations(Watchers) \cup Permutations(Loops) \cup Permutations({r1, r2} \cap Requests)

=============================================================================
