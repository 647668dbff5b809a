---------------------------- MODULE MCImageBuilds ----------------------------
(* ImageBuilds with interchangeable profiles, VMIDs, keys and requests.    *)
EXTENDS ImageBuilds, TLC

Symmetry == Permutations(Profiles) \cup Permutations(VMIDs) \cup Permutations(Keys) \cup Permutations(Handlers)
=============================================================================
