---------------------------- MODULE MCRdpSession ----------------------------
(* RdpSession with interchangeable owners.                                 *)
EXTENDS RdpSession, TLC

Symmetry == Permutations(Owners)
=============================================================================
