------------------------------ MODULE MCGateway ------------------------------
(* Gateway on a small instance: see the .cfg file. *)
EXTENDS Gateway

CONSTANTS t1, t2, c1, g1

\* The connections end with the run.
MCExpiry == [c \in Conns |-> MaxTime]
==============================================================================
