---------------------------- MODULE GatewayPromise ----------------------------
(***************************************************************************)
(* What the session gateway promises, without tickets, calls or relays.    *)
(* A connection is claimed at most once.  Its traffic flows only under a   *)
(* grant, which lasts at most one window beyond the last moment at which   *)
(* the connection was authorised, and which is extended only while it      *)
(* still runs.  Traffic that has stopped never starts again.               *)
(***************************************************************************)
EXTENDS Naturals

CONSTANTS Conns, Window

VARIABLES
    now,    \* the time, from 1
    lost,   \* when a connection lost its authority for good; 0: it has it
    until,  \* the end of the connection's grant; 0: none was given
    stage   \* unused, claimed, flowing or ended

promiseVars == <<now, lost, until, stage>>

PromiseInit ==
    /\ now = 1
    /\ lost = [c \in Conns |-> 0]
    /\ until = [c \in Conns |-> 0]
    /\ stage = [c \in Conns |-> "unused"]

\* Traffic may stop at any time, on any number of connections.
Stops(c) == stage'[c] = stage[c] \/ (stage[c] # "unused" /\ stage'[c] = "ended")

\* Time passes, and whatever has outlived its grant has stopped.
PassTime ==
    /\ now' = now + 1
    /\ stage' = [c \in Conns |-> stage'[c]]
    /\ \A c \in Conns : Stops(c) /\ (stage'[c] = "flowing" => now' < until[c])
    /\ UNCHANGED <<lost, until>>

Stop ==
    /\ stage' = [c \in Conns |-> stage'[c]]
    /\ \A c \in Conns : Stops(c)
    /\ UNCHANGED <<now, lost, until>>

Lose ==
    /\ lost' = [c \in Conns |-> lost'[c]]
    /\ \A c \in Conns : lost'[c] = lost[c] \/ (lost[c] = 0 /\ lost'[c] = now)
    /\ UNCHANGED <<now, until, stage>>

Claim(c, t, s) ==
    /\ stage[c] = "unused"
    /\ lost[c] = 0
    /\ until' = [until EXCEPT ![c] = t]
    /\ stage' = [stage EXCEPT ![c] = s]
    /\ UNCHANGED <<now, lost>>

Extend(c, t) ==
    /\ stage[c] # "unused"
    /\ lost[c] = 0
    /\ now < until[c]
    /\ until' = [until EXCEPT ![c] = t]
    /\ UNCHANGED <<now, lost, stage>>

Start(c) ==
    /\ stage[c] = "claimed"
    /\ now < until[c]
    /\ stage' = [stage EXCEPT ![c] = "flowing"]
    /\ UNCHANGED <<now, lost, until>>

PromiseNext ==
    \/ PassTime \/ Stop \/ Lose
    \/ \E c \in Conns :
          \/ Start(c)
          \/ \E t \in now + 1 .. now + Window :
                /\ until[c] <= t
                /\ Extend(c, t) \/ \E s \in {"claimed", "ended"} : Claim(c, t, s)

PromiseSpec == PromiseInit /\ [][PromiseNext]_promiseVars
==============================================================================
