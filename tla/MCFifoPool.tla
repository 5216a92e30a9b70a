------------------------------ MODULE MCFifoPool ------------------------------
(***************************************************************************)
(* A queue that pairs first in, first out, and a pool of hosts whose       *)
(* starts and warm-pool passes come from anywhere.  They share no state    *)
(* and are checked apart, each in several parts that leave out something   *)
(* else: part says what moves.                                             *)
(***************************************************************************)
EXTENDS MCMatchQueue, HostPool

VARIABLE part

FifoPoolInit ==
    /\ part \in {"crowd", "turns", "starts", "passes", "lone"}
    /\ Init
    /\ PoolInit

\* Workers that interleave freely, with no faults and no minimum intervals.
Crowd == INSTANCE MatchQueue WITH QueueFaults <- {}, Throttled <- {}

\* Only one of the players joins twice.
OneRejoins == Cardinality({p \in Player : joins'[p] > 1}) <= 1

\* One worker at a time is anything but idle with both triggers waiting for it.
Waiting(w) ==
    worker'[w] = Idle /\ recent'[w] = {} /\ pairingCh'[w] = Buffer /\ gcCh'[w] = Buffer
TakeTurns == Cardinality({w \in Worker : ~Waiting(w)}) <= 1

\* No warm-pool pass; no reconciliation of hosts; at most n starts.
NoPass == \A w \in Warmer : step'[w] = "idle"
HostsUnreconciled == UNCHANGED <<unlisted, lost, seen>>
Starts(n) == Cardinality({m \in Match : step'[m] # "idle"}) <= n

FifoPoolNext ==
    /\ UNCHANGED part
    /\ \/ part = "crowd" /\ Crowd!Next /\ OneRejoins /\ UNCHANGED poolVars
       \/ part = "turns" /\ Next /\ TakeTurns /\ OneRejoins /\ UNCHANGED poolVars
       \/ part = "starts" /\ PoolNext /\ NoPass /\ UNCHANGED vars
       \/ part = "passes" /\ PoolNext /\ HostsUnreconciled /\ UNCHANGED vars
       \/ part = "lone" /\ PoolNext /\ Starts(1) /\ UNCHANGED vars

FifoPoolSpec == FifoPoolInit /\ [][FifoPoolNext]_<<part, vars, poolVars>>

FifoPoolTypeOK == TypeOK /\ PoolTypeOK
=============================================================================
