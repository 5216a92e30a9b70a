----------------------------- MODULE MCRatingPool -----------------------------
(***************************************************************************)
(* A queue that pairs by rating, and a pool of hosts where one start at a  *)
(* time runs beside the worker loop that makes the other starts and every  *)
(* warm-pool pass.  They share no state and are checked apart, the pool in *)
(* several parts that leave out something else: part says what moves.      *)
(***************************************************************************)
EXTENDS MCMatchQueue, HostPool

CONSTANTS a, b, c, w1

VARIABLE part

RatingPoolInit ==
    /\ part \in {"queue", "starts", "passes", "lone", "races"}
    /\ Init
    /\ PoolInit

\* Only one of the players joins twice.
OneRejoins == Cardinality({p \in Player : joins'[p] > 1}) <= 1

\* No warm-pool pass; no reconciliation of hosts; at most n starts.
NoPass == \A p \in Warmer : step'[p] = "idle"
HostsUnreconciled == UNCHANGED <<unlisted, lost, seen>>
Starts(n) == Cardinality({m \in Match : step'[m] # "idle"}) <= n

RatingPoolNext ==
    /\ UNCHANGED part
    /\ \/ part = "queue" /\ Next /\ OneRejoins /\ UNCHANGED poolVars
       \/ part = "starts" /\ PoolNext /\ NoPass /\ Starts(2) /\ UNCHANGED vars
       \/ part = "passes" /\ PoolNext /\ HostsUnreconciled /\ Starts(2) /\ UNCHANGED vars
       \/ part = "lone" /\ PoolNext /\ Starts(1) /\ UNCHANGED vars
       \/ part = "races" /\ PoolNext /\ NoPass /\ HostsUnreconciled /\ UNCHANGED vars

RatingPoolSpec == RatingPoolInit /\ [][RatingPoolNext]_<<part, vars, poolVars>>

\* The loop makes the start a; those beside it are alike.
BesideSymmetry == Permutations({b, c})
=============================================================================
