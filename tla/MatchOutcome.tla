---------------------------- MODULE MatchOutcome ----------------------------
(***************************************************************************)
(* What the backend promises a game server about one match: the first      *)
(* accepted outcome is the outcome, ratings move exactly when (and only    *)
(* once) that outcome asks for it, and the match credential is withdrawn   *)
(* only after there is an outcome.  MatchLifecycle implements it.          *)
(***************************************************************************)

CONSTANTS
    Match,      \* matches
    Ranked,     \* matches played in a queue with elo_strategy = "classic"
    Outcome,    \* what can be recorded: [by, rate] records
    NoResult    \* no MatchResult row

VARIABLES
    result,     \* result[m]: the recorded outcome, or NoResult
    rated,      \* rated[m]: how many times Elo was applied for m
    open        \* the matches whose auth_code resolves

vars == <<result, rated, open>>

Init ==
    /\ result = [m \in Match |-> NoResult]
    /\ rated = [m \in Match |-> 0]
    /\ open = {}

Begin(m) ==
    /\ result[m] = NoResult
    /\ m \notin open
    /\ open' = open \cup {m}
    /\ UNCHANGED <<result, rated>>

\* The outcome and its rating change are one step, and only the first counts.
Record(m, o) ==
    /\ m \in open
    /\ result[m] = NoResult
    /\ result' = [result EXCEPT ![m] = o]
    /\ rated' = [rated EXCEPT ![m] = IF o.rate /\ m \in Ranked THEN 1 ELSE 0]
    /\ UNCHANGED open

Close(m) ==
    /\ m \in open
    /\ result[m] # NoResult
    /\ open' = open \ {m}
    /\ UNCHANGED <<result, rated>>

Next == \E m \in Match : Begin(m) \/ Close(m) \/ \E o \in Outcome : Record(m, o)

Spec == Init /\ [][Next]_vars
=============================================================================
