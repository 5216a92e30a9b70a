---------------------------- MODULE MCMatchQueue ----------------------------
EXTENDS MatchQueue, TLC

CONSTANTS ann, bob, cat

EqualRating == [p \in Player |-> 1000]
SpreadRating == [p \in Player |-> CASE p = ann -> 1000 [] p = bob -> 1200 [] p = cat -> 1500]

Symmetry == Permutations(Player) \cup Permutations(Worker)
=============================================================================
