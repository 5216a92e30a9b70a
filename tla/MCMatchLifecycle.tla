-------------------------- MODULE MCMatchLifecycle --------------------------
EXTENDS MatchLifecycle, TLC

Symmetry == Permutations(Proc) \cup Permutations(Verdict)
=============================================================================
