-------------------------- MODULE MCGoalAttention --------------------------
\* TLC instance of GoalAttention.
EXTENDS GoalAttention, TLC

CONSTANTS o1, o2, w1, w2

MCOperators == {o1, o2}
MCJobWorkers == {w1, w2}
Symmetry == Permutations(MCOperators) \cup Permutations(MCJobWorkers)
=============================================================================
