---------------------------- MODULE MCChildRuns ----------------------------
EXTENDS ChildRuns, TLC

Symmetry == Permutations(Children) \cup Permutations(Agents) \cup Permutations(Messages)
              \cup Permutations(SpawnCalls)
=============================================================================
