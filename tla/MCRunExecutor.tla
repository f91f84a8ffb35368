----------------------------- MODULE MCRunExecutor -----------------------------
(* Model values for RunExecutor.  Ids are only compared for equality.        *)
EXTENDS RunExecutor, TLC

Symmetry == Permutations(Inputs) \cup Permutations(LeaseIds)
            \cup Permutations(RequestIds) \cup Permutations(Calls)
===============================================================================
