----------------------------- MODULE MCRunMailbox -----------------------------
(* Model values for RunMailbox.  No id of a kind is ever compared with       *)
(* anything but equality, so each kind is a symmetry set.                    *)
EXTENDS RunMailbox, TLC

Symmetry == Permutations(Inputs) \cup Permutations(LeaseIds) \cup Permutations(RequestIds)
===============================================================================
