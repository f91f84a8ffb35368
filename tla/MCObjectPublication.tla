-------------------------- MODULE MCObjectPublication --------------------------
(* Model values for ObjectPublication.  Tasks of a kind and objects are only *)
(* compared for equality.                                                    *)
EXTENDS ObjectPublication, TLC

Symmetry == Permutations(Publishers) \cup Permutations(Purges) \cup Permutations(Objects)
===============================================================================
