------------------------------ MODULE MCL1Journal ------------------------------
(* The journal on a small instance: operations and signatures are interchangeable. *)
EXTENDS L1Journal, TLC

Symmetry == Permutations(Ops) \cup Permutations(Sigs)
=============================================================================
