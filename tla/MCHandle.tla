------------------------------ MODULE MCHandle ------------------------------
(* Symmetric addresses for the instances of Handle. *)
EXTENDS Handle, TLC

Symmetry == Permutations(Addrs \ UserMem) \cup Permutations(Iovas) \cup Permutations(Handles)
=============================================================================
