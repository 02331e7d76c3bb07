--------------------------- MODULE MCEventServer ---------------------------
(* Instances of EventServer for TLC. *)
EXTENDS EventServer, TLC

CONSTANTS h1, h2, e1, e2, e3, o1

MCObjectOf == [h \in Handles |-> o1]

Symmetry == Permutations(EventHandles) \cup Permutations(Handles)
=============================================================================
