--------------------------- MODULE MCEventHandle ---------------------------
\* EventHandle with interchangeable event handles.
EXTENDS EventHandle, TLC

Symmetry == Permutations(EventHandles)
=============================================================================
