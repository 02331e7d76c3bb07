---------------------------- MODULE MCProperties ----------------------------
\* Properties with interchangeable objects, wrappers and threads.
EXTENDS Properties, TLC

Symmetry == Permutations(Props) \cup Permutations(Wrappers) \cup Permutations(Threads)
=============================================================================
