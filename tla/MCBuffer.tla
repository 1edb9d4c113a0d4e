------------------------------- MODULE MCBuffer -------------------------------
(* CspBuffer for TLC: two tasks and a handler over a few buffers.             *)
EXTENDS CspBuffer, TLC

\* Tasks, buffers and references are interchangeable (safety runs only).
Symmetry == Permutations(Buffers) \cup Permutations(Refs) \cup Permutations(Tasks)
==============================================================================
