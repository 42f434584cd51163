---------------------------- MODULE MCEventHandle ----------------------------
(* A small instance of EventHandle for TLC. *)
EXTENDS EventHandle, TLC

CONSTANTS h1, h2

MCHandles == {h1, h2}
MCCounts == 1..2

\* No property tells two timers apart.
HandleSymmetry == Permutations(Handles)
=============================================================================
