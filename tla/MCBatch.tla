------------------------------- MODULE MCBatch -------------------------------
(* Instances of Batch for TLC. *)
EXTENDS Batch, TLC

\* The two worker threads are interchangeable; IoThread is not.
ThreadSymmetry == Permutations(Runners \ {IoThread})
=============================================================================
