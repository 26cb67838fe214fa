------------------------------ MODULE MCBacklog ------------------------------
(* Instances of Backlog for TLC. *)
EXTENDS Backlog, TLC

\* The messages that are recorded are interchangeable, and so are the restores.
MCSymmetry == Permutations(Messages \ Replies) \cup Permutations(AppJobs)
               \cup Permutations(LinkJobs)
=============================================================================
