------------------------------- MODULE MCJobs -------------------------------
(* Small instances of the job queue for TLC. *)
EXTENDS Jobs, TLC

Symmetry == Permutations(Job) \cup Permutations(Owner)
=============================================================================
