---------------------------- MODULE MCRejudgeJobs ----------------------------
(* Instances of RejudgeJobs for TLC. *)
EXTENDS RejudgeJobs, TLC

\* Workers are interchangeable.
Interchangeable == Permutations(Worker)
=============================================================================
