--------------------------- MODULE MCJudgePipeline ---------------------------
(* Instances of JudgePipeline for TLC.  The runs state liveness and go without
   symmetry; it is for safety checks with more threads (README, section 5).   *)
EXTENDS JudgePipeline, TLC

\* Threads, worker slots of one role and renderings are interchangeable.
Interchangeable ==
  Permutations(Api) \cup Permutations(Sweeper) \cup Permutations(Consumer)
    \cup Permutations(Worker) \cup Permutations(Bytes)
=============================================================================
