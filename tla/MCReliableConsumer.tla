------------------------- MODULE MCReliableConsumer -------------------------
(* Instances of ReliableConsumer for TLC. *)
EXTENDS ReliableConsumer, TLC

\* Replicas, consumers of a replica and well-formed messages are interchangeable.
Interchangeable ==
  Permutations(Process) \cup Permutations(Slot) \cup Permutations(Message \ Malformed)
=============================================================================
