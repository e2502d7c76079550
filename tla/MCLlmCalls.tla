----------------------------- MODULE MCLlmCalls ------------------------------
(* Instances of LlmCalls for TLC. *)
EXTENDS LlmCalls, TLC

CONSTANTS a, b, big   \* two calls of one evaluation and one above tpm_limit

Replicas == [c \in Call |-> IF c = big THEN "r2" ELSE "r1"]
OneToken == [c \in Call |-> 1]
LongBig == [c \in Call |-> IF c = big THEN 5 ELSE 1]
Long == {[total |-> 4, billed |-> 3]}
ChargedTo == [c \in Call |-> IF c = big THEN {"calls", "day"} ELSE {"attempt", "calls", "day"}]
Limits == [attempt |-> 3, calls |-> 2, day |-> 8]
=============================================================================
