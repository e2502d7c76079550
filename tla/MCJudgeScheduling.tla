-------------------------- MODULE MCJudgeScheduling --------------------------
(* Instances of JudgeScheduling for TLC. *)
EXTENDS JudgeScheduling, TLC

CONSTANTS a, b   \* tasks of two users with one case and with two

WasmPool == <<"oi-wasm">>
PoolOfTask == [t \in Task |-> "oi-wasm"]
KeyOfTask == [t \in Task |-> IF t = a THEN "u1" ELSE "u2"]
CasesOfTask == [t \in Task |-> IF t = a THEN 1 ELSE MaxCases]
BaseOfTask == [t \in Task |-> 2]
DataOfTask == [t \in Task |-> IF t = a THEN 1 ELSE 2]
OneMb == [t \in Task |-> 1]
SlotsWith(runs) == [k \in {"oi-wasm"} |-> 2] @@ [compile |-> 1, run |-> runs]
TwoRunSlots == SlotsWith(2)

=============================================================================
