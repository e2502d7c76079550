---- MODULE MCEffectiveResults ----
EXTENDS EffectiveResults, TLC

CONSTANTS s1, s2, s3, v1, v2

Problems == {1, 2}
Contests == {1}
MCProblemOf == s1 :> 1 @@ s2 :> 1 @@ s3 :> 2
MCInitialRows == s1 :> 1 @@ s2 :> 1
MCInitialBindings == {<<1, 1>>, <<1, 2>>}
MCLatest == [p \in Problems |-> v2]

ResultOf(s, v, n, score, accepted) ==
    [kind |-> "result", submission |-> s,
     result |-> [version |-> v, sequence |-> n, score |-> score, accepted |-> accepted]]
ChangeOf(p, c, pol, pinned) == [problem |-> p, contest |-> c, policy |-> pol, pinned |-> pinned]
Single(p, c, pol, pinned) == [kind |-> "change", changes |-> {ChangeOf(p, c, pol, pinned)}]

MCRequest ==
    {ResultOf(s1, v1, 1, 1, TRUE), ResultOf(s1, v2, 2, 2, FALSE),
     [kind |-> "create", submission |-> s3, contest |-> 1, version |-> v2],
     [kind |-> "remove", submission |-> s1],
     Single(1, None, v1, None),
     Single(1, 1, v2, None), Single(1, 1, None, v1),
     [kind |-> "batch", changes |-> {ChangeOf(1, None, v2, None), ChangeOf(2, 1, v1, None)}],
     [kind |-> "edit", contest |-> 1, end |-> 0, affects |-> None, problems |-> None],
     [kind |-> "edit", contest |-> 1, end |-> None, affects |-> FALSE, problems |-> {2}],
     [kind |-> "edit", contest |-> 1, end |-> None, affects |-> None, problems |-> {1, 2}],
     [kind |-> "delete", contest |-> 1],
     [kind |-> "convert", problems |-> {1, 2}]}

Symmetry == Permutations(Transaction)
====
