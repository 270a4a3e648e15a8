--------------------------- MODULE MCChatCompletion ---------------------------
EXTENDS ChatCompletion, TLC

CONSTANTS p1, p2, m1, m2, r1, r2, c1

OneProcess == {p1}
TwoProcesses == {p1, p2}
OneTask == {m1}
TwoTasks == {m1, m2}
OneRequest == {r1}
TwoRequests == {r1, r2}
NoRequest == {}
OneChat == {c1}
SameChat == [t \in Task |-> c1]
AllHere == [t \in Task |-> p1]
Symmetry == Permutations(TwoTasks)
OneEach == (m1 :> p1) @@ (m2 :> p2)
=============================================================================
