--------------------------- MODULE MCUsageCleanup ---------------------------
EXTENDS UsageOverlaps, TLC

CONSTANTS p1, p2, s1, s2, m1

TwoProcesses == {p1, p2}
TwoSids == {s1, s2}
OneModel == {m1}
EachAtOne == (s1 :> p1) @@ (s2 :> p2)
\* The processes are alike, each with its session.
Alike == {f \in Permutations(TwoProcesses \cup TwoSids) :
            \A s \in TwoSids : f[s] \in TwoSids /\ EachAtOne[f[s]] = f[EachAtOne[s]]}
=============================================================================
