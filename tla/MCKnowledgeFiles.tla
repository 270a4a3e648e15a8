--------------------------- MODULE MCKnowledgeFiles ---------------------------
EXTENDS KnowledgeSearch, TLC
CONSTANTS f1, f2, k1, x, y, t1, t2
Files == {f1, f2}
Sheets == {f2}
Kbs == {k1}
Contents == {x, y}
Threads == {t1, t2}
Symmetric == Permutations(Thread) \cup Permutations(Content)
=============================================================================
