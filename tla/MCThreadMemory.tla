---------------------------- MODULE MCThreadMemory ----------------------------
EXTENDS ThreadMemory
CONSTANTS q1, q2, w, s, c
TwoRequests == {q1, q2}
Workflows == {w}
Serveds == {s}
Customs == {c}
Lists == {<<w>>, <<w, w>>, <<s, Nameless>>, <<Unknown, c>>, <<Reset>>}
=============================================================================
