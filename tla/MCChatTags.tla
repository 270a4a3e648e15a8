------------------------------ MODULE MCChatTags ------------------------------
\* g1 is another spelling of t1, as "My Tag" is of my_tag.
EXTENDS TagRows, TLC
CONSTANTS c1, c2, t1, g1, p1, p2
Chats == {c1, c2}
Tags == {t1}
Spellings == {t1, g1}
TagId == [g \in Spellings |-> t1]
Processes == {p1, p2}
Symmetric == Permutations(Chat) \cup Permutations(Process)
=============================================================================
