--------------------------- MODULE MCChatSharing ---------------------------
\* Instances of SharingRepair: small sets of chats, links and processes.
EXTENDS SharingRepair, TLC
CONSTANTS c1, c2, s1, s2, s3, p1, p2
Chats2 == {c1, c2}
Shares3 == {s1, s2, s3}
TwoProcesses == {p1, p2}
Symmetric == Permutations(Chat) \cup Permutations(ShareId) \cup Permutations(Process)
=============================================================================
