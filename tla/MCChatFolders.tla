--------------------------- MODULE MCChatFolders ---------------------------
\* Instances of ChatFolders. "Work" and "work" match each other, and "%"
\* as a pattern matches every name.
EXTENDS ChatFolders, TLC
CONSTANTS f1, f2, f3, c1, r1
Folders3 == {f1, f2, f3}
OneChat == {c1}
OneRequest == {r1}
Names == {"Work", "work", "%"}
Matches(stored, pattern) ==
  stored = pattern \/ pattern = "%" \/ {stored, pattern} = {"Work", "work"}
Symmetric == Permutations(Folder) \cup Permutations(Chat) \cup Permutations(Request)
=============================================================================
