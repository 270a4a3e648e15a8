----------------------------- MODULE SharedLinks -----------------------------
(***************************************************************************)
(* What sharing promises of a link: it is unused, then live, then dead,    *)
(* and never turns back. A live link shows one chat, the same all its      *)
(* life, in a version the chat has had; a chat has one live link at most.  *)
(***************************************************************************)
EXTENDS Naturals

CONSTANTS Chat, ShareId, MaxVersion

VARIABLES
  version,  \* per chat: the number of its current version
  link      \* per id: unused, dead, or the chat and version it shows

vars == <<version, link>>

Unused == [state |-> "unused"]
Dead == [state |-> "dead"]
Live(c, v) == [state |-> "live", chat |-> c, version |-> v]

Shows(s, c) == link[s].state = "live" /\ link[s].chat = c

Init ==
  /\ version = [c \in Chat |-> 0]
  /\ link = [s \in ShareId |-> Unused]

Edit(c) ==
  /\ version[c] < MaxVersion
  /\ version' = [version EXCEPT ![c] = @ + 1]
  /\ UNCHANGED link

\* A link starts to show a chat, in place of the one that did.
Publish(s, c, v) ==
  /\ link[s] = Unused /\ v <= version[c]
  /\ link' = [t \in ShareId |-> IF t = s THEN Live(c, v)
                                ELSE IF Shows(t, c) THEN Dead ELSE link[t]]
  /\ UNCHANGED version

Refresh(s, c, v) ==
  /\ Shows(s, c) /\ v <= version[c]
  /\ link' = [link EXCEPT ![s] = Live(c, v)]
  /\ UNCHANGED version

\* Links are taken back, and ids given up before they were used.
Retire(S) ==
  /\ link' = [s \in ShareId |-> IF s \in S THEN Dead ELSE link[s]]
  /\ UNCHANGED version

Next ==
  \/ \E S \in SUBSET ShareId : Retire(S)
  \/ \E c \in Chat : Edit(c)
  \/ \E s \in ShareId, c \in Chat, v \in 0 .. MaxVersion : Publish(s, c, v) \/ Refresh(s, c, v)

Spec == Init /\ [][Next]_vars
=============================================================================
