--------------------------- MODULE SharingRepair ---------------------------
(***************************************************************************)
(* What shares, unshares and deletions that are answered with success      *)
(* leave behind. A handler that has failed, has died or has been disturbed *)
(* by one of another process may leave a chat and its copies in disorder,  *)
(* and a deletion that another user asks for does: it takes the copies and *)
(* leaves the link. History variables keep the handlers that were          *)
(* disturbed and the chats that are in disorder, until an unshare has      *)
(* cleared them up.                                                        *)
(***************************************************************************)
EXTENDS ChatSharing

VARIABLES
  touched,  \* processes whose handler another one has disturbed
  broken    \* chats that a handler has left in disorder

InitR == Init /\ touched = {} /\ broken = {}

RowsOf(c) == <<chat[c], CopiesOf(c)>>
\* The deletion of all chats is a handler of each of them.
HandledBy(p) == IF proc[p].chat = NoChat THEN Chat ELSE {proc[p].chat}
\* Another handler has changed what this one works on, or was at work on it
\* when this one began.
Disturbed(p) ==
  \/ /\ proc[p].pc # "idle" /\ proc'[p] = proc[p]
     /\ \E c \in HandledBy(p) : RowsOf(c)' # RowsOf(c)
  \/ /\ proc[p].pc = "idle"
     /\ \E q \in Process \ {p} : proc[q].pc # "idle" /\ HandledBy(q) \cap HandledBy(p)' # {}

Ends(p) == proc[p].pc # "idle" /\ proc'[p].pc = "idle"
\* A deletion by a user the chat is not of; without a link it harms nothing.
TakesAnothers(p) == ~ proc[p].own /\ Shared(proc[p].chat)
EndsBadly(p) ==
  Ends(p) /\ \/ p \in touched \/ proc'[p].answer \in {"failed", "none"}
             \/ TakesAnothers(p)
\* A handler that nothing disturbed is answered with success.
Answers(p, answer) == Ends(p) /\ p \notin touched /\ proc'[p].answer = answer

NextR ==
  /\ Next
  /\ touched' = {p \in Process : /\ proc'[p].pc # "idle"
                                 /\ p \in touched \/ Disturbed(p)}
  /\ broken' = (UNION {HandledBy(p) : p \in {q \in Process : EndsBadly(q)}})
                 \cup (broken \ {c \in Chat : \E p \in Process :
                                    Answers(p, "unshared") /\ proc[p].chat = c})

SpecR == InitR /\ [][NextR]_<<vars, touched, broken>>

----------------------------------------------------------------------------

\* Between handlers, a chat that exists has a link exactly when it has a copy,
\* and one copy at most, unless a handler of that chat was broken off or
\* disturbed, or another user has asked for its deletion; after an unshare
\* that was answered True it is so again.
LinkMatchesCopy ==
  (\A p \in Process : proc[p].pc = "idle") =>
    \A c \in Chat \ broken : chat[c].exists =>
      CopiesOf(c) = {k \in copies : k.id = chat[c].share}
        /\ Cardinality(CopiesOf(c)) = (IF Shared(c) THEN 1 ELSE 0)

\* A share that is answered with success serves the chat as it is now, if no
\* earlier handler has left the chat in disorder (CHANGELOG: "Corrected issues
\* where shared chats were not updating").
ShareServesCurrent ==
  [][\A p \in Process : Answers(p, "shared") /\ proc[p].chat \notin broken =>
       LET c == proc[p].chat IN
       \E k \in copies' : k.id = chat'[c].share /\ k.of = c
                            /\ k.version = chat'[c].version]_vars

\* When the owner's request to unshare is answered True, no copy of the chat
\* is left, also not one that a crash, a failed share or another process had
\* left behind before it began.
UnshareLeavesNoCopy ==
  [][\A p \in Process : Answers(p, "unshared") =>
       LET c == proc[p].chat IN CopiesOf(c)' = {} /\ ~ Shared(c)']_vars

\* The same for the deletion of the chat, where the owner has asked for it.
DeleteLeavesNoCopy ==
  [][\A p \in Process : Answers(p, "deleted") =>
       LET c == proc[p].chat IN CopiesOf(c)' = {}
                                  /\ (proc[p].own => ~ chat'[c].exists)]_vars

\* What the owner has taken back, or deleted, is nowhere to be read any more.
TakenBackLeavesNoCopy == UnshareLeavesNoCopy /\ DeleteLeavesNoCopy
=============================================================================
