----------------------------- MODULE ChatSharing -----------------------------
(***************************************************************************)
(* Shared links of chats. Sharing a chat stores a second row of the chat   *)
(* table, the copy, whose user_id is "shared-<chat id>", and writes the    *)
(* copy's id into the share_id of the chat. Unsharing and deleting remove  *)
(* the copies; the link is served while some chat has its share_id.        *)
(*                                                                         *)
(* The handlers are coroutines without an await, so one server process     *)
(* runs one at a time; each step below is one transaction (or one read),   *)
(* and the steps of two server processes interleave. The chats are those   *)
(* of one user. Of the requests of other users one touches them: the       *)
(* deletion of a chat by its id, which looks for no owner before it        *)
(* deletes the copies.                                                     *)
(***************************************************************************)
EXTENDS Naturals, FiniteSets

CONSTANTS
  Chat,        \* the ids of the user's chats
  ShareId,     \* bound: the uuids that copies may be given
  NoChat, NoShare,
  Process,     \* the server processes
  MaxVersion,  \* bound: edits of a chat
  MayFail,     \* whether a transaction may raise (and is then rolled back)
  MayCrash     \* whether a process may die between two transactions

ASSUME ConstantsAssumption ==
  /\ NoChat \notin Chat /\ NoShare \notin ShareId
  /\ MaxVersion \in Nat
  /\ MayFail \in BOOLEAN /\ MayCrash \in BOOLEAN

VARIABLES
  chat,    \* per chat: whether its row exists, its share_id and its content
  copies,  \* the rows of user "shared-<chat>": id, chat and content
  issued,  \* the uuids given to copies so far
  proc     \* per process: the handler it runs and the answer of the last one

vars == <<chat, copies, issued, proc>>

Version == 0 .. MaxVersion
ChatRow == [exists: BOOLEAN, share: ShareId \cup {NoShare}, version: Version]
Copy == [id: ShareId, of: Chat, version: Version]

Pc == {"idle", "refresh", "write", "insert", "copy", "link",
       "revoke", "unlink", "deleteRow", "deleteCopies", "listed", "allRows"}
Answer == {"none", "shared", "unshared", "deleted", "allDeleted", "failed"}
\* share: the copy the handler writes; version: the content it has read;
\* listed: the chats delete_shared_chats_by_user_id has read; ok: the result
\* of the first of two calls; own: whether the chat is the caller's (or the
\* caller an admin); answer: of the last handler that ended.
Handler == [pc: Pc, chat: Chat \cup {NoChat}, share: ShareId \cup {NoShare},
            version: Version, listed: SUBSET Chat, ok: BOOLEAN, own: BOOLEAN,
            answer: Answer]

Idle(c, answer) ==
  [pc |-> "idle", chat |-> c, share |-> NoShare, version |-> 0, listed |-> {},
   ok |-> TRUE, own |-> TRUE, answer |-> answer]
At(pc, c) ==
  [pc |-> pc, chat |-> c, share |-> NoShare, version |-> 0, listed |-> {},
   ok |-> TRUE, own |-> TRUE, answer |-> "none"]

Init ==
  /\ chat = [c \in Chat |-> [exists |-> TRUE, share |-> NoShare, version |-> 0]]
  /\ copies = {}
  /\ issued = {}
  /\ proc = [p \in Process |-> Idle(NoChat, "none")]

Goto(p, handler) == proc' = [proc EXCEPT ![p] = handler]
Reply(p, answer) == Goto(p, Idle(proc[p].chat, answer))

\* Mutant: the query is not restricted to the user of the chat's copies.
CopiesOf_AnyChat(c) == copies

CopiesOf(c) == {k \in copies : k.of = c}
Shared(c) == chat[c].exists /\ chat[c].share # NoShare

----------------------------------------------------------------------------
(* share_chat_by_id *)

\* The router reads the chat; a chat that is gone is answered 401.
ShareChat(p, c) ==
  /\ proc[p].pc = "idle" /\ chat[c].exists
  /\ Goto(p, At(IF Shared(c) THEN "refresh" ELSE "insert", c))
  /\ UNCHANGED <<chat, copies, issued>>

\* update_shared_chat_by_chat_id reads the chat and the first copy of it;
\* without one it goes on as an insert, without a chat it raises.
FindCopy(p) ==
  /\ proc[p].pc = "refresh"
  /\ LET c == proc[p].chat IN
       \/ CopiesOf(c) = {} /\ Goto(p, At("insert", c))
       \/ CopiesOf(c) # {} /\ ~ chat[c].exists /\ Reply(p, "failed")
       \/ /\ chat[c].exists
          /\ \E k \in CopiesOf(c) :
               Goto(p, [At("write", c) EXCEPT !.share = k.id,
                                              !.version = chat[c].version])
  /\ UNCHANGED <<chat, copies, issued>>

\* Mutant: the write leaves the content as it was.
Rewritten_TitleOnly(id, c, version) == copies

Rewritten(id, c, version) ==
  {k \in copies : k.id # id} \cup {[id |-> id, of |-> c, version |-> version]}

\* Mutant: the write puts the copy back when it is gone.
WriteCopy_Merge(p) ==
  /\ proc[p].pc = "write"
  /\ copies' = Rewritten(proc[p].share, proc[p].chat, proc[p].version)
  /\ Reply(p, "shared")
  /\ UNCHANGED <<chat, issued>>

\* The UPDATE of the copy; it raises when the row is gone.
WriteCopy(p) ==
  /\ proc[p].pc = "write"
  /\ IF \E k \in copies : k.id = proc[p].share
       THEN /\ copies' = Rewritten(proc[p].share, proc[p].chat, proc[p].version)
            /\ Reply(p, "shared")
       ELSE UNCHANGED copies /\ Reply(p, "failed")
  /\ UNCHANGED <<chat, issued>>

\* insert_shared_chat_by_chat_id reads the chat. A chat that is shared by now
\* is looked up among those of a user "shared", who has none: the answer is
\* None, which the router turns into an error.
ReadForInsert(p) ==
  /\ proc[p].pc = "insert"
  /\ LET c == proc[p].chat IN
       IF ~ chat[c].exists \/ Shared(c)
         THEN Reply(p, "failed")
         ELSE Goto(p, [At("copy", c) EXCEPT !.version = chat[c].version])
  /\ UNCHANGED <<chat, copies, issued>>

InsertCopy(p) ==
  /\ proc[p].pc = "copy"
  /\ \E id \in ShareId \ issued :
       /\ copies' = copies \cup
            {[id |-> id, of |-> proc[p].chat, version |-> proc[p].version]}
       /\ issued' = issued \cup {id}
       /\ Goto(p, [At("link", proc[p].chat) EXCEPT !.share = id])
  /\ UNCHANGED chat

\* Mutant: the copy is not linked.
LinkCopy_Forgotten(p) ==
  /\ proc[p].pc = "link"
  /\ Reply(p, "shared")
  /\ UNCHANGED <<chat, copies, issued>>

\* Mutant: the UPDATE is not restricted to the chat.
LinkCopy_AllChats(p) ==
  /\ proc[p].pc = "link"
  /\ chat' = [c \in Chat |-> IF chat[c].exists
                              THEN [chat[c] EXCEPT !.share = proc[p].share]
                              ELSE chat[c]]
  /\ Reply(p, "shared")
  /\ UNCHANGED <<copies, issued>>

\* Mutant: the chat is linked to its own id.
LinkCopy_OwnId(p) ==
  /\ proc[p].pc = "link"
  /\ chat' = [chat EXCEPT ![proc[p].chat].share = proc[p].chat]
  /\ Reply(p, "shared")
  /\ UNCHANGED <<copies, issued>>

LinkCopy(p) ==
  /\ proc[p].pc = "link"
  /\ LET c == proc[p].chat IN
       IF chat[c].exists
         THEN /\ chat' = [chat EXCEPT ![c].share = proc[p].share]
              /\ Reply(p, "shared")
         ELSE UNCHANGED chat /\ Reply(p, "failed")
  /\ UNCHANGED <<copies, issued>>

----------------------------------------------------------------------------
(* delete_shared_chat_by_id *)

\* A chat that is not shared is answered False, and nothing changes.
UnshareChat(p, c) ==
  /\ proc[p].pc = "idle" /\ Shared(c)
  /\ Goto(p, At("revoke", c))
  /\ UNCHANGED <<chat, copies, issued>>

\* delete_shared_chat_by_chat_id.
WithoutCopiesOf(c) == copies \ CopiesOf(c)

\* Mutant: only the copy the chat is linked to is deleted.
RevokeCopies_Linked(p) ==
  /\ proc[p].pc = "revoke"
  /\ LET c == proc[p].chat IN
       /\ copies' = {k \in copies : k.id # chat[c].share}
       /\ Goto(p, At("unlink", c))
  /\ UNCHANGED <<chat, issued>>

\* A failure of the first call does not keep the second from running.
RevokeCopies(p) ==
  /\ proc[p].pc = "revoke"
  /\ LET c == proc[p].chat IN
       \/ /\ copies' = WithoutCopiesOf(c)
          /\ Goto(p, At("unlink", c))
       \/ /\ MayFail /\ UNCHANGED copies
          /\ Goto(p, [At("unlink", c) EXCEPT !.ok = FALSE])
  /\ UNCHANGED <<chat, issued>>

Unlink(p) ==
  /\ proc[p].pc = "unlink"
  /\ LET c == proc[p].chat IN
       \/ /\ chat[c].exists
          /\ chat' = [chat EXCEPT ![c].share = NoShare]
          /\ Reply(p, IF proc[p].ok THEN "unshared" ELSE "failed")
       \/ /\ MayFail \/ ~ chat[c].exists
          /\ UNCHANGED chat
          /\ Reply(p, "failed")
  /\ UNCHANGED <<copies, issued>>

----------------------------------------------------------------------------
(* Deletions: one chat, all of a user's, those of a folder. *)

\* The chat is read by its id alone: another user may ask for it as well.
DeleteChat(p, c) ==
  /\ proc[p].pc = "idle" /\ chat[c].exists
  /\ \E own \in BOOLEAN : Goto(p, [At("deleteRow", c) EXCEPT !.own = own])
  /\ UNCHANGED <<chat, copies, issued>>

RowsGone(C) == [c \in Chat |-> IF c \in C THEN [chat[c] EXCEPT !.exists = FALSE,
                                                               !.share = NoShare]
                                          ELSE chat[c]]

\* The row is deleted where it is the caller's; no row is not an error ...
DeleteRow(p) ==
  /\ proc[p].pc = "deleteRow"
  /\ chat' = RowsGone(IF proc[p].own THEN {proc[p].chat} ELSE {})
  /\ Goto(p, [proc[p] EXCEPT !.pc = "deleteCopies"])
  /\ UNCHANGED <<copies, issued>>

\* Mutant: the row is deleted and its copies stay.
DeleteCopies_Row(p) ==
  /\ proc[p].pc = "deleteCopies"
  /\ Reply(p, "deleted")
  /\ UNCHANGED <<chat, copies, issued>>

\* ... and the copies go, whoever has asked.
DeleteCopies(p) ==
  /\ proc[p].pc = "deleteCopies"
  /\ copies' = WithoutCopiesOf(proc[p].chat)
  /\ Reply(p, "deleted")
  /\ UNCHANGED <<chat, issued>>

\* delete_chats_by_user_id: delete_shared_chats_by_user_id lists the chats ...
DeleteAll(p) ==
  /\ proc[p].pc = "idle"
  /\ Goto(p, [At("listed", NoChat) EXCEPT !.listed = {c \in Chat : chat[c].exists}])
  /\ UNCHANGED <<chat, copies, issued>>

\* ... and deletes their copies; its failure is ignored ...
DeleteListedCopies(p) ==
  /\ proc[p].pc = "listed"
  /\ \/ copies' = {k \in copies : k.of \notin proc[p].listed}
     \/ MayFail /\ UNCHANGED copies
  /\ Goto(p, At("allRows", NoChat))
  /\ UNCHANGED <<chat, issued>>

\* ... before the rows themselves are deleted.
DeleteAllRows(p) ==
  /\ proc[p].pc = "allRows"
  /\ chat' = RowsGone(Chat)
  /\ Reply(p, "allDeleted")
  /\ UNCHANGED <<copies, issued>>

\* delete_chats_by_user_id_and_folder_id: the rows alone, whichever chats the
\* folder holds; the deletion of a folder does this once for every folder
\* below it.
DeleteFolderChats(p, C) ==
  /\ proc[p].pc = "idle" /\ C # {}
  /\ chat' = RowsGone(C)
  /\ Goto(p, Idle(NoChat, "none"))
  /\ UNCHANGED <<copies, issued>>

----------------------------------------------------------------------------

\* update_chat_by_id and the message updates: the content changes.
EditChat(p, c) ==
  /\ proc[p].pc = "idle" /\ chat[c].exists /\ chat[c].version < MaxVersion
  /\ chat' = [chat EXCEPT ![c].version = @ + 1]
  /\ Goto(p, Idle(c, "none"))
  /\ UNCHANGED <<copies, issued>>

\* A transaction raises and is rolled back; share and delete answer with an
\* error. (The steps above say where a failure does not end the handler.)
Fail(p) ==
  /\ MayFail
  /\ proc[p].pc \in {"refresh", "write", "insert", "copy", "link",
                     "deleteRow", "deleteCopies", "allRows"}
  /\ Reply(p, "failed")
  /\ UNCHANGED <<chat, copies, issued>>

Crash(p) ==
  /\ MayCrash /\ proc[p].pc # "idle"
  /\ Goto(p, Idle(NoChat, "none"))
  /\ UNCHANGED <<chat, copies, issued>>

HandlerStep(p) ==
  \/ FindCopy(p) \/ WriteCopy(p) \/ ReadForInsert(p) \/ InsertCopy(p) \/ LinkCopy(p)
  \/ RevokeCopies(p) \/ Unlink(p)
  \/ DeleteRow(p) \/ DeleteCopies(p) \/ DeleteListedCopies(p) \/ DeleteAllRows(p)

Next ==
  \E p \in Process :
       \/ \E c \in Chat : ShareChat(p, c) \/ UnshareChat(p, c) \/ DeleteChat(p, c)
                          \/ EditChat(p, c)
       \/ \E C \in SUBSET Chat : DeleteFolderChats(p, C)
       \/ DeleteAll(p) \/ HandlerStep(p) \/ Fail(p) \/ Crash(p)

Spec == Init /\ [][Next]_vars

----------------------------------------------------------------------------
(* Properties *)

\* The rows and the handlers' local variables are well formed, and every
\* copy carries a uuid that was issued to it alone.
TypeOK ==
  /\ chat \in [Chat -> ChatRow]
  /\ copies \subseteq Copy
  /\ issued \subseteq ShareId
  /\ proc \in [Process -> Handler]

\* What get_chat_by_share_id answers for a link.
Served(s) ==
  /\ \E c \in Chat : chat[c].exists /\ chat[c].share = s
  /\ \E k \in copies : k.id = s

BeingLinked(s) == \E p \in Process : proc[p].pc = "link" /\ proc[p].share = s

StaysDead(s) == ~ Served(s) /\ ~ BeingLinked(s) => ~ Served(s)'

\* A link that was taken back is dead for good: no retried share, concurrent
\* handler, crash or fault serves the same link again (the comment in
\* get_chat_by_share_id: "it is possible that the shared link was deleted").
DeadLinkStaysDead == [][\A s \in issued : StaysDead(s)]_vars

\* A link is served from a copy of the very chat that carries it: no two
\* chats have one share_id, and no two copies one id, however handlers
\* interleave.
LinkServesItsChat ==
  /\ \A c, d \in Chat : chat[c].share = chat[d].share /\ Shared(c) => c = d
  /\ \A k, m \in copies : k.id = m.id => k = m
  /\ \A c \in Chat : Shared(c) =>
       \A k \in copies : k.id = chat[c].share => k.of = c

----------------------------------------------------------------------------
(* The refinement: what a reader of a link gets to see. *)

CopyOf(s) == CHOOSE k \in copies : k.id = s

\* An id in the hand of a handler is unused until it is linked.
LinkState(s) ==
  IF Served(s) THEN [state |-> "live", chat |-> CopyOf(s).of, version |-> CopyOf(s).version]
  ELSE IF s \in issued /\ ~ BeingLinked(s) THEN [state |-> "dead"]
  ELSE [state |-> "unused"]

Links == INSTANCE SharedLinks WITH
  version <- [c \in Chat |-> chat[c].version],
  link <- [s \in ShareId |-> LinkState(s)]

\* The links handed out live as SharedLinks says, however handlers of several
\* processes interleave, fail and crash.
LinksSpec == Links!Spec
=============================================================================
