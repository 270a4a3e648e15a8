------------------------------- MODULE ChatTags -------------------------------
(***************************************************************************)
(* The tags of one user's chats. A chat carries the ids of its tags in its *)
(* row; what the user is shown are the rows of the tag table, which are    *)
(* inserted when a tag is first used and deleted when a count of the       *)
(* chats that carry it says that it is no longer. The id of a tag is made  *)
(* from its name (lower case, "_" for a blank), but an imported chat       *)
(* brings whatever its row says, which counts and searches do not find.    *)
(*                                                                         *)
(* The handlers are coroutines without an await, so one server process     *)
(* runs one at a time. A step is one call of the database, each with a     *)
(* transaction of its own; the steps of processes interleave. The tag      *)
(* "none", which has no row, is left out.                                  *)
(***************************************************************************)
EXTENDS FiniteSets, Naturals

CONSTANTS
  Chat, NoChat,
  Tag, NoTag,   \* the ids of tags
  Given,        \* what a chat's row may have for a tag
  Id,           \* the tag id made from it
  Process,      \* the server processes
  MayFail,      \* whether a call may fail, or a process die between two
  MaxRequests   \* bound: requests made

ASSUME ConstantsAssumption ==
  /\ IsFiniteSet(Chat)
  /\ NoChat \notin Chat /\ NoTag \notin Tag
  /\ Tag \subseteq Given /\ Id \in [Given -> Tag] /\ \A t \in Tag : Id[t] = t
  /\ MayFail \in BOOLEAN /\ MaxRequests \in Nat

VARIABLES
  chat,     \* per chat: its row
  rows,     \* the tags that have a row
  proc,     \* per process: the handler it runs
  requests

vars == <<chat, rows, proc, requests>>

ChatRow == [row: {"new", "there", "gone"}, archived: BOOLEAN, tags: SUBSET Given]
Gone == [row |-> "gone", archived |-> FALSE, tags |-> {}]

Op == {"none", "add", "remove", "clear", "update", "archive", "import",
       "delete", "search", "list"}
Pc == {"idle", "detach", "toggle", "each", "drop", "insert", "attach"}
\* tags: those the handler is about (history); check, add: those that are left
\* to count the chats of, and to add; tag: the one in hand; clean (history):
\* no call of the handler has failed.
Handler == [op: Op, pc: Pc, chat: Chat \cup {NoChat}, tags: SUBSET Tag,
            check: SUBSET Tag, add: SUBSET Tag, tag: Tag \cup {NoTag}, clean: BOOLEAN]
About(op, pc, c, check, add) ==
  [op |-> op, pc |-> pc, chat |-> c, tags |-> check \cup add,
   check |-> check, add |-> add, tag |-> NoTag, clean |-> TRUE]
Idle == About("none", "idle", NoChat, {}, {})

There(c) == chat[c].row = "there"
Carries(c, t) == There(c) /\ t \in chat[c].tags
\* The chat has the tag, perhaps under another spelling than its id.
Spelt(c, t) == {g \in chat[c].tags : Id[g] = t}
Bears(c, t) == There(c) /\ Spelt(c, t) # {}
Ids(T) == {Id[g] : g \in T}
InUse(t) == \E c \in Chat : Carries(c, t) /\ ~ chat[c].archived

\* Some chats with their tags, and the rows of the tags in use; others have
\* their row too if a chat has them, archived with all, or imported.
Init ==
  /\ chat \in [Chat -> ChatRow]
  /\ \A c \in Chat : ~ There(c) => chat[c].row = "new" /\ chat[c].tags = {} /\ ~ chat[c].archived
  /\ rows \in SUBSET {t \in Tag : \E c \in Chat : Bears(c, t)}
  /\ \A t \in Tag : InUse(t) => t \in rows
  /\ proc = [p \in Process |-> Idle]
  /\ requests = 0

Is(p, pc) == proc[p].pc = pc
Goto(p, h) == proc' = [proc EXCEPT ![p] = h]
Each(p) == [proc[p] EXCEPT !.pc = "each", !.tag = NoTag]
Failing(h) == [h EXCEPT !.clean = FALSE]
Return(p) == Goto(p, Idle)

Request(p) == Is(p, "idle") /\ requests < MaxRequests /\ requests' = requests + 1
Starts(p, h) == Request(p) /\ Goto(p, h) /\ UNCHANGED <<chat, rows>>

----------------------------------------------------------------------------
(* The handlers read the chat and go on with the tags they found: a tag     *)
(* under two spellings they go over twice, which is one of the two here.    *)

AddTag(p, c, t) ==
  There(c) /\ t \notin chat[c].tags /\ Starts(p, About("add", "each", c, {}, {t}))

RemoveTag(p, c, t) == There(c) /\ Starts(p, About("remove", "detach", c, {t}, {}))

ClearTags(p, c) == There(c) /\ Starts(p, About("clear", "detach", c, Ids(chat[c].tags), {}))

\* The tags a model has made up for the chat.
UpdateTags(p, c, T) == There(c) /\ Starts(p, About("update", "detach", c, Ids(chat[c].tags), T))

ArchiveChat(p, c) == There(c) /\ Starts(p, About("archive", "toggle", c, {}, {}))

DeleteChat(p, c) == There(c) /\ Starts(p, About("delete", "each", c, Ids(chat[c].tags), {}))

\* The deletion of another user's chat, which succeeds for administrators: the
\* tags of that chat are counted, and dropped, among the user's own.
DeleteForeignChat(p, T) == Starts(p, About("delete", "each", NoChat, T, {}))

\* A page of search results for tag:t, or the list of the chats with a tag.
SearchTag(p, t) == Starts(p, About("search", "each", NoChat, {t}, {}))
ListTag(p, t) == Starts(p, About("list", "each", NoChat, {t}, {}))

\* The row of an imported chat keeps the tags as they are given; their rows
\* are looked for, and inserted, by the ids made from them.
ImportChat(p, c, T) ==
  /\ Request(p) /\ chat[c].row = "new"
  /\ chat' = [chat EXCEPT ![c] = [row |-> "there", archived |-> FALSE, tags |-> T]]
  /\ Goto(p, About("import", "each", c, {}, Ids(T)))
  /\ UNCHANGED rows

\* Requests of one call, which leave the tags alone: all chats archived, and
\* those of a folder, or all, deleted.
ArchiveAll(p) ==
  /\ Request(p)
  /\ chat' = [c \in Chat |-> IF There(c) THEN [chat[c] EXCEPT !.archived = TRUE] ELSE chat[c]]
  /\ UNCHANGED <<rows, proc>>

DeleteChats(p, C) ==
  /\ Request(p) /\ C # {} /\ \A c \in C : There(c)
  /\ chat' = [c \in Chat |-> IF c \in C THEN Gone ELSE chat[c]]
  /\ UNCHANGED <<rows, proc>>

----------------------------------------------------------------------------
(* The calls. *)

\* Tags are taken off the chat, in one call: all, or what is spelt as the id
\* to be removed. That it fails, also because the chat is gone, is ignored.
Detach(p) ==
  LET c == proc[p].chat
      off == IF proc[p].op = "remove" THEN proc[p].check ELSE Given IN
  /\ Is(p, "detach")
  /\ \/ /\ There(c)
        /\ chat' = [chat EXCEPT ![c].tags = @ \ off]
        /\ Goto(p, Each(p))
     \/ /\ MayFail \/ ~ There(c)
        /\ Goto(p, Failing(Each(p)))
        /\ UNCHANGED chat
  /\ UNCHANGED <<rows, requests>>

\* Mutant: unarchiving does not look for the rows.
Toggle_RowsForgotten(p) ==
  LET c == proc[p].chat IN
  /\ Is(p, "toggle") /\ There(c)
  /\ chat' = [chat EXCEPT ![c].archived = ~ @]
  /\ Goto(p, About("archive", "each", c, IF chat[c].archived THEN {} ELSE Ids(chat[c].tags), {}))
  /\ UNCHANGED <<rows, requests>>

\* Once archived, the chat no longer counts for its tags; unarchived, they must
\* have rows again.
Toggle(p) ==
  LET c == proc[p].chat IN
  /\ Is(p, "toggle")
  /\ \/ /\ There(c)
        /\ chat' = [chat EXCEPT ![c].archived = ~ @]
        /\ Goto(p, IF chat[c].archived THEN About("archive", "each", c, {}, Ids(chat[c].tags))
                                       ELSE About("archive", "each", c, Ids(chat[c].tags), {}))
     \/ /\ MayFail \/ ~ There(c)
        /\ Return(p)
        /\ UNCHANGED chat
  /\ UNCHANGED <<rows, requests>>

\* The chats that count, by the id of the tag: a list by tag has the archived
\* ones too.
Counted(p, t) == {c \in Chat : Carries(c, t) /\ (proc[p].op = "list" \/ ~ chat[c].archived)}

\* Mutant: the chat that is about to be deleted is taken for deleted.
Unused_AlreadyGone(p, t) == Cardinality(Counted(p, t)) = 0

\* A chat that is about to be deleted still counts.
Unused(p, t) == Cardinality(Counted(p, t)) = (IF proc[p].op = "delete" THEN 1 ELSE 0)

Count(p) ==
  /\ Is(p, "each")
  /\ \E t \in proc[p].check :
       LET h == [proc[p] EXCEPT !.check = @ \ {t}] IN
       Goto(p, IF Unused(p, t) THEN [h EXCEPT !.pc = "drop", !.tag = t] ELSE h)
  /\ UNCHANGED <<chat, rows, requests>>

\* That the row cannot be deleted is ignored.
Drop(p) ==
  /\ Is(p, "drop")
  /\ \/ rows' = rows \ {proc[p].tag} /\ Goto(p, Each(p))
     \/ MayFail /\ UNCHANGED rows /\ Goto(p, Failing(Each(p)))
  /\ UNCHANGED <<chat, requests>>

\* Whether the handler puts the tag on the chat, or it is there already.
Attaches(p) == proc[p].op \in {"add", "update"}
Added(p, t) ==
  IF Attaches(p) THEN [proc[p] EXCEPT !.pc = "attach", !.tag = t, !.add = @ \ {t}]
                 ELSE [Each(p) EXCEPT !.add = @ \ {t}]

Find(p) ==
  /\ Is(p, "each") /\ proc[p].check = {}
  /\ \E t \in proc[p].add :
       Goto(p, IF t \in rows THEN Added(p, t)
                             ELSE [proc[p] EXCEPT !.pc = "insert", !.tag = t])
  /\ UNCHANGED <<chat, rows, requests>>

\* An insert that fails, also because there is a row by now, leaves the handler
\* without a row, and the tag is not put on the chat.
Insert(p) ==
  LET t == proc[p].tag IN
  /\ Is(p, "insert")
  /\ \/ /\ t \notin rows /\ rows' = rows \cup {t}
        /\ Goto(p, Added(p, t))
     \/ /\ MayFail \/ t \in rows
        /\ Goto(p, Failing([Each(p) EXCEPT !.add = @ \ {t}]))
        /\ UNCHANGED rows
  /\ UNCHANGED <<chat, requests>>

\* Mutant: the row is written, whether or not it is there still.
Attach_Upsert(p) ==
  /\ Is(p, "attach")
  /\ chat' = [chat EXCEPT ![proc[p].chat].tags = @ \cup {proc[p].tag}]
  /\ Goto(p, Each(p))
  /\ UNCHANGED <<rows, requests>>

Attach(p) ==
  LET c == proc[p].chat IN
  /\ Is(p, "attach")
  /\ \/ /\ There(c)
        /\ chat' = [chat EXCEPT ![c].tags = @ \cup {proc[p].tag}]
        /\ Goto(p, Each(p))
     \/ /\ MayFail \/ ~ There(c)
        /\ Goto(p, Failing(Each(p)))
        /\ UNCHANGED chat
  /\ UNCHANGED <<rows, requests>>

AllDone(p) == Is(p, "each") /\ proc[p].check = {} /\ proc[p].add = {}

\* The tags have been dropped when the chat is deleted.
DeleteRow(p) ==
  LET c == proc[p].chat IN
  /\ AllDone(p) /\ proc[p].op = "delete"
  /\ \/ chat' = [d \in Chat |-> IF d = c THEN Gone ELSE chat[d]]
     \/ MayFail /\ UNCHANGED chat
  /\ Return(p)
  /\ UNCHANGED <<rows, requests>>

Answer(p) ==
  /\ AllDone(p) /\ proc[p].op # "delete"
  /\ Return(p)
  /\ UNCHANGED <<chat, rows, requests>>

\* A query raises, or the process dies.
BreakOff(p) ==
  /\ MayFail /\ ~ Is(p, "idle")
  /\ Return(p)
  /\ UNCHANGED <<chat, rows, requests>>

----------------------------------------------------------------------------

ChatRequest(p, c) ==
  \/ ClearTags(p, c) \/ ArchiveChat(p, c) \/ DeleteChat(p, c)
  \/ \E t \in Tag : AddTag(p, c, t) \/ RemoveTag(p, c, t)
  \/ \E T \in SUBSET Tag : UpdateTags(p, c, T)
  \/ \E T \in SUBSET Given : ImportChat(p, c, T)

UserRequest(p) ==
  \/ \E t \in Tag : SearchTag(p, t) \/ ListTag(p, t)
  \/ \E T \in SUBSET Tag : DeleteForeignChat(p, T)
  \/ ArchiveAll(p)
  \/ \E C \in SUBSET Chat : DeleteChats(p, C)

HandlerStep(p) ==
  \/ Detach(p) \/ Toggle(p) \/ Count(p) \/ Drop(p) \/ Find(p) \/ Insert(p) \/ Attach(p)
  \/ DeleteRow(p) \/ Answer(p) \/ BreakOff(p)

Next == \E p \in Process : HandlerStep(p) \/ UserRequest(p) \/ \E c \in Chat : ChatRequest(p, c)

Spec == Init /\ [][Next]_vars

----------------------------------------------------------------------------

\* The rows and the handlers are well formed: a chat that is not there carries
\* no tag, and the handlers that write a tag have a chat and a tag in hand.
TypeOK ==
  /\ chat \in [Chat -> ChatRow]
  /\ \A c \in Chat : There(c) \/ chat[c].tags = {}
  /\ rows \subseteq Tag
  /\ proc \in [Process -> Handler]
  /\ \A p \in Process :
       /\ proc[p].pc \in {"detach", "toggle", "attach"} => proc[p].chat \in Chat
       /\ proc[p].pc \in {"drop", "insert", "attach"} => proc[p].tag \in Tag
  /\ requests \in 0 .. MaxRequests
=============================================================================
