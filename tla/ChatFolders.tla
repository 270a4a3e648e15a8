----------------------------- MODULE ChatFolders -----------------------------
(***************************************************************************)
(* The folders of one user: a tree of named rows whose siblings should     *)
(* have different names, and the chats filed in them. Creating, renaming   *)
(* and moving look for a sibling of that name before they write, and take  *)
(* a look that fails for one that found none; the place a folder or a chat *)
(* is put in is not looked at; deleting walks the tree below the folder,   *)
(* one commit per row.                                                     *)
(*                                                                         *)
(* A request is one handler in flight. create_folder runs in the thread    *)
(* pool and the others in the event loop of one of the server processes:   *)
(* two requests are a creation beside another handler, or two processes.   *)
(***************************************************************************)
EXTENDS Naturals, Sequences

CONSTANTS
  Folder,      \* bound: the uuids that folders may be given
  Root,        \* the parent_id None
  Name, NoName,
  ILike(_, _), \* whether a stored name matches a name used as a pattern
  Chat,
  Request,     \* the handlers in flight at once
  MaxDepth,    \* bound: Python's recursion limit, in levels of folders
  MayFail,     \* whether a transaction may raise (and is then rolled back)
  MayCrash     \* whether a process may die between two transactions

ASSUME ConstantsAssumption ==
  /\ Root \notin Folder /\ NoName \notin Name
  /\ \A n \in Name : ILike(n, n)
  /\ MaxDepth \in Nat \ {0}
  /\ MayFail \in BOOLEAN /\ MayCrash \in BOOLEAN

VARIABLES
  folders,  \* per id: whether the row exists (yet, still), its parent and name
            \* and (auxiliary) whether it was put there after a look that
            \* failed, and whether there was such a place
  chats,    \* per chat: whether its row exists, its folder_id, and (auxiliary)
            \* whether a deletion with its folder has missed it and whether it
            \* was put where there was no folder
  req       \* per request: the handler and its local variables

vars == <<folders, chats, req>>

Place == Folder \cup {Root}
FolderRow == [state: {"unused", "live", "gone"}, parent: Place, name: Name \cup {NoName},
              unsure: BOOLEAN, adrift: BOOLEAN]
ChatRow == [exists: BOOLEAN, folder: Place, missed: BOOLEAN, adrift: BOOLEAN]

Live(f) == f \in Folder /\ folders[f].state = "live"
Shown == {f \in Folder : Live(f)} \cup {Root}
\* What a request may name as a place: a folder the client was shown at any
\* time. (The id of no folder at all is as good as that of one that is gone.)
Known == {f \in Folder : folders[f].state # "unused"} \cup {Root}
Children(f) == {g \in Folder : Live(g) /\ folders[g].parent = f}
\* get_folder_by_parent_id_and_user_id_and_name.
Taken(place, name) == \E g \in Children(place) : ILike(folders[g].name, name)
\* Its answer None: no such folder, or an error of the database.
NotFound(place, name, blind) == IF blind THEN MayFail ELSE ~ Taken(place, name)

\* blind: the look for a sibling failed; stack: the activations of
\* delete_children, each with its folder and the children it has listed and
\* not yet handled.
Frame == [folder: Folder, left: SUBSET Folder]
Handler == [pc: {"idle", "insert", "rename", "move", "delete"},
            folder: Place, place: Place, name: Name \cup {NoName}, blind: BOOLEAN,
            stack: Seq(Frame), answer: {"none", "done", "failed", "refused"}]
At(pc, f, place, name) ==
  [pc |-> pc, folder |-> f, place |-> place, name |-> name, blind |-> FALSE,
   stack |-> << >>, answer |-> "none"]
Ended(answer) == [At("idle", Root, Root, NoName) EXCEPT !.answer = answer]

NoRow == [state |-> "unused", parent |-> Root, name |-> NoName, unsure |-> FALSE,
          adrift |-> FALSE]
NoChat == [exists |-> FALSE, folder |-> Root, missed |-> FALSE, adrift |-> FALSE]

Init ==
  /\ folders = [f \in Folder |-> NoRow]
  /\ chats = [c \in Chat |-> NoChat]
  /\ req = [r \in Request |-> Ended("none")]

Goto(r, handler) == req' = [req EXCEPT ![r] = handler]
Reply(r, answer) == Goto(r, Ended(answer))
Starts(r) == req[r].pc = "idle"

----------------------------------------------------------------------------
(* create_folder, update_folder_name_by_id, update_folder_parent_id_by_id:  *)
(* a name that is found is answered 400 and nothing changes.                *)

\* The handler has looked for a sibling and goes on to write.
Looked(r, place, name, handler) ==
  \E blind \in BOOLEAN :
    NotFound(place, name, blind) /\ Goto(r, [handler EXCEPT !.blind = blind])

CreateFolder(r, name) ==
  /\ Starts(r)
  /\ Looked(r, Root, name, At("insert", Root, Root, name))
  /\ UNCHANGED <<folders, chats>>

\* Mutant: the name is lost on the way to the row.
InsertFolder_Unnamed(r) ==
  /\ req[r].pc = "insert"
  /\ \E f \in Folder :
       /\ folders[f].state = "unused"
       /\ folders' = [folders EXCEPT ![f].state = "live"]
       /\ Goto(r, Ended("done"))
  /\ UNCHANGED chats

InsertFolder(r) ==
  /\ req[r].pc = "insert"
  /\ \E f \in Folder :
       /\ folders[f].state = "unused"
       /\ folders' = [folders EXCEPT ![f] =
            [state |-> "live", parent |-> Root, name |-> req[r].name,
             unsure |-> req[r].blind, adrift |-> FALSE]]
       /\ Goto(r, Ended("done"))
  /\ UNCHANGED chats

RenameFolder(r, f, name) ==
  /\ Starts(r) /\ Live(f)
  /\ Looked(r, folders[f].parent, name, At("rename", f, Root, name))
  /\ UNCHANGED <<folders, chats>>

\* update_folder_name_by_id_and_user_id looks again, for exactly that name.
WriteName(r) ==
  /\ req[r].pc = "rename"
  /\ LET f == req[r].folder
         name == req[r].name IN
       IF Live(f) /\ \A g \in Children(folders[f].parent) : folders[g].name # name
         THEN /\ folders' = [folders EXCEPT ![f].name = name, ![f].unsure = req[r].blind]
              /\ Reply(r, "done")
         ELSE UNCHANGED folders /\ Reply(r, "failed")
  /\ UNCHANGED chats

\* Mutant: the siblings are those at the place the folder leaves.
MoveFolder_OldSiblings(r, f, place) ==
  /\ Starts(r) /\ Live(f)
  /\ \A g \in Children(folders[f].parent) \ {f} : ~ ILike(folders[g].name, folders[f].name)
  /\ Goto(r, At("move", f, place, NoName))
  /\ UNCHANGED <<folders, chats>>

\* Neither that the place exists nor that it may lie below the folder itself
\* is checked.
MoveFolder(r, f, place) ==
  /\ Starts(r) /\ Live(f)
  /\ Looked(r, place, folders[f].name, At("move", f, place, NoName))
  /\ UNCHANGED <<folders, chats>>

WriteParent(r) ==
  /\ req[r].pc = "move"
  /\ LET f == req[r].folder
         place == req[r].place IN
       IF Live(f)
         THEN /\ folders' = [folders EXCEPT ![f].parent = place, ![f].unsure = req[r].blind,
                                            ![f].adrift = place \notin Shown]
              /\ Reply(r, "done")
         ELSE UNCHANGED folders /\ Reply(r, "failed")
  /\ UNCHANGED chats

\* Whether there is such a folder is not checked.
File(c, place) ==
  chats' = [chats EXCEPT ![c] = [exists |-> TRUE, folder |-> place, missed |-> FALSE,
                                 adrift |-> place \notin Shown]]

\* update_chat_folder_id_by_id.
MoveChat(r, c, place) ==
  /\ Starts(r) /\ chats[c].exists
  /\ File(c, place)
  /\ Goto(r, Ended("none"))
  /\ UNCHANGED folders

\* import_chat, or a new chat, which is in no folder; ids are used again.
ImportChat(r, c, place) ==
  /\ Starts(r) /\ ~ chats[c].exists
  /\ File(c, place)
  /\ Goto(r, Ended("none"))
  /\ UNCHANGED folders

----------------------------------------------------------------------------
(* delete_folder_by_id_and_user_id *)

\* delete_chats_by_user_id_and_folder_id.
WithoutChatsOf(f) ==
  [c \in Chat |-> IF chats[c].folder = f THEN NoChat ELSE chats[c]]
\* It answers False when it fails, which the caller does not look at.
MissChatsOf(f) ==
  /\ MayFail
  /\ chats' = [c \in Chat |-> IF chats[c].folder = f THEN [chats[c] EXCEPT !.missed = TRUE]
                                                    ELSE chats[c]]
DeleteChatsOf(f) == chats' = WithoutChatsOf(f) \/ MissChatsOf(f)
\* What a row held that is gone does not matter.
WithoutRow(f) == [folders EXCEPT ![f] = [NoRow EXCEPT !.state = "gone"]]

Push(stack, f) == Append(stack, [folder |-> f, left |-> Children(f)])
Top(r) == req[r].stack[Len(req[r].stack)]
Below(r) == SubSeq(req[r].stack, 1, Len(req[r].stack) - 1)
Deleting(r, stack) ==
  Goto(r, [At("delete", req[r].folder, Root, NoName) EXCEPT !.stack = stack])

\* The chats of the folder, then the list of its children.
DeleteFolder(r, f) ==
  /\ Starts(r) /\ Live(f)
  /\ DeleteChatsOf(f)
  /\ Goto(r, [At("delete", f, Root, NoName) EXCEPT !.stack = Push(<< >>, f)])
  /\ UNCHANGED folders

\* Mutant: only the chats of the folder itself are deleted.
DeleteChild_KeepChats(r) ==
  /\ req[r].pc = "delete" /\ Len(req[r].stack) < MaxDepth
  /\ \E g \in Top(r).left :
       Deleting(r, Push(Append(Below(r), [Top(r) EXCEPT !.left = @ \ {g}]), g))
  /\ UNCHANGED <<folders, chats>>

\* The next child: its chats, then its own children.
DeleteChild(r) ==
  /\ req[r].pc = "delete" /\ Len(req[r].stack) < MaxDepth
  /\ \E g \in Top(r).left :
       /\ DeleteChatsOf(g)
       /\ Deleting(r, Push(Append(Below(r), [Top(r) EXCEPT !.left = @ \ {g}]), g))
  /\ UNCHANGED folders

\* The walk around a cycle of folders ends at the recursion limit; the error
\* is caught and answered as a failed deletion, the chats met are deleted.
RecursionLimit(r) ==
  /\ req[r].pc = "delete" /\ Len(req[r].stack) = MaxDepth /\ Top(r).left # {}
  /\ Reply(r, "refused")
  /\ UNCHANGED <<folders, chats>>

\* Back in the activation above: the row of a child that is gone by now
\* raises.
DeleteChildRow(r) ==
  /\ req[r].pc = "delete" /\ Top(r).left = {} /\ Len(req[r].stack) > 1
  /\ IF Live(Top(r).folder)
       THEN folders' = WithoutRow(Top(r).folder) /\ Deleting(r, Below(r))
       ELSE UNCHANGED folders /\ Reply(r, "failed")
  /\ UNCHANGED chats

\* Mutant: the row goes while children are left.
DeleteOwnRow_First(r) ==
  /\ req[r].pc = "delete" /\ Len(req[r].stack) = 1
  /\ folders' = WithoutRow(req[r].folder)
  /\ Reply(r, "done")
  /\ UNCHANGED chats

DeleteOwnRow(r) ==
  /\ req[r].pc = "delete" /\ Top(r).left = {} /\ Len(req[r].stack) = 1
  /\ folders' = WithoutRow(req[r].folder)
  /\ Reply(r, "done")
  /\ UNCHANGED chats

----------------------------------------------------------------------------

\* A transaction raises: every handler ends with an error.
Fail(r) ==
  /\ MayFail /\ req[r].pc # "idle"
  /\ Reply(r, "failed")
  /\ UNCHANGED <<folders, chats>>

Crash(r) ==
  /\ MayCrash /\ req[r].pc # "idle"
  /\ Goto(r, Ended("none"))
  /\ UNCHANGED <<folders, chats>>

HandlerStep(r) ==
  \/ InsertFolder(r) \/ WriteName(r) \/ WriteParent(r)
  \/ DeleteChild(r) \/ RecursionLimit(r) \/ DeleteChildRow(r) \/ DeleteOwnRow(r)

Next ==
  \E r \in Request :
    \/ \E name \in Name : CreateFolder(r, name)
    \/ \E f \in Folder :
         \/ \E name \in Name : RenameFolder(r, f, name)
         \/ \E place \in Known : MoveFolder(r, f, place)
         \/ DeleteFolder(r, f)
    \/ \E c \in Chat, place \in Known : MoveChat(r, c, place) \/ ImportChat(r, c, place)
    \/ HandlerStep(r) \/ Fail(r) \/ Crash(r)

Spec == Init /\ [][Next]_vars

----------------------------------------------------------------------------
(* Properties *)

\* Rows and handlers are well formed, and a row that exists has a name.
TypeOK ==
  /\ folders \in [Folder -> FolderRow]
  /\ \A f \in Folder : Live(f) => folders[f].name \in Name
  /\ chats \in [Chat -> ChatRow]
  /\ req \in [Request -> Handler]

\* Two folders in one place do not match each other's name ("Folder already
\* exists" is what create, rename and move answer otherwise), unless one of
\* them got its name or its place after a look that failed; a later rename or
\* move whose look succeeds makes up for it.
SiblingsDistinct ==
  \A f, g \in Folder :
    f # g /\ Live(f) /\ Live(g) /\ folders[f].parent = folders[g].parent
      /\ ~ folders[f].unsure /\ ~ folders[g].unsure
      => ~ (ILike(folders[f].name, folders[g].name) /\ ILike(folders[g].name, folders[f].name))

\* The place of a folder exists, also half way through a deletion that fails
\* or crashes, since the walk deletes from the leaves up; unless a request has
\* put it where there was no folder.
ParentsLive ==
  \A f \in Folder : Live(f) => folders[f].parent \in Shown \/ folders[f].adrift

\* A chat that exists is in a list of the user's, those outside of folders or
\* those of a folder that exists, unless the deletion of the chats of its
\* folder failed and went unnoticed, or a request has put it where there was
\* no folder: no crash, and no failure of another step, takes chats out of
\* sight ("Delete all chats in the folder").
ChatsListed ==
  \A c \in Chat :
    chats[c].exists => chats[c].folder \in Shown \/ chats[c].missed \/ chats[c].adrift

\* A deletion, however it ends, leaves nothing where the user cannot reach it.
NothingOutOfReach == ParentsLive /\ ChatsListed
=============================================================================
