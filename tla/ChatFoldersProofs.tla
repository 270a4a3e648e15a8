-------------------------- MODULE ChatFoldersProofs --------------------------
(***************************************************************************)
(* Rows and handlers stay well formed. With one request at a time siblings *)
(* have different names, for any folders, names and matching: what the     *)
(* look for a sibling has found is still so when the handler writes. And   *)
(* no folder and no chat gets out of reach: a deletion removes the row of  *)
(* a folder when all below it is gone, which is said of every folder of    *)
(* its stack at once.                                                      *)
(***************************************************************************)
EXTENDS ChatFolders, SequenceTheorems, TLAPS

----------------------------------------------------------------------------
(* Well-formedness: a handler that is to write a name has one, and a        *)
(* deletion under way is at some folder.                                    *)

NamesGiven == \A r \in Request : req[r].pc \in {"insert", "rename"} => req[r].name \in Name
InAFolder == \A r \in Request : req[r].pc = "delete" => req[r].stack # << >>
TypeInv == TypeOK /\ NamesGiven /\ InAFolder

LEMMA Handlers ==
  /\ \A a \in {"none", "done", "failed", "refused"} :
       Ended(a) \in Handler /\ Ended(a).pc = "idle"
  /\ \A pc \in {"idle", "insert", "rename", "move", "delete"},
        f \in Place, place \in Place, name \in Name \cup {NoName} :
       /\ At(pc, f, place, name) \in Handler /\ At(pc, f, place, name).pc = pc
       /\ At(pc, f, place, name).folder = f /\ At(pc, f, place, name).place = place
       /\ At(pc, f, place, name).name = name
  /\ \A f \in Place, s \in Seq(Frame) :
       /\ [At("delete", f, Root, NoName) EXCEPT !.stack = s] \in Handler
       /\ [At("delete", f, Root, NoName) EXCEPT !.stack = s].pc = "delete"
       /\ [At("delete", f, Root, NoName) EXCEPT !.stack = s].folder = f
       /\ [At("delete", f, Root, NoName) EXCEPT !.stack = s].stack = s
<1>1. Root \in Place /\ << >> \in Seq(Frame)
  BY DEF Place
<1>2. \A pc \in {"idle", "insert", "rename", "move", "delete"},
         f \in Place, place \in Place, name \in Name \cup {NoName} :
        /\ At(pc, f, place, name) \in Handler /\ At(pc, f, place, name).pc = pc
        /\ At(pc, f, place, name).folder = f /\ At(pc, f, place, name).place = place
        /\ At(pc, f, place, name).name = name
  BY <1>1 DEF At, Handler
<1>3. \A a \in {"none", "done", "failed", "refused"} :
        Ended(a) \in Handler /\ Ended(a).pc = "idle"
  BY <1>1, <1>2 DEF Ended, Handler
<1>4. \A f \in Place, s \in Seq(Frame) :
       /\ [At("delete", f, Root, NoName) EXCEPT !.stack = s] \in Handler
       /\ [At("delete", f, Root, NoName) EXCEPT !.stack = s].pc = "delete"
       /\ [At("delete", f, Root, NoName) EXCEPT !.stack = s].folder = f
       /\ [At("delete", f, Root, NoName) EXCEPT !.stack = s].stack = s
  <2> SUFFICES ASSUME NEW f \in Place, NEW s \in Seq(Frame)
               PROVE  /\ [At("delete", f, Root, NoName) EXCEPT !.stack = s] \in Handler
                      /\ [At("delete", f, Root, NoName) EXCEPT !.stack = s].pc = "delete"
                      /\ [At("delete", f, Root, NoName) EXCEPT !.stack = s].folder = f
                      /\ [At("delete", f, Root, NoName) EXCEPT !.stack = s].stack = s
    OBVIOUS
  <2>1. At("delete", f, Root, NoName) \in Handler
    BY <1>1, <1>2
  <2>2. At("delete", f, Root, NoName).pc = "delete" /\ At("delete", f, Root, NoName).folder = f
    BY <1>1, <1>2
  <2> DEFINE h == At("delete", f, Root, NoName)
  <2>3. h \in Handler /\ h.pc = "delete" /\ h.folder = f
    BY <2>1, <2>2
  <2> HIDE DEF h
  <2>4. /\ [h EXCEPT !.stack = s] \in Handler /\ [h EXCEPT !.stack = s].pc = "delete"
        /\ [h EXCEPT !.stack = s].folder = f /\ [h EXCEPT !.stack = s].stack = s
    BY <2>3 DEF Handler
  <2> QED
    BY <2>4 DEF h
<1> QED
  BY <1>2, <1>3, <1>4

\* The stack of delete_children, one activation deeper and one back.
LEMMA PushFrame ==
  ASSUME NEW s \in Seq(Frame), NEW f \in Folder
  PROVE  /\ Push(s, f) \in Seq(Frame) /\ Len(Push(s, f)) = Len(s) + 1
         /\ \A i \in 1 .. Len(s) : Push(s, f)[i] = s[i]
         /\ Push(s, f)[Len(s) + 1] = [folder |-> f, left |-> Children(f)]
<1>1. [folder |-> f, left |-> Children(f)] \in Frame
  BY DEF Frame, Children
<1> QED
  BY <1>1 DEF Push

LEMMA PopFrame ==
  ASSUME NEW s \in Seq(Frame), s # << >>
  PROVE  LET t == SubSeq(s, 1, Len(s) - 1) IN
         /\ t \in Seq(Frame) /\ Len(s) \in Nat \ {0} /\ Len(t) = Len(s) - 1
         /\ \A i \in 1 .. Len(t) : t[i] = s[i]
         /\ s[Len(s)] \in Frame /\ s[1] \in Frame
<1> DEFINE n == Len(s)
           m == n - 1
           t == SubSeq(s, 1, m)
<1>1. /\ n \in Nat \ {0} /\ m \in Nat /\ 1 \in Int /\ m \in Int
      /\ \A i \in 1 .. m : i \in 1 .. n
  OBVIOUS
<1>2. \A i \in 1 .. n : s[i] \in Frame
  BY ElementOfSeq
<1>3. \A i \in 1 .. m : s[i] \in Frame
  BY <1>1, <1>2
<1>4. n \in 1 .. n /\ 1 \in 1 .. n
  BY <1>1
<1> HIDE DEF m
<1>5. /\ t \in Seq(Frame)
      /\ Len(t) = IF 1 <= m THEN m - 1 + 1 ELSE 0
      /\ \A i \in 1 .. m - 1 + 1 : t[i] = s[1 + i - 1]
  BY <1>1, <1>3, SubSeqProperties
<1> HIDE DEF t, n
<1>6. Len(t) = m
  BY <1>1, <1>5
<1>7. \A i \in 1 .. m : i \in 1 .. m - 1 + 1 /\ 1 + i - 1 = i
  BY <1>1
<1>8. \A i \in 1 .. m : t[i] = s[i]
  BY <1>5, <1>7
<1> QED
  BY <1>1, <1>2, <1>4, <1>5, <1>6, <1>8 DEF t, m, n

LEMMA NextChild ==
  ASSUME NEW s \in Seq(Frame), s # << >>, NEW g \in s[Len(s)].left
  PROVE  LET t == Push(Append(SubSeq(s, 1, Len(s) - 1), [s[Len(s)] EXCEPT !.left = @ \ {g}]), g)
         IN /\ g \in Folder
            /\ t \in Seq(Frame) /\ Len(t) = Len(s) + 1 /\ Len(s) \in Nat \ {0}
            /\ \A i \in 1 .. Len(s) - 1 : t[i] = s[i]
            /\ t[Len(s)].folder = s[Len(s)].folder /\ t[Len(s)].left = s[Len(s)].left \ {g}
            /\ t[Len(t)].folder = g /\ t[Len(t)].left = Children(g)
<1> DEFINE n == Len(s)
           e == [s[n] EXCEPT !.left = @ \ {g}]
           u == SubSeq(s, 1, n - 1)
<1>1. /\ u \in Seq(Frame) /\ n \in Nat \ {0} /\ Len(u) = n - 1
      /\ \A i \in 1 .. Len(u) : u[i] = s[i]
      /\ s[n] \in Frame
  BY PopFrame
<1>2. /\ g \in Folder /\ e \in Frame /\ e.folder = s[n].folder /\ e.left = s[n].left \ {g}
  BY <1>1 DEF Frame
<1> HIDE DEF n, e, u
<1> DEFINE v == Append(u, e)
<1>3. /\ v \in Seq(Frame) /\ Len(v) = n /\ \A i \in 1 .. n - 1 : v[i] = s[i]
      /\ v[n] = e
  BY <1>1, <1>2
<1> HIDE DEF v
<1>4. /\ Push(v, g) \in Seq(Frame) /\ Len(Push(v, g)) = n + 1
      /\ \A i \in 1 .. n : Push(v, g)[i] = v[i]
      /\ Push(v, g)[n + 1] = [folder |-> g, left |-> Children(g)]
  BY <1>2, <1>3, PushFrame
<1>5. /\ g \in Folder /\ Push(v, g) \in Seq(Frame) /\ Len(Push(v, g)) = n + 1 /\ n \in Nat \ {0}
      /\ \A i \in 1 .. n - 1 : Push(v, g)[i] = s[i]
      /\ Push(v, g)[n].folder = s[n].folder /\ Push(v, g)[n].left = s[n].left \ {g}
      /\ Push(v, g)[n + 1].folder = g /\ Push(v, g)[n + 1].left = Children(g)
  BY <1>1, <1>2, <1>3, <1>4
<1> QED
  BY <1>5 DEF n, e, u, v

\* A handler goes on.
LEMMA GotoTyped ==
  ASSUME TypeInv, NEW r \in Request, NEW h \in Handler, Goto(r, h),
         h.pc \in {"insert", "rename"} => h.name \in Name,
         h.pc = "delete" => h.stack # << >>
  PROVE  /\ req' \in [Request -> Handler] /\ NamesGiven' /\ InAFolder'
         /\ req'[r] = h /\ \A q \in Request \ {r} : req'[q] = req[q]
<1>1. /\ req' \in [Request -> Handler] /\ req'[r] = h
      /\ \A q \in Request \ {r} : req'[q] = req[q]
  BY DEF Goto, TypeInv, TypeOK
<1> QED
  BY <1>1 DEF TypeInv, NamesGiven, InAFolder

\* No chat that a deletion has not missed is left in the folder.
ChatsGone(f) == \A c \in Chat : chats[c].exists /\ chats[c].folder = f => chats[c].missed

\* The chats of a folder are deleted, or missed.
LEMMA ChatsDeleted ==
  ASSUME TypeInv, NEW f, DeleteChatsOf(f)
  PROVE  /\ chats' \in [Chat -> ChatRow]
         /\ \A c \in Chat : chats'[c].exists =>
              /\ chats[c].exists /\ chats'[c].folder = chats[c].folder
              /\ chats'[c].adrift = chats[c].adrift
              /\ chats[c].missed => chats'[c].missed
         /\ ChatsGone(f)'
<1>1. chats \in [Chat -> ChatRow]
  BY DEF TypeInv, TypeOK
<1>2. CASE chats' = WithoutChatsOf(f)
  BY <1>1, <1>2 DEF WithoutChatsOf, ChatRow, ChatsGone, NoChat, Place
<1>3. CASE MissChatsOf(f)
  BY <1>1, <1>3 DEF MissChatsOf, ChatRow, ChatsGone
<1> QED
  BY <1>2, <1>3 DEF DeleteChatsOf

\* The row of a folder goes.
LEMMA RowDeleted ==
  ASSUME TypeInv, NEW f \in Folder, folders' = WithoutRow(f)
  PROVE  /\ folders' \in [Folder -> FolderRow]
         /\ \A g \in Folder : /\ Live(g)' <=> Live(g) /\ g # f
                              /\ g # f => folders'[g] = folders[g]
<1>1. folders \in [Folder -> FolderRow]
  BY DEF TypeInv, TypeOK
<1> QED
  BY <1>1 DEF WithoutRow, FolderRow, Live, NoRow, Place

LEMMA DeleteFolderMoves ==
  ASSUME TypeInv, NEW r \in Request, NEW f \in Folder, DeleteFolder(r, f)
  PROVE  \E h \in Handler :
           /\ Goto(r, h) /\ h.pc = "delete" /\ h.folder = f
           /\ Len(h.stack) = 1 /\ h.stack[1].folder = f /\ h.stack[1].left = Children(f)
           /\ DeleteChatsOf(f) /\ UNCHANGED folders
<1> DEFINE s == Push(<< >>, f)
           h == [At("delete", f, Root, NoName) EXCEPT !.stack = s]
<1>1. /\ s \in Seq(Frame) /\ Len(s) = 1
      /\ s[1].folder = f /\ s[1].left = Children(f)
  <2>1. << >> \in Seq(Frame) /\ Len(<< >>) = 0
    OBVIOUS
  <2>2. /\ s \in Seq(Frame) /\ Len(s) = 0 + 1
        /\ s[0 + 1] = [folder |-> f, left |-> Children(f)]
    BY <2>1, PushFrame
  <2> QED
    BY <2>2
<1>2. h \in Handler /\ h.pc = "delete" /\ h.folder = f /\ h.stack = s
  BY <1>1, Handlers DEF Place
<1>3. Goto(r, h) /\ DeleteChatsOf(f) /\ UNCHANGED folders
  BY DEF DeleteFolder
<1> HIDE DEF s, h
<1> QED
  BY <1>1, <1>2, <1>3

LEMMA DeleteChildMoves ==
  ASSUME TypeInv, NEW r \in Request, DeleteChild(r)
  PROVE  \E g \in Folder, h \in Handler :
           LET s == req[r].stack
               n == Len(s)
               t == h.stack IN
           /\ req[r].pc = "delete" /\ s \in Seq(Frame) /\ n \in Nat \ {0} /\ g \in s[n].left
           /\ Goto(r, h) /\ h.pc = "delete" /\ h.folder = req[r].folder
           /\ t \in Seq(Frame) /\ Len(t) = n + 1 /\ \A i \in 1 .. n - 1 : t[i] = s[i]
           /\ t[n].folder = s[n].folder /\ t[n].left = s[n].left \ {g}
           /\ t[n + 1].folder = g /\ t[n + 1].left = Children(g)
           /\ DeleteChatsOf(g) /\ UNCHANGED folders
<1> DEFINE s == req[r].stack
           n == Len(s)
<1>1. req[r].pc = "delete" /\ s \in Seq(Frame) /\ s # << >> /\ req[r].folder \in Place
  BY DEF DeleteChild, TypeInv, TypeOK, Handler, InAFolder
<1>2. PICK g \in s[n].left :
        /\ DeleteChatsOf(g) /\ UNCHANGED folders
        /\ Deleting(r, Push(Append(SubSeq(s, 1, n - 1), [s[n] EXCEPT !.left = @ \ {g}]), g))
  BY DEF DeleteChild, Top, Below
<1> DEFINE t == Push(Append(SubSeq(s, 1, n - 1), [s[n] EXCEPT !.left = @ \ {g}]), g)
           h == [At("delete", req[r].folder, Root, NoName) EXCEPT !.stack = t]
<1>3. /\ g \in Folder
      /\ t \in Seq(Frame) /\ Len(t) = n + 1 /\ n \in Nat \ {0}
      /\ \A i \in 1 .. n - 1 : t[i] = s[i]
      /\ t[n].folder = s[n].folder /\ t[n].left = s[n].left \ {g}
      /\ t[n + 1].folder = g /\ t[n + 1].left = Children(g)
  <2> HIDE DEF s
  <2>1. /\ g \in Folder
        /\ t \in Seq(Frame) /\ Len(t) = n + 1 /\ n \in Nat \ {0}
        /\ \A i \in 1 .. n - 1 : t[i] = s[i]
        /\ t[n].folder = s[n].folder /\ t[n].left = s[n].left \ {g}
        /\ t[Len(t)].folder = g /\ t[Len(t)].left = Children(g)
    BY <1>1, NextChild
  <2> HIDE DEF t
  <2> QED
    BY <2>1
<1>4. h \in Handler /\ h.pc = "delete" /\ h.folder = req[r].folder /\ h.stack = t
  BY <1>1, <1>3, Handlers
<1>5. Goto(r, h)
  BY <1>2 DEF Deleting
<1> HIDE DEF t, h
<1> QED
  BY <1>1, <1>2, <1>3, <1>4, <1>5

LEMMA DeleteRowMoves ==
  ASSUME TypeInv, NEW r \in Request, DeleteChildRow(r)
  PROVE  \E h \in Handler :
           LET s == req[r].stack
               n == Len(s)
               t == h.stack IN
           /\ req[r].pc = "delete" /\ s \in Seq(Frame) /\ Goto(r, h) /\ UNCHANGED chats
           /\ \/ h.pc = "idle" /\ UNCHANGED folders
              \/ /\ n \in Nat /\ n > 1 /\ s[n].left = {} /\ s[n].folder \in Folder
                 /\ h.pc = "delete" /\ h.folder = req[r].folder
                 /\ t \in Seq(Frame) /\ Len(t) = n - 1 /\ \A i \in 1 .. n - 1 : t[i] = s[i]
                 /\ folders' = WithoutRow(s[n].folder)
<1> DEFINE s == req[r].stack
           n == Len(s)
           t == SubSeq(s, 1, n - 1)
           h == [At("delete", req[r].folder, Root, NoName) EXCEPT !.stack = t]
<1>1. req[r].pc = "delete" /\ s \in Seq(Frame) /\ s # << >> /\ req[r].folder \in Place
  BY DEF DeleteChildRow, TypeInv, TypeOK, Handler, InAFolder
<1>2. n > 1 /\ s[n].left = {} /\ UNCHANGED chats
  BY DEF DeleteChildRow, Top
<1>3. /\ t \in Seq(Frame) /\ n \in Nat /\ Len(t) = n - 1
      /\ \A i \in 1 .. n - 1 : t[i] = s[i]
      /\ s[n] \in Frame
  BY <1>1, <1>2, PopFrame
<1>4. CASE Live(s[n].folder)
  <2> HIDE DEF t
  <2>1. h \in Handler /\ h.pc = "delete" /\ h.folder = req[r].folder /\ h.stack = t
    BY <1>1, <1>3, Handlers
  <2>2. Goto(r, h) /\ folders' = WithoutRow(s[n].folder) /\ s[n].folder \in Folder
    BY <1>4 DEF DeleteChildRow, Deleting, Top, Below, Live, t
  <2> HIDE DEF h
  <2> QED
    BY <1>1, <1>2, <1>3, <2>1, <2>2
<1>5. CASE ~ Live(s[n].folder)
  <2>1. Goto(r, Ended("failed")) /\ UNCHANGED folders
    BY <1>5 DEF DeleteChildRow, Reply, Top
  <2>2. /\ Ended("failed") \in Handler
        /\ Ended("failed").pc = "idle"
    BY <1>1, Handlers
  <2> QED
    BY <1>1, <1>2, <2>1, <2>2
<1> QED
  BY <1>4, <1>5

LEMMA DeleteOwnMoves ==
  ASSUME TypeInv, NEW r \in Request, DeleteOwnRow(r)
  PROVE  \E h \in Handler :
           /\ req[r].pc = "delete" /\ Len(req[r].stack) = 1 /\ req[r].stack[1].left = {}
           /\ folders' = WithoutRow(req[r].folder) /\ Goto(r, h) /\ h.pc = "idle"
           /\ UNCHANGED chats
<1>1. req[r].folder \in Place
  BY DEF TypeInv, TypeOK, Handler
<1>2. /\ Ended("done") \in Handler
      /\ Ended("done").pc = "idle"
  BY <1>1, Handlers
<1> QED
  BY <1>2 DEF DeleteOwnRow, Top, Reply

\* A handler that has looked for a sibling.
LEMMA LookedOn ==
  ASSUME NEW r \in Request, NEW place, NEW name, NEW g \in Handler, Looked(r, place, name, g)
  PROVE  \E h \in Handler :
           /\ Goto(r, h) /\ h.pc = g.pc /\ h.folder = g.folder /\ h.place = g.place
           /\ h.name = g.name /\ (~ h.blind => ~ Taken(place, name))
<1>1. PICK blind \in BOOLEAN :
        NotFound(place, name, blind) /\ Goto(r, [g EXCEPT !.blind = blind])
  BY DEF Looked
<1> DEFINE h == [g EXCEPT !.blind = blind]
<1>2. /\ h \in Handler /\ h.pc = g.pc /\ h.folder = g.folder /\ h.place = g.place
      /\ h.name = g.name /\ h.blind = blind
  BY DEF Handler
<1>3. Goto(r, h) /\ (~ blind => ~ Taken(place, name))
  BY <1>1 DEF NotFound
<1> HIDE DEF h
<1> QED
  BY <1>2, <1>3

LEMMA TypeInit == Init => TypeInv
<1> SUFFICES ASSUME Init PROVE TypeInv
  OBVIOUS
<1>1. Ended("none") \in Handler /\ Ended("none").pc = "idle"
  BY Handlers DEF Place
<1>2. req \in [Request -> Handler] /\ \A r \in Request : req[r].pc = "idle"
  BY <1>1 DEF Init
<1>3. TypeOK
  BY <1>2 DEF Init, TypeOK, FolderRow, ChatRow, Place, Live, NoRow, NoChat
<1> QED
  BY <1>2, <1>3 DEF TypeInv, NamesGiven, InAFolder

\* A handler that is not deleting goes on.
LEMMA HandlerMoves ==
  ASSUME TypeInv, NEW r \in Request,
         \/ \E name \in Name : CreateFolder(r, name)
         \/ \E f \in Folder, name \in Name : RenameFolder(r, f, name)
         \/ \E f \in Folder, place \in Known : MoveFolder(r, f, place)
         \/ \E c \in Chat, place \in Known : MoveChat(r, c, place) \/ ImportChat(r, c, place)
         \/ InsertFolder(r) \/ WriteName(r) \/ WriteParent(r) \/ RecursionLimit(r)
         \/ Fail(r) \/ Crash(r)
  PROVE  \E h \in Handler :
           /\ Goto(r, h) /\ h.pc \in {"idle", "insert", "rename", "move"}
           /\ h.pc \in {"insert", "rename"} => h.name \in Name
           /\ h.pc = "move" => h.place \in Place
<1>1. Root \in Place /\ Folder \subseteq Place /\ Known \subseteq Place
  BY DEF Place, Known
<1>2. ASSUME NEW a \in {"none", "done", "failed", "refused"}, Goto(r, Ended(a))
      PROVE  \E h \in Handler : Goto(r, h) /\ h.pc = "idle"
  BY <1>2, Handlers
<1>3. CASE InsertFolder(r) \/ WriteName(r) \/ WriteParent(r) \/ RecursionLimit(r)
           \/ Fail(r) \/ Crash(r)
           \/ \E c \in Chat, place \in Known : MoveChat(r, c, place) \/ ImportChat(r, c, place)
  <2>1. \E a \in {"none", "done", "failed", "refused"} : Goto(r, Ended(a))
    BY <1>3 DEF InsertFolder, WriteName, WriteParent, RecursionLimit, Fail, Crash,
       MoveChat, ImportChat, Reply
  <2> QED
    BY <1>2, <2>1
<1>4. ASSUME NEW name \in Name, CreateFolder(r, name) \/ \E f \in Folder : RenameFolder(r, f, name)
      PROVE  \E h \in Handler : Goto(r, h) /\ h.pc \in {"insert", "rename"} /\ h.name \in Name
  <2>1. PICK f \in Place, pc \in {"insert", "rename"}, place \in Place :
          Looked(r, place, name, At(pc, f, Root, name))
    BY <1>1, <1>4 DEF CreateFolder, RenameFolder, TypeInv, TypeOK, FolderRow
  <2>2. /\ At(pc, f, Root, name) \in Handler /\ At(pc, f, Root, name).pc = pc
        /\ At(pc, f, Root, name).name = name
    BY <1>1, Handlers
  <2> QED
    BY <2>1, <2>2, LookedOn
<1>5. ASSUME NEW f \in Folder, NEW place \in Known, MoveFolder(r, f, place)
      PROVE  \E h \in Handler : Goto(r, h) /\ h.pc = "move" /\ h.place \in Place
  <2>1. /\ At("move", f, place, NoName) \in Handler /\ At("move", f, place, NoName).pc = "move"
        /\ At("move", f, place, NoName).place = place
    BY <1>1, Handlers
  <2> QED
    BY <1>1, <1>5, <2>1, LookedOn DEF MoveFolder
<1> QED
  BY <1>3, <1>4, <1>5

\* What the writes of a handler do to the rows.
LEMMA RowsWritten ==
  ASSUME TypeInv, NEW r \in Request,
         \/ \E name \in Name : CreateFolder(r, name)
         \/ \E f \in Folder, name \in Name : RenameFolder(r, f, name)
         \/ \E f \in Folder, place \in Known : MoveFolder(r, f, place)
         \/ InsertFolder(r) \/ WriteName(r) \/ WriteParent(r) \/ RecursionLimit(r)
         \/ Fail(r) \/ Crash(r)
  PROVE  /\ UNCHANGED chats
         /\ \/ UNCHANGED folders
            \/ \E f \in Folder :
                 /\ folders' \in [Folder -> FolderRow]
                 /\ \A g \in Folder \ {f} : folders'[g] = folders[g]
                 /\ Live(f)' /\ folders'[f].name \in Name
                 /\ \/ folders'[f].parent = Root
                    \/ /\ folders'[f].parent = folders[f].parent /\ Live(f)
                       /\ folders'[f].adrift = folders[f].adrift
                    \/ folders'[f].parent \in Shown \/ folders'[f].adrift
<1>1. folders \in [Folder -> FolderRow] /\ \A f \in Folder : Live(f) => folders[f].name \in Name
  BY DEF TypeInv, TypeOK
<1>2. CASE InsertFolder(r)
  <2>1. PICK f \in Folder :
          folders' = [folders EXCEPT ![f] =
            [state |-> "live", parent |-> Root, name |-> req[r].name,
             unsure |-> req[r].blind, adrift |-> FALSE]]
    BY <1>2 DEF InsertFolder
  <2>2. req[r].name \in Name /\ req[r].blind \in BOOLEAN /\ UNCHANGED chats
    BY <1>2 DEF InsertFolder, TypeInv, NamesGiven, TypeOK, Handler
  <2>3. [state |-> "live", parent |-> Root, name |-> req[r].name,
         unsure |-> req[r].blind, adrift |-> FALSE] \in FolderRow
    BY <2>2 DEF FolderRow, Place
  <2>4. /\ folders' \in [Folder -> FolderRow]
        /\ \A g \in Folder \ {f} : folders'[g] = folders[g]
        /\ folders'[f].state = "live" /\ folders'[f].name = req[r].name
        /\ folders'[f].parent = Root
    BY <1>1, <2>1, <2>3
  <2> QED
    BY <2>2, <2>4 DEF Live
<1>3. CASE WriteName(r) /\ folders' # folders
  <2>1. PICK f \in Folder, name \in Name, blind \in BOOLEAN :
          /\ name = req[r].name /\ UNCHANGED chats /\ folders[f].state = "live"
          /\ folders' = [folders EXCEPT ![f].name = name, ![f].unsure = blind]
    BY <1>3 DEF WriteName, TypeInv, NamesGiven, Live, TypeOK, Handler
  <2>2. /\ folders' \in [Folder -> FolderRow]
        /\ \A g \in Folder \ {f} : folders'[g] = folders[g]
        /\ folders'[f].name = name /\ folders'[f].parent = folders[f].parent
        /\ folders'[f].state = "live" /\ folders'[f].adrift = folders[f].adrift
    BY <1>1, <2>1 DEF FolderRow
  <2> QED
    BY <2>1, <2>2 DEF Live
<1>4. CASE WriteParent(r) /\ folders' # folders
  <2>0. PICK f \in Folder, place \in Place, blind \in BOOLEAN :
          /\ UNCHANGED chats /\ folders[f].state = "live"
          /\ folders' = [folders EXCEPT ![f].parent = place, ![f].unsure = blind,
                                        ![f].adrift = place \notin Shown]
    BY <1>4 DEF WriteParent, TypeInv, TypeOK, Handler, Live
  <2> DEFINE adrift == place \notin Shown
  <2>1. /\ UNCHANGED chats /\ folders[f].state = "live"
        /\ adrift \in BOOLEAN /\ (adrift \/ place \in Shown)
        /\ folders' = [folders EXCEPT ![f].parent = place, ![f].unsure = blind,
                                      ![f].adrift = adrift]
    BY <2>0
  <2> HIDE DEF adrift
  <2>2. /\ folders' \in [Folder -> FolderRow]
        /\ \A g \in Folder \ {f} : folders'[g] = folders[g]
        /\ folders'[f].name = folders[f].name /\ folders'[f].parent = place
        /\ folders'[f].state = "live" /\ folders'[f].adrift = adrift
    BY <1>1, <2>1 DEF FolderRow
  <2> QED
    BY <1>1, <2>1, <2>2 DEF Live
<1> QED
  BY <1>2, <1>3, <1>4 DEF WriteName, WriteParent, CreateFolder, RenameFolder, MoveFolder,
     RecursionLimit, Fail, Crash

LEMMA ChatMoved ==
  ASSUME TypeInv, NEW r \in Request, NEW c \in Chat, NEW place \in Known,
         MoveChat(r, c, place) \/ ImportChat(r, c, place)
  PROVE  /\ UNCHANGED folders /\ chats' \in [Chat -> ChatRow]
         /\ chats'[c].folder \in Shown \/ chats'[c].adrift
         /\ \A d \in Chat \ {c} : chats'[d] = chats[d]
<1>1. chats \in [Chat -> ChatRow] /\ place \in Place
  BY DEF TypeInv, TypeOK, Place, Known
<1>2. PICK adrift \in BOOLEAN :
        /\ adrift = (place \notin Shown)
        /\ chats' = [chats EXCEPT ![c] = [exists |-> TRUE, folder |-> place, missed |-> FALSE,
                                          adrift |-> adrift]]
  BY DEF MoveChat, ImportChat, File
<1>3. UNCHANGED folders
  BY DEF MoveChat, ImportChat
<1> QED
  BY <1>1, <1>2, <1>3 DEF ChatRow

LEMMA TypeNext == TypeInv /\ [Next]_vars => TypeInv'
<1> SUFFICES ASSUME TypeInv, [Next]_vars PROVE TypeInv'
  OBVIOUS
\* The rows, and the handlers, are written apart.
<1>1. ASSUME NEW r \in Request, NEW h \in Handler, Goto(r, h),
             h.pc \in {"insert", "rename"} => h.name \in Name,
             h.pc = "delete" => h.stack # << >>,
             folders' \in [Folder -> FolderRow], chats' \in [Chat -> ChatRow],
             \A f \in Folder : Live(f)' => folders'[f].name \in Name
      PROVE  TypeInv'
  BY <1>1, GotoTyped DEF TypeInv, TypeOK
<1>2. /\ folders \in [Folder -> FolderRow] /\ chats \in [Chat -> ChatRow]
      /\ \A f \in Folder : Live(f) => folders[f].name \in Name
  BY DEF TypeInv, TypeOK
<1>3. ASSUME UNCHANGED folders
      PROVE  /\ folders' \in [Folder -> FolderRow]
             /\ \A f \in Folder : Live(f)' => folders'[f].name \in Name
  BY <1>2, <1>3 DEF Live
<1>4. ASSUME NEW r \in Request, NEW c \in Chat, NEW place \in Known,
         MoveChat(r, c, place) \/ ImportChat(r, c, place)
      PROVE  TypeInv'
  BY <1>1, <1>3, <1>4, HandlerMoves, ChatMoved
<1>5. ASSUME NEW r \in Request,
             \/ \E name \in Name : CreateFolder(r, name)
             \/ \E f \in Folder, name \in Name : RenameFolder(r, f, name)
             \/ \E f \in Folder, place \in Known : MoveFolder(r, f, place)
             \/ InsertFolder(r) \/ WriteName(r) \/ WriteParent(r) \/ RecursionLimit(r)
             \/ Fail(r) \/ Crash(r)
      PROVE  TypeInv'
  <2>1. PICK h \in Handler : /\ Goto(r, h) /\ h.pc \in {"idle", "insert", "rename", "move"}
                             /\ h.pc \in {"insert", "rename"} => h.name \in Name
    BY <1>5, HandlerMoves
  <2>2. /\ folders' \in [Folder -> FolderRow] /\ chats' \in [Chat -> ChatRow]
        /\ \A f \in Folder : Live(f)' => folders'[f].name \in Name
    BY <1>2, <1>3, <1>5, RowsWritten DEF Live
  <2> QED
    BY <1>1, <2>1, <2>2
<1>6. ASSUME NEW r \in Request, DeleteChild(r) \/ \E f \in Folder : DeleteFolder(r, f)
      PROVE  TypeInv'
  <2>1. PICK f \in Folder, h \in Handler :
          /\ Goto(r, h) /\ h.pc = "delete" /\ h.stack # << >>
          /\ DeleteChatsOf(f) /\ UNCHANGED folders
    BY <1>6, DeleteChildMoves, DeleteFolderMoves
  <2> QED
    BY <1>1, <1>3, <2>1, ChatsDeleted
<1>7. ASSUME NEW r \in Request, DeleteChildRow(r) \/ DeleteOwnRow(r) PROVE TypeInv'
  <2>1. PICK h \in Handler :
          /\ Goto(r, h) /\ UNCHANGED chats /\ h.pc \in {"idle", "delete"}
          /\ h.pc = "delete" => h.stack # << >>
          /\ UNCHANGED folders \/ \E f : folders' = WithoutRow(f)
    <3>1. CASE DeleteChildRow(r)
      <4>1. PICK h \in Handler :
              /\ Goto(r, h) /\ UNCHANGED chats
              /\ \/ h.pc = "idle" /\ UNCHANGED folders
                 \/ /\ Len(req[r].stack) \in Nat /\ Len(req[r].stack) > 1
                    /\ Len(h.stack) = Len(req[r].stack) - 1
                    /\ h.pc = "delete" /\ h.stack \in Seq(Frame)
                    /\ folders' = WithoutRow(req[r].stack[Len(req[r].stack)].folder)
        BY <3>1, DeleteRowMoves
      <4>2. h.pc = "delete" => Len(h.stack) >= 1
        BY <4>1
      <4>3. h.pc = "delete" => h.stack # << >>
        BY <4>2
      <4> QED
        BY <4>1, <4>3
    <3>2. CASE DeleteOwnRow(r)
      BY <3>2, DeleteOwnMoves
    <3> QED
      BY <1>7, <3>1, <3>2
  <2>2. ASSUME NEW f, folders' = WithoutRow(f)
        PROVE  /\ folders' \in [Folder -> FolderRow]
               /\ \A g \in Folder : Live(g)' => folders'[g].name \in Name
    <3>1. CASE f \in Folder
      BY <1>2, <2>2, <3>1, RowDeleted
    <3>2. CASE f \notin Folder
      BY <1>2, <1>3, <2>2, <3>2 DEF WithoutRow
    <3> QED
      BY <3>1, <3>2
  <2> QED
    BY <1>1, <1>2, <1>3, <2>1, <2>2
<1>8. CASE UNCHANGED vars
  BY <1>8 DEF vars, TypeInv, TypeOK, NamesGiven, InAFolder, Live
<1> QED
  BY <1>4, <1>5, <1>6, <1>7, <1>8 DEF Next, HandlerStep

\* Rows and handlers stay well formed, for any folders, names, chats and
\* requests in flight, faults and crashes included.
THEOREM FoldersTypeCorrect == Spec => []TypeOK
<1>1. TypeInv => TypeOK
  BY DEF TypeInv
<1> QED
  BY <1>1, TypeInit, TypeNext, PTL DEF Spec

----------------------------------------------------------------------------
(* With one request at a time: the names of siblings.                       *)

OneRequest == \A r, q \in Request : r = q

RowsTyped ==
  /\ folders \in [Folder -> FolderRow]
  /\ \A f \in Folder : Live(f) => folders[f].name \in Name

\* What a handler has looked up holds until it writes, if the look did not
\* fail.
LookupHolds ==
  \A r \in Request :
    /\ req[r].pc \in {"insert", "rename", "move"} => req[r].blind \in BOOLEAN
    /\ req[r].pc = "insert" =>
         /\ req[r].name \in Name
         /\ ~ req[r].blind => ~ Taken(Root, req[r].name)
    /\ req[r].pc = "rename" =>
         /\ Live(req[r].folder) /\ req[r].name \in Name
         /\ ~ req[r].blind => ~ Taken(folders[req[r].folder].parent, req[r].name)
    /\ req[r].pc = "move" =>
         /\ Live(req[r].folder) /\ req[r].place \in Place
         /\ ~ req[r].blind => ~ Taken(req[r].place, folders[req[r].folder].name)

NamesInv == RowsTyped /\ LookupHolds /\ SiblingsDistinct /\ DOMAIN req = Request

LEMMA NamesInit == Init => NamesInv
BY DEF Init, NamesInv, RowsTyped, LookupHolds, SiblingsDistinct, Live, FolderRow,
       Place, Ended, At, NoRow

\* A step that writes no folder and leaves its handler idle or deleting.
LEMMA NoFolderWritten ==
  ASSUME OneRequest, NamesInv, NEW r \in Request, folders' = folders,
         NEW h, Goto(r, h), h.pc \in {"idle", "delete"}
  PROVE  NamesInv'
<1>1. req' = [req EXCEPT ![r] = h] /\ \A q \in Request : q = r
  BY DEF Goto, OneRequest
<1>2. \A q \in Request : req'[q].pc \in {"idle", "delete"}
  BY <1>1 DEF NamesInv
<1>3. LookupHolds'
  BY <1>2 DEF LookupHolds
<1> QED
  BY <1>1, <1>3 DEF NamesInv, RowsTyped, SiblingsDistinct, Live

\* The look-ups themselves.
LEMMA LookupInv ==
  ASSUME OneRequest, NamesInv, NEW r \in Request,
         \/ \E name \in Name : CreateFolder(r, name)
         \/ \E f \in Folder, name \in Name : RenameFolder(r, f, name)
         \/ \E f \in Folder, place \in Known : MoveFolder(r, f, place)
  PROVE  NamesInv'
<1>1. folders' = folders /\ \A q \in Request : q = r
  BY DEF CreateFolder, RenameFolder, MoveFolder, OneRequest
<1>2. RowsTyped' /\ SiblingsDistinct'
  BY <1>1 DEF NamesInv, RowsTyped, SiblingsDistinct, Live
<1>3. \A place, name : Taken(place, name)' <=> Taken(place, name)
  BY <1>1 DEF Taken, Children, Live
<1>4. \A f : Live(f)' <=> Live(f)
  BY <1>1 DEF Live
<1>5. ASSUME NEW name \in Name, CreateFolder(r, name) PROVE LookupHolds' /\ DOMAIN req' = Request
  <2>1. PICK blind \in BOOLEAN :
          /\ ~ blind => ~ Taken(Root, name)
          /\ Goto(r, [At("insert", Root, Root, name) EXCEPT !.blind = blind])
    BY <1>5 DEF CreateFolder, Looked, NotFound
  <2> QED
    BY <1>1, <1>3, <2>1 DEF NamesInv, LookupHolds, Goto, At
<1>6. ASSUME NEW f \in Folder, NEW name \in Name, RenameFolder(r, f, name)
      PROVE  LookupHolds' /\ DOMAIN req' = Request
  <2>1. PICK blind \in BOOLEAN :
          /\ ~ blind => ~ Taken(folders[f].parent, name)
          /\ Goto(r, [At("rename", f, Root, name) EXCEPT !.blind = blind]) /\ Live(f)
    BY <1>6 DEF RenameFolder, Looked, NotFound
  <2> QED
    BY <1>1, <1>3, <1>4, <2>1 DEF NamesInv, LookupHolds, Goto, At
<1>7. ASSUME NEW f \in Folder, NEW place \in Known, MoveFolder(r, f, place)
      PROVE  LookupHolds' /\ DOMAIN req' = Request
  <2>1. place \in Place
    BY DEF Known, Place
  <2>2. PICK blind \in BOOLEAN :
          /\ ~ blind => ~ Taken(place, folders[f].name)
          /\ Goto(r, [At("move", f, place, NoName) EXCEPT !.blind = blind]) /\ Live(f)
    BY <1>7 DEF MoveFolder, Looked, NotFound
  <2> QED
    BY <1>1, <1>3, <1>4, <2>1, <2>2 DEF NamesInv, LookupHolds, Goto, At
<1> QED
  BY <1>2, <1>5, <1>6, <1>7 DEF NamesInv

\* The writes of a name or a place, and of a row that goes.
LEMMA WriteInv ==
  ASSUME OneRequest, NamesInv, NEW r \in Request, NEW h, Goto(r, h),
         h.pc \in {"idle", "delete"},
         folders' \in [Folder -> FolderRow],
         NEW f \in Folder,
         \A g \in Folder \ {f} : folders'[g] = folders[g],
         folders'[f].state = "live" =>
           /\ folders'[f].name \in Name
           /\ \A g \in Folder \ {f} :
                ~ folders'[f].unsure /\ Live(g) /\ folders[g].parent = folders'[f].parent
                  => ~ (ILike(folders[g].name, folders'[f].name)
                          /\ ILike(folders'[f].name, folders[g].name))
  PROVE  NamesInv'
<1>1. req' = [req EXCEPT ![r] = h] /\ \A q \in Request : q = r
  BY DEF Goto, OneRequest
<1>2. LookupHolds' /\ DOMAIN req' = Request
  BY <1>1 DEF NamesInv, LookupHolds
<1>3. RowsTyped'
  BY DEF NamesInv, RowsTyped, Live
<1>4. SiblingsDistinct'
  <2> SUFFICES ASSUME NEW a \in Folder, NEW b \in Folder, a # b, Live(a)', Live(b)',
                      folders'[a].parent = folders'[b].parent,
                      ~ folders'[a].unsure, ~ folders'[b].unsure,
                      ILike(folders'[a].name, folders'[b].name),
                      ILike(folders'[b].name, folders'[a].name)
               PROVE  FALSE
    BY DEF SiblingsDistinct
  <2>1. CASE a = f
    BY <2>1 DEF Live
  <2>2. CASE b = f
    BY <2>2 DEF Live
  <2>3. CASE a # f /\ b # f
    BY <2>3 DEF NamesInv, SiblingsDistinct, Live
  <2> QED
    BY <2>1, <2>2, <2>3
<1> QED
  BY <1>2, <1>3, <1>4 DEF NamesInv

LEMMA InsertInv ==
  ASSUME OneRequest, NamesInv, NEW r \in Request, InsertFolder(r) PROVE NamesInv'
<1>1. PICK f \in Folder :
        /\ folders' = [folders EXCEPT ![f] =
             [state |-> "live", parent |-> Root, name |-> req[r].name,
              unsure |-> req[r].blind, adrift |-> FALSE]]
        /\ Goto(r, Ended("done"))
  BY DEF InsertFolder
<1>2. /\ req[r].name \in Name /\ req[r].blind \in BOOLEAN
      /\ ~ req[r].blind => ~ Taken(Root, req[r].name)
  BY DEF InsertFolder, NamesInv, LookupHolds
<1>3. folders \in [Folder -> FolderRow] /\ Ended("done").pc = "idle"
  BY DEF NamesInv, RowsTyped, Ended, At
<1>4. [state |-> "live", parent |-> Root, name |-> req[r].name,
       unsure |-> req[r].blind, adrift |-> FALSE] \in FolderRow
  BY <1>2 DEF FolderRow, Place
<1>5. /\ folders' \in [Folder -> FolderRow]
      /\ \A g \in Folder \ {f} : folders'[g] = folders[g]
      /\ folders'[f].name = req[r].name /\ folders'[f].parent = Root
      /\ folders'[f].unsure = req[r].blind
  BY <1>1, <1>3, <1>4
<1>6. \A g \in Folder : ~ req[r].blind /\ Live(g) /\ folders[g].parent = Root
        => ~ ILike(folders[g].name, req[r].name)
  BY <1>2 DEF Taken, Children
<1> QED
  BY <1>1, <1>2, <1>3, <1>5, <1>6, WriteInv

LEMMA RenameInv ==
  ASSUME OneRequest, NamesInv, NEW r \in Request, WriteName(r) PROVE NamesInv'
<1> DEFINE f == req[r].folder
           name == req[r].name
           blind == req[r].blind
<1>1. /\ Live(f) /\ f \in Folder /\ name \in Name /\ blind \in BOOLEAN
      /\ ~ blind => ~ Taken(folders[f].parent, name)
  BY DEF WriteName, NamesInv, LookupHolds, Live
<1>2. Ended("done").pc = "idle" /\ Ended("failed").pc = "idle"
  BY DEF Ended, At
<1>3. CASE UNCHANGED folders /\ Reply(r, "failed")
  BY <1>2, <1>3, NoFolderWritten DEF Reply
<1>4. CASE /\ folders' = [folders EXCEPT ![f].name = name, ![f].unsure = blind]
           /\ Reply(r, "done")
  <2>1. folders \in [Folder -> FolderRow]
    BY DEF NamesInv, RowsTyped
  <2>2. /\ folders' \in [Folder -> FolderRow]
        /\ \A g \in Folder \ {f} : folders'[g] = folders[g]
        /\ folders'[f].name = name /\ folders'[f].parent = folders[f].parent
        /\ folders'[f].unsure = blind
    BY <1>1, <1>4, <2>1 DEF FolderRow
  <2>3. \A g \in Folder : ~ blind /\ Live(g) /\ folders[g].parent = folders[f].parent
          => ~ ILike(folders[g].name, name)
    BY <1>1 DEF Taken, Children
  <2>4. Goto(r, Ended("done"))
    BY <1>4 DEF Reply
  <2> HIDE DEF f, name, blind
  <2> QED
    BY <1>1, <1>2, <2>2, <2>3, <2>4, WriteInv
<1> QED
  BY <1>3, <1>4 DEF WriteName

LEMMA MoveInv ==
  ASSUME OneRequest, NamesInv, NEW r \in Request, WriteParent(r) PROVE NamesInv'
<1> DEFINE f == req[r].folder
           place == req[r].place
           blind == req[r].blind
<1>1. /\ Live(f) /\ f \in Folder /\ place \in Place /\ blind \in BOOLEAN
      /\ ~ blind => ~ Taken(place, folders[f].name)
  BY DEF WriteParent, NamesInv, LookupHolds, Live
<1>2. folders \in [Folder -> FolderRow] /\ folders[f].name \in Name
  BY <1>1 DEF NamesInv, RowsTyped
<1>3. PICK adrift \in BOOLEAN :
        /\ folders' = [folders EXCEPT ![f].parent = place, ![f].unsure = blind,
                                      ![f].adrift = adrift]
        /\ Goto(r, Ended("done"))
  BY <1>1 DEF WriteParent, Reply
<1>4. Ended("done").pc = "idle"
  BY DEF Ended, At
<1>5. /\ folders' \in [Folder -> FolderRow]
      /\ \A g \in Folder \ {f} : folders'[g] = folders[g]
      /\ folders'[f].name = folders[f].name /\ folders'[f].parent = place
      /\ folders'[f].unsure = blind
  BY <1>1, <1>2, <1>3 DEF FolderRow
<1>6. \A g \in Folder : ~ blind /\ Live(g) /\ folders[g].parent = place
        => ~ ILike(folders[g].name, folders[f].name)
  BY <1>1 DEF Taken, Children
<1> HIDE DEF f, place, blind
<1> QED
  BY <1>1, <1>2, <1>3, <1>4, <1>5, <1>6, WriteInv

\* The steps of a deletion, and the ends of handlers.
LEMMA OtherInv ==
  ASSUME OneRequest, NamesInv, NEW r \in Request,
         \/ \E f \in Folder : DeleteFolder(r, f)
         \/ \E c \in Chat, place \in Known : MoveChat(r, c, place) \/ ImportChat(r, c, place)
         \/ DeleteChild(r) \/ RecursionLimit(r) \/ DeleteChildRow(r) \/ DeleteOwnRow(r)
         \/ Fail(r) \/ Crash(r)
  PROVE  NamesInv'
<1>1. \E h : Goto(r, h) /\ h.pc \in {"idle", "delete"}
  <2>1. \A a : Ended(a).pc = "idle"
    BY DEF Ended, At
  <2>2. \A f, st : [At("delete", f, Root, NoName) EXCEPT !.stack = st].pc = "delete"
    BY DEF At
  <2> QED
    BY <2>1, <2>2 DEF DeleteFolder, MoveChat, ImportChat, DeleteChild, RecursionLimit,
         DeleteChildRow, DeleteOwnRow, Fail, Crash, Reply, Deleting
<1>2. \/ folders' = folders
      \/ \E f \in Folder : folders' = WithoutRow(f)
      \/ folders' = WithoutRow(req[r].folder) /\ req[r].folder \notin Folder
  BY DEF DeleteFolder, MoveChat, ImportChat, DeleteChild, RecursionLimit,
         DeleteChildRow, DeleteOwnRow, Fail, Crash, Live
<1>3. CASE folders' = folders
  BY <1>1, <1>3, NoFolderWritten
<1>4. ASSUME NEW f \in Folder, folders' = WithoutRow(f) PROVE NamesInv'
  <2>1. folders \in [Folder -> FolderRow]
    BY DEF NamesInv, RowsTyped
  <2>2. /\ folders' \in [Folder -> FolderRow]
        /\ \A g \in Folder \ {f} : folders'[g] = folders[g]
        /\ folders'[f].state = "gone"
    BY <1>4, <2>1 DEF WithoutRow, FolderRow, NoRow, Place
  <2> QED
    BY <1>1, <2>2, WriteInv
<1>5. CASE folders' = WithoutRow(req[r].folder) /\ req[r].folder \notin Folder
  BY <1>1, <1>5, NoFolderWritten DEF WithoutRow, NamesInv, RowsTyped
<1> QED
  BY <1>2, <1>3, <1>4, <1>5

\* With one request at a time no two folders in one place match each other's
\* name, whatever folders are moved, renamed and deleted and wherever a
\* handler fails or crashes, but for those written after a look for a sibling
\* that failed.
THEOREM SiblingsStayDistinct ==
  ASSUME OneRequest
  PROVE  Spec => []SiblingsDistinct
<1>1. NamesInv /\ [Next]_vars => NamesInv'
  <2>1. ASSUME NamesInv, Next PROVE NamesInv'
    BY <2>1, LookupInv, InsertInv, RenameInv, MoveInv, OtherInv DEF Next, HandlerStep
  <2>2. ASSUME NamesInv, UNCHANGED vars PROVE NamesInv'
    BY <2>2 DEF vars, NamesInv, RowsTyped, LookupHolds, SiblingsDistinct, Live,
         Taken, Children
  <2> QED
    BY <2>1, <2>2
<1>2. NamesInv => SiblingsDistinct
  BY DEF NamesInv
<1> QED
  BY <1>1, <1>2, NamesInit, PTL DEF Spec

----------------------------------------------------------------------------
(* With one request at a time: nothing is left out of reach.                *)

(* Where a deletion is: what hangs below a folder of the stack is still to  *)
(* be handled, or is the next folder of the stack; and no chat that it has  *)
(* not missed is left in a folder of the stack.                             *)
ChildrenAhead(s) ==
  \A i \in 1 .. Len(s) : \A g \in Children(s[i].folder) :
    g \in s[i].left \/ (i < Len(s) /\ g = s[i + 1].folder)
Walk(s, f) ==
  /\ s[1].folder = f
  /\ ChildrenAhead(s)
  /\ \A i \in 1 .. Len(s) : ChatsGone(s[i].folder)

ReachInv ==
  /\ TypeInv /\ NothingOutOfReach
  /\ \A r \in Request : req[r].pc = "delete" => Walk(req[r].stack, req[r].folder)

\* The only handler goes on.
LEMMA ReachHandler ==
  ASSUME OneRequest, TypeInv, TypeInv', NothingOutOfReach', NEW r \in Request,
         NEW h \in Handler, Goto(r, h),
         h.pc = "delete" => Walk(h.stack, h.folder)'
  PROVE  ReachInv'
<1>1. \A q \in Request : q = r
  BY DEF OneRequest
<1>2. req'[r] = h
  BY DEF Goto, TypeInv, TypeOK
<1> QED
  BY <1>1, <1>2 DEF ReachInv

LEMMA ReachWrites ==
  ASSUME OneRequest, ReachInv, TypeInv', NEW r \in Request,
         \/ \E name \in Name : CreateFolder(r, name)
         \/ \E f \in Folder, name \in Name : RenameFolder(r, f, name)
         \/ \E f \in Folder, place \in Known : MoveFolder(r, f, place)
         \/ InsertFolder(r) \/ WriteName(r) \/ WriteParent(r) \/ RecursionLimit(r)
         \/ Fail(r) \/ Crash(r)
  PROVE  ReachInv'
<1>1. TypeInv /\ NothingOutOfReach
  BY DEF ReachInv
<1>2. PICK h \in Handler : Goto(r, h) /\ h.pc \in {"idle", "insert", "rename", "move"}
  BY <1>1, HandlerMoves
<1>3. /\ UNCHANGED chats
      /\ \/ UNCHANGED folders
         \/ \E f \in Folder :
              /\ \A g \in Folder \ {f} : folders'[g] = folders[g]
              /\ Live(f)'
              /\ \/ folders'[f].parent = Root
                 \/ /\ folders'[f].parent = folders[f].parent /\ Live(f)
                    /\ folders'[f].adrift = folders[f].adrift
                 \/ folders'[f].parent \in Shown \/ folders'[f].adrift
  BY <1>1, RowsWritten
<1>4. CASE UNCHANGED folders
  <2>1. Shown' = Shown
    BY <1>4 DEF Shown, Live
  <2>2. NothingOutOfReach'
    BY <1>1, <1>3, <1>4, <2>1 DEF NothingOutOfReach, ParentsLive, ChatsListed, Live
  <2> QED
    BY <1>1, <1>2, <2>1, <2>2, ReachHandler
<1>5. ASSUME NEW f \in Folder,
             \A g \in Folder \ {f} : folders'[g] = folders[g], Live(f)',
             \/ folders'[f].parent = Root
             \/ /\ folders'[f].parent = folders[f].parent /\ Live(f)
                /\ folders'[f].adrift = folders[f].adrift
             \/ folders'[f].parent \in Shown \/ folders'[f].adrift
      PROVE  NothingOutOfReach'
  <2>1. Shown \subseteq Shown' /\ Root \in Shown'
    BY <1>5 DEF Shown, Live
  <2>2. \A g \in Folder \ {f} : Live(g)' => Live(g) /\ folders'[g] = folders[g]
    BY <1>5 DEF Live
  <2>3. ParentsLive'
    BY <1>1, <1>5, <2>1, <2>2 DEF NothingOutOfReach, ParentsLive
  <2>4. ChatsListed'
    BY <1>1, <1>3, <2>1 DEF NothingOutOfReach, ChatsListed
  <2> QED
    BY <2>1, <2>3, <2>4 DEF NothingOutOfReach
<1> QED
  BY <1>1, <1>2, <1>3, <1>4, <1>5, ReachHandler

LEMMA ReachMoveChat ==
  ASSUME OneRequest, ReachInv, TypeInv', NEW r \in Request, NEW c \in Chat,
         NEW place \in Known, MoveChat(r, c, place) \/ ImportChat(r, c, place)
  PROVE  ReachInv'
<1>1. TypeInv /\ NothingOutOfReach
  BY DEF ReachInv
<1>2. PICK h \in Handler : Goto(r, h) /\ h.pc = "idle"
  <2>1. Ended("none") \in Handler /\ Ended("none").pc = "idle"
    BY Handlers DEF Place
  <2> QED
    BY <2>1 DEF MoveChat, ImportChat
<1>3. /\ UNCHANGED folders
      /\ chats'[c].folder \in Shown \/ chats'[c].adrift
      /\ \A d \in Chat \ {c} : chats'[d] = chats[d]
  BY <1>1, ChatMoved
<1>4. Shown' = Shown
  BY <1>3 DEF Shown, Live
<1>5. NothingOutOfReach'
  BY <1>1, <1>3, <1>4 DEF NothingOutOfReach, ParentsLive, ChatsListed, Live
<1> QED
  BY <1>1, <1>2, <1>5, ReachHandler

\* The chats of a folder of the stack are gone, and stay gone.
LEMMA ReachChatsDeleted ==
  ASSUME ReachInv, NEW f \in Folder, DeleteChatsOf(f), UNCHANGED folders
  PROVE  /\ NothingOutOfReach' /\ ChatsGone(f)'
         /\ \A g : ChatsGone(g) => ChatsGone(g)'
         /\ \A g : Children(g)' = Children(g)
<1>1. TypeInv /\ NothingOutOfReach
  BY DEF ReachInv
<1>2. /\ \A c \in Chat : chats'[c].exists =>
           /\ chats[c].exists /\ chats'[c].folder = chats[c].folder
           /\ chats'[c].adrift = chats[c].adrift
           /\ chats[c].missed => chats'[c].missed
      /\ ChatsGone(f)'
  BY <1>1, ChatsDeleted
<1>3. Shown' = Shown /\ \A g : Children(g)' = Children(g)
  BY DEF Shown, Live, Children
<1>4. NothingOutOfReach'
  BY <1>1, <1>2, <1>3 DEF NothingOutOfReach, ParentsLive, ChatsListed, Live
<1> QED
  BY <1>2, <1>3, <1>4 DEF ChatsGone

\* The row of a folder without children goes, once its chats are gone.
LEMMA ReachRowDeleted ==
  ASSUME ReachInv, NEW f \in Folder, folders' = WithoutRow(f), UNCHANGED chats,
         Children(f) = {}, ChatsGone(f)
  PROVE  /\ NothingOutOfReach'
         /\ \A g : ChatsGone(g)' <=> ChatsGone(g)
         /\ \A g : Children(g)' = Children(g) \ {f}
<1>1. TypeInv /\ NothingOutOfReach
  BY DEF ReachInv
<1>2. \A g \in Folder : /\ Live(g)' <=> Live(g) /\ g # f
                        /\ g # f => folders'[g] = folders[g]
  BY <1>1, RowDeleted
<1>3. \A g : Children(g)' = Children(g) \ {f}
  BY <1>2 DEF Children
<1>4. \A g \in Shown : g # f => g \in Shown'
  BY <1>2 DEF Shown
<1>5. ParentsLive'
  BY <1>1, <1>2, <1>4 DEF NothingOutOfReach, ParentsLive, Children
<1>6. ChatsListed'
  BY <1>1, <1>4 DEF NothingOutOfReach, ChatsListed, ChatsGone
<1> QED
  BY <1>3, <1>5, <1>6 DEF NothingOutOfReach, ChatsGone

LEMMA ReachDeleteFolder ==
  ASSUME OneRequest, ReachInv, TypeInv', NEW r \in Request, NEW f \in Folder, DeleteFolder(r, f)
  PROVE  ReachInv'
<1>1. TypeInv
  BY DEF ReachInv
<1>2. PICK h \in Handler :
        /\ Goto(r, h) /\ h.pc = "delete" /\ h.folder = f
        /\ Len(h.stack) = 1 /\ h.stack[1].folder = f /\ h.stack[1].left = Children(f)
        /\ DeleteChatsOf(f) /\ UNCHANGED folders
  BY <1>1, DeleteFolderMoves
<1>3. /\ NothingOutOfReach' /\ ChatsGone(f)' /\ \A g : Children(g)' = Children(g)
  BY <1>2, ReachChatsDeleted
<1>4. \A i \in 1 .. Len(h.stack) : i = 1
  BY <1>2
<1>5. Walk(h.stack, f)'
  BY <1>2, <1>3, <1>4 DEF Walk, ChildrenAhead
<1> QED
  BY <1>1, <1>2, <1>3, <1>5, ReachHandler

LEMMA ReachDeleteChild ==
  ASSUME OneRequest, ReachInv, TypeInv', NEW r \in Request, DeleteChild(r)
  PROVE  ReachInv'
<1>1. TypeInv
  BY DEF ReachInv
<1>2. PICK f \in Folder, h \in Handler, s \in Seq(Frame), t \in Seq(Frame), n \in Nat \ {0} :
        /\ s = req[r].stack /\ t = h.stack /\ n = Len(s) /\ f \in s[n].left
        /\ req[r].pc = "delete" /\ Goto(r, h) /\ h.pc = "delete" /\ h.folder = req[r].folder
        /\ Len(t) = n + 1 /\ \A i \in 1 .. n - 1 : t[i] = s[i]
        /\ t[n].folder = s[n].folder /\ t[n].left = s[n].left \ {f}
        /\ t[n + 1].folder = f /\ t[n + 1].left = Children(f)
        /\ DeleteChatsOf(f) /\ UNCHANGED folders
  BY <1>1, DeleteChildMoves
<1>3. /\ NothingOutOfReach' /\ ChatsGone(f)' /\ \A g : ChatsGone(g) => ChatsGone(g)'
      /\ \A g : Children(g)' = Children(g)
  BY <1>2, ReachChatsDeleted
<1>4. /\ s[1].folder = h.folder /\ ChildrenAhead(s)
      /\ \A i \in 1 .. n : ChatsGone(s[i].folder)
  BY <1>2 DEF ReachInv, Walk
<1>n. n \in Nat /\ n >= 1
  BY <1>2
<1>5. /\ n + 1 \in 1 .. n + 1 /\ n \in 1 .. n /\ ~ (n < n) /\ n < n + 1 /\ n \in 1 .. n + 1
      /\ \A i \in 1 .. n + 1 : i \in 1 .. n \/ i = n + 1
      /\ \A i \in 1 .. n : i \in 1 .. n - 1 \/ i = n
      /\ \A i \in 1 .. n - 1 : i \in 1 .. n /\ i < n /\ i < n + 1 /\ i + 1 \in 1 .. n
      /\ 1 \in 1 .. n
  BY <1>n
<1>6. \A i \in 1 .. n : t[i].folder = s[i].folder
  <2> SUFFICES ASSUME NEW i \in 1 .. n PROVE t[i].folder = s[i].folder
    OBVIOUS
  <2> QED
    BY <1>2, <1>5
<1>7. \A i \in 1 .. n + 1 : ChatsGone(t[i].folder)'
  BY <1>2, <1>3, <1>4, <1>5, <1>6
<1>8. ASSUME NEW i \in 1 .. n + 1, NEW g \in Children(t[i].folder)
      PROVE  g \in t[i].left \/ (i < n + 1 /\ g = t[i + 1].folder)
  <2>1. CASE i \in 1 .. n - 1
    <3>1. g \in s[i].left \/ g = s[i + 1].folder
      BY <1>2, <1>4, <1>5, <1>6, <1>8, <2>1 DEF ChildrenAhead
    <3>2. t[i + 1].folder = s[i + 1].folder /\ t[i] = s[i] /\ i < n + 1
      BY <1>2, <1>5, <1>6, <2>1
    <3> QED
      BY <3>1, <3>2
  <2>2. CASE i = n
    <3>1. g \in s[n].left
      BY <1>2, <1>4, <1>5, <1>6, <1>8, <2>2 DEF ChildrenAhead
    <3> QED
      BY <1>2, <1>5, <2>2, <3>1
  <2>3. CASE i = n + 1
    BY <1>2, <1>8, <2>3
  <2> QED
    BY <1>5, <2>1, <2>2, <2>3
<1>9. Walk(t, h.folder)'
  <2>1. ChildrenAhead(t)'
    <3> SUFFICES ASSUME NEW i \in 1 .. n + 1, NEW g \in Children(t[i].folder)'
                 PROVE  g \in t[i].left \/ (i < n + 1 /\ g = t[i + 1].folder)
      BY <1>2 DEF ChildrenAhead
    <3>1. g \in Children(t[i].folder)
      BY <1>3
    <3> QED
      BY <1>8, <3>1
  <2>2. t[1].folder = h.folder
    BY <1>4, <1>5, <1>6
  <2> QED
    BY <1>2, <1>7, <2>1, <2>2 DEF Walk
<1> QED
  BY <1>1, <1>2, <1>3, <1>9, ReachHandler

LEMMA ReachDeleteRow ==
  ASSUME OneRequest, ReachInv, TypeInv', NEW r \in Request, DeleteChildRow(r)
  PROVE  ReachInv'
<1>1. TypeInv /\ NothingOutOfReach
  BY DEF ReachInv
<1>2. PICK h \in Handler, s \in Seq(Frame) :
        LET n == Len(s)
            t == h.stack IN
        /\ s = req[r].stack /\ req[r].pc = "delete" /\ Goto(r, h) /\ UNCHANGED chats
        /\ \/ h.pc = "idle" /\ UNCHANGED folders
           \/ /\ n \in Nat /\ n > 1 /\ s[n].left = {} /\ s[n].folder \in Folder
              /\ h.pc = "delete" /\ h.folder = req[r].folder
              /\ t \in Seq(Frame) /\ Len(t) = n - 1 /\ \A i \in 1 .. n - 1 : t[i] = s[i]
              /\ folders' = WithoutRow(s[n].folder)
  BY <1>1, DeleteRowMoves
<1>3. CASE h.pc = "idle" /\ UNCHANGED folders
  <2>1. NothingOutOfReach'
    BY <1>1, <1>2, <1>3 DEF NothingOutOfReach, ParentsLive, ChatsListed, Live, Shown
  <2> QED
    BY <1>1, <1>2, <1>3, <2>1, ReachHandler
<1>4. CASE ~ (h.pc = "idle" /\ UNCHANGED folders)
  <2>1. PICK n \in Nat, t \in Seq(Frame), f \in Folder :
          /\ n = Len(s) /\ t = h.stack /\ f = s[n].folder
          /\ n > 1 /\ s[n].left = {}
          /\ h.pc = "delete" /\ h.folder = req[r].folder
          /\ Len(t) = n - 1 /\ \A i \in 1 .. n - 1 : t[i] = s[i]
          /\ folders' = WithoutRow(f)
    BY <1>2, <1>4
  <2>2. /\ s[1].folder = h.folder /\ ChildrenAhead(s)
        /\ \A i \in 1 .. n : ChatsGone(s[i].folder)
    BY <1>2, <2>1 DEF ReachInv, Walk
  <2>3. /\ n \in 1 .. n /\ ~ (n < n) /\ 1 \in 1 .. n - 1
        /\ \A i \in 1 .. n - 1 : i \in 1 .. n /\ i < n /\ (i < n - 1 => i + 1 \in 1 .. n - 1)
        /\ \A i \in 1 .. n - 1 : ~ (i < n - 1) => i + 1 = n
    BY <2>1
  <2>4. Children(f) = {} /\ ChatsGone(f)
    BY <2>1, <2>2, <2>3 DEF ChildrenAhead
  <2>5. /\ NothingOutOfReach' /\ \A g : ChatsGone(g)' <=> ChatsGone(g)
        /\ \A g : Children(g)' = Children(g) \ {f}
    BY <1>2, <2>1, <2>4, ReachRowDeleted
  <2>6. ASSUME NEW i \in 1 .. n - 1, NEW g \in Children(t[i].folder)'
        PROVE  g \in t[i].left \/ (i < n - 1 /\ g = t[i + 1].folder)
    <3>1. t[i] = s[i] /\ g \in Children(s[i].folder) /\ g # f
      BY <2>1, <2>5, <2>6
    <3>2. g \in s[i].left \/ g = s[i + 1].folder
      BY <2>1, <2>2, <2>3, <3>1 DEF ChildrenAhead
    <3>3. CASE i < n - 1
      BY <2>1, <2>3, <3>1, <3>2, <3>3
    <3>4. CASE ~ (i < n - 1)
      BY <2>1, <2>3, <3>1, <3>2, <3>4
    <3> QED
      BY <3>3, <3>4
  <2>7. Walk(t, h.folder)'
    <3>1. ChildrenAhead(t)'
      BY <2>1, <2>6 DEF ChildrenAhead
    <3>2. \A i \in 1 .. Len(t) : ChatsGone(t[i].folder)'
      BY <2>1, <2>2, <2>3, <2>5
    <3>3. t[1].folder = h.folder
      BY <2>1, <2>2, <2>3
    <3> QED
      BY <3>1, <3>2, <3>3 DEF Walk
  <2> QED
    BY <1>1, <1>2, <2>1, <2>5, <2>7, ReachHandler
<1> QED
  BY <1>3, <1>4

LEMMA ReachDeleteOwn ==
  ASSUME OneRequest, ReachInv, TypeInv', NEW r \in Request, DeleteOwnRow(r)
  PROVE  ReachInv'
<1>1. TypeInv
  BY DEF ReachInv
<1>2. PICK h \in Handler, f \in Folder :
        /\ f = req[r].folder /\ folders' = WithoutRow(f) /\ UNCHANGED chats
        /\ Goto(r, h) /\ h.pc = "idle" /\ Children(f) = {} /\ ChatsGone(f)
  <2>1. PICK h \in Handler, s \in Seq(Frame), f \in Place :
          /\ s = req[r].stack /\ f = req[r].folder
          /\ req[r].pc = "delete" /\ Len(s) = 1 /\ s[1].left = {}
          /\ folders' = WithoutRow(f) /\ Goto(r, h) /\ h.pc = "idle"
          /\ UNCHANGED chats
    BY <1>1, DeleteOwnMoves DEF TypeInv, TypeOK, Handler
  <2>2. /\ s[1].folder = f /\ ChildrenAhead(s) /\ ChatsGone(s[1].folder) /\ s[1] \in Frame
    BY <2>1, ElementOfSeq DEF ReachInv, Walk
  <2>3. f \in Folder /\ Children(f) = {}
    BY <2>1, <2>2 DEF ChildrenAhead, Frame
  <2> QED
    BY <2>1, <2>2, <2>3
<1>3. NothingOutOfReach'
  BY <1>2, ReachRowDeleted
<1> QED
  BY <1>1, <1>2, <1>3, ReachHandler

\* With one request at a time every folder hangs below one that exists and
\* every chat is listed in one, however many levels a deletion has walked when
\* it fails, meets a loop of folders or dies with its process, but for what a
\* request has put where there was no folder and for the chats of a folder
\* whose deletion of chats failed.
THEOREM DeletionsLeaveNothingBehind ==
  ASSUME OneRequest
  PROVE  Spec => []NothingOutOfReach
<1>1. Init => ReachInv
  <2> SUFFICES ASSUME Init PROVE ReachInv
    OBVIOUS
  <2>1. \A r \in Request : req[r].pc = "idle"
    BY Handlers DEF Init, Place
  <2>2. NothingOutOfReach
    BY DEF Init, NothingOutOfReach, ParentsLive, ChatsListed, Live, Shown, NoRow, NoChat
  <2> QED
    BY <2>1, <2>2, TypeInit DEF ReachInv
<1>2. ReachInv /\ [Next]_vars => ReachInv'
  <2> SUFFICES ASSUME ReachInv, [Next]_vars PROVE ReachInv'
    OBVIOUS
  <2>1. TypeInv'
    BY TypeNext DEF ReachInv
  <2>2. CASE Next
    BY <2>1, <2>2, ReachWrites, ReachMoveChat, ReachDeleteFolder, ReachDeleteChild,
       ReachDeleteRow, ReachDeleteOwn DEF Next, HandlerStep
  <2>3. CASE UNCHANGED vars
    BY <2>1, <2>3 DEF vars, ReachInv, NothingOutOfReach, ParentsLive, ChatsListed, Walk,
       ChildrenAhead, ChatsGone, Children, Live, Shown
  <2> QED
    BY <2>2, <2>3
<1>3. ReachInv => NothingOutOfReach
  BY DEF ReachInv
<1> QED
  BY <1>1, <1>2, <1>3, PTL DEF Spec
=============================================================================
