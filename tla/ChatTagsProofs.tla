---------------------------- MODULE ChatTagsProofs ----------------------------
(***************************************************************************)
(* Proofs about the tags of chats, for any number of chats, tags and       *)
(* processes: the rows of the tag table are the tags of the chats, but for *)
(* what a handler has left behind that failed, was disturbed or miscounts. *)
(* The argument follows a handler that nothing disturbs through the tags   *)
(* it is about: those it has still to count, the one in its hand, those it *)
(* has settled.                                                            *)
(***************************************************************************)
EXTENDS TagRows, FiniteSetTheorems, TLAPS

\* The tags that chats other than those of D have, and the tags in use by them.
BorneBut(t, D) == \E c \in Chat \ D : Bears(c, t)
InUseBut(t, D) == \E c \in Chat \ D : Carries(c, t) /\ ~ chat[c].archived

\* The tag has its row if one of those chats needs it, and a chat if it has a
\* row; but for what was left behind.
Listed(t, D) == InUseBut(t, D) => t \in rows \cup lost
Kept(t, D) == t \in rows \ loose => BorneBut(t, D)
Settled(t, D) == Listed(t, D) /\ Kept(t, D)

\* The chat that is gone when the handler ends.
Leaving(p) == IF proc[p].op = "delete" THEN {proc[p].chat} ELSE {}

\* Where a handler may be, given what it was asked for.
HandlerOK(p) ==
  /\ proc[p].check \cup proc[p].add \subseteq proc[p].tags
  /\ proc[p].pc \in {"idle", "toggle"} => proc[p].tags = {}
  /\ proc[p].pc = "toggle" => proc[p].op = "archive"
  /\ proc[p].pc = "detach" => /\ proc[p].op \in {"remove", "clear", "update"}
                              /\ proc[p].tags \subseteq proc[p].check \cup proc[p].add
  /\ proc[p].pc \in {"drop", "insert", "attach"} => proc[p].tag \in proc[p].tags
  /\ proc[p].pc = "insert" => proc[p].tag \in proc[p].add
  /\ proc[p].pc = "attach" => Attaches(p)
  /\ Attaches(p) \/ proc[p].op \in {"archive", "import"} => proc[p].chat \in Chat
  /\ proc[p].add # {} => Attaches(p) \/ proc[p].op \in {"archive", "import"}

\* The tags a handler is about that it has not settled yet, or that it has.
HandOf(p, t) ==
  /\ t \in proc[p].check => Listed(t, Leaving(p))
  /\ Is(p, "drop") /\ t = proc[p].tag => ~ InUseBut(t, Leaving(p))
  /\ Is(p, "attach") /\ t = proc[p].tag => t \in rows
  /\ /\ t \notin proc[p].check \cup proc[p].add
     /\ ~ (proc[p].pc \in {"drop", "attach"} /\ t = proc[p].tag)
     => Settled(t, Leaving(p))

\* What an undisturbed handler can rely on, as long as no call of it fails.
Holds(p) ==
  /\ proc[p].op \in {"archive", "import", "delete"} /\ proc[p].chat # NoChat =>
       \A t \in proc[p].tags : Bears(proc[p].chat, t)
  /\ proc[p].clean => \A t \in proc[p].tags : Miscounts(p, t) \/ HandOf(p, t)

TagInv ==
  /\ TypeOK
  /\ touched \subseteq Process /\ lost \cap rows = {} /\ loose \subseteq rows
  /\ \A p \in Process : HandlerOK(p) /\ (p \notin touched => Holds(p))
  /\ \A t \in Tag : ~ InHand(t) => Settled(t, {})

----------------------------------------------------------------------------
(* The types. *)

LEMMA IdleIs ==
  Idle \in Handler /\ Idle.op = "none" /\ Idle.pc = "idle" /\ Idle.tags = {}
    /\ Idle.check = {} /\ Idle.add = {}
BY DEF Idle, About, Handler, Op, Pc

LEMMA GotoIs ==
  ASSUME TypeOK, NEW p \in Process, NEW h, Goto(p, h)
  PROVE  proc'[p] = h /\ \A q \in Process \ {p} : proc'[q] = proc[q]
BY DEF Goto, TypeOK

Keeps(p) ==
  /\ proc'[p].op = proc[p].op /\ proc'[p].chat = proc[p].chat
  /\ proc'[p].tags = proc[p].tags
Alone(p) == \A q \in Process \ {p} : proc'[q] = proc[q]
ProcTyped ==
  /\ proc' \in [Process -> Handler]
  /\ \A p \in Process :
       /\ proc'[p].pc \in {"detach", "toggle", "attach"} => proc'[p].chat \in Chat
       /\ proc'[p].pc \in {"drop", "insert", "attach"} => proc'[p].tag \in Tag

\* A handler record that is well formed in the place of p's keeps them so.
LEMMA GotoTyped ==
  ASSUME TypeOK, NEW p \in Process, NEW h \in Handler, Goto(p, h),
         h.pc \in {"detach", "toggle", "attach"} => h.chat \in Chat,
         h.pc \in {"drop", "insert", "attach"} => h.tag \in Tag
  PROVE  ProcTyped
<1>1. proc' = [proc EXCEPT ![p] = h] /\ proc \in [Process -> Handler]
  BY DEF Goto, TypeOK
<1>2. proc' \in [Process -> Handler]
  BY <1>1
<1>3. \A q \in Process : proc'[q] = IF q = p THEN h ELSE proc[q]
  BY <1>1
<1> QED
  BY <1>2, <1>3 DEF ProcTyped, TypeOK

\* Requests that start a handler.
Begun(p, h) ==
  /\ proc[p].pc = "idle" /\ Goto(p, h) /\ UNCHANGED rows
  /\ h.tags = h.check \cup h.add /\ h.clean
  /\ \/ /\ UNCHANGED chat
        /\ \/ h.op = "add" /\ h.pc = "each" /\ h.check = {}
           \/ h.op \in {"remove", "clear", "update"} /\ h.pc = "detach"
                /\ (h.op # "update" => h.add = {})
           \/ h.op = "archive" /\ h.pc = "toggle" /\ h.tags = {}
           \/ /\ h.op = "delete" /\ h.pc = "each" /\ h.add = {}
              /\ h.chat # NoChat => \A t \in h.tags : Bears(h.chat, t)
           \/ h.op \in {"search", "list"} /\ h.pc = "each" /\ h.add = {}
     \/ /\ h.op = "import" /\ h.pc = "each" /\ h.check = {} /\ h.chat \in Chat
        /\ chat[h.chat].row = "new"
        /\ \A t \in h.tags : Bears(h.chat, t)'
        /\ \A t \in Tag : Bears(h.chat, t)' => t \in h.tags
        /\ \A d \in Chat \ {h.chat} : chat'[d] = chat[d]
  /\ chat' \in [Chat -> ChatRow] /\ \A c \in Chat : There(c)' \/ chat'[c].tags = {}
  /\ requests' \in 0 .. MaxRequests
  /\ h \in Handler /\ (h.pc \in {"detach", "toggle"} \/ h.op = "add" => h.chat \in Chat)

LEMMA IdsTyped ==
  /\ \A T \in SUBSET Given : Ids(T) \in SUBSET Tag
  /\ \A c \in Chat : TypeOK => chat[c].tags \in SUBSET Given
BY ConstantsAssumption DEF Ids, TypeOK, ChatRow

\* A chat that carries the id of a tag has the tag, and one that is there has
\* the tags whose ids are made from what its row says.
LEMMA CarriesBears ==
  ASSUME NEW c, NEW t \in Tag
  PROVE  /\ (Carries(c, t) => Bears(c, t)) /\ (Carries(c, t)' => Bears(c, t)')
         /\ Carries(c, t) <=> There(c) /\ t \in Spelt(c, t)
         /\ Carries(c, t)' <=> There(c)' /\ t \in Spelt(c, t)'
BY ConstantsAssumption DEF Carries, Bears, Spelt, There

LEMMA BearsIds ==
  ASSUME NEW c, NEW t
  PROVE  /\ Bears(c, t) <=> There(c) /\ t \in Ids(chat[c].tags)
         /\ Bears(c, t)' <=> There(c)' /\ t \in Ids(chat'[c].tags)
BY DEF Bears, Spelt, Ids, There

LEMMA RequestCounts ==
  ASSUME TypeOK, NEW p \in Process, Request(p)
  PROVE  proc[p].pc = "idle" /\ requests' \in 0 .. MaxRequests
BY ConstantsAssumption DEF TypeOK, Request, Is

LEMMA StartsIs ==
  ASSUME TypeOK, NEW p \in Process, NEW h, Starts(p, h)
  PROVE  /\ proc[p].pc = "idle" /\ Goto(p, h) /\ UNCHANGED <<chat, rows>>
         /\ chat' \in [Chat -> ChatRow] /\ \A c \in Chat : There(c)' \/ chat'[c].tags = {}
         /\ requests' \in 0 .. MaxRequests
BY RequestCounts DEF Starts, TypeOK, There

LEMMA ImportBegins ==
  ASSUME TypeOK, NEW p \in Process, NEW c \in Chat, NEW T \in SUBSET Given, ImportChat(p, c, T)
  PROVE  \E h : Begun(p, h)
<1> DEFINE h == About("import", "each", c, {}, Ids(T))
           r == [row |-> "there", archived |-> FALSE, tags |-> T]
<1>1. /\ h \in Handler /\ h.op = "import" /\ h.pc = "each" /\ h.chat = c
      /\ h.tags = Ids(T) /\ h.check = {} /\ h.add = Ids(T) /\ h.clean = TRUE
  BY IdsTyped DEF About, Handler, Op, Pc
<1>2. r \in ChatRow /\ r.row = "there" /\ r.tags = T
  BY DEF ChatRow
<1> HIDE DEF r, h
<1>3. chat' = [chat EXCEPT ![c] = r] /\ chat \in [Chat -> ChatRow] /\ chat[c].row = "new"
  BY DEF ImportChat, TypeOK, r
<1>4. /\ chat' \in [Chat -> ChatRow] /\ chat'[c] = r
      /\ \A d \in Chat \ {c} : chat'[d] = chat[d]
  BY <1>2, <1>3
<1>5. \A d \in Chat : There(d)' \/ chat'[d].tags = {}
  BY <1>2, <1>4 DEF There, TypeOK
<1>6. Goto(p, h) /\ UNCHANGED rows
  BY DEF ImportChat, h
<1>7. proc[p].pc = "idle" /\ requests' \in 0 .. MaxRequests
  BY RequestCounts DEF ImportChat
<1>8. \A t : Bears(c, t)' <=> t \in Ids(T)
  BY <1>2, <1>4, BearsIds DEF There
<1> QED
  BY <1>1, <1>3, <1>4, <1>5, <1>6, <1>7, <1>8 DEF Begun

LEMMA BeginsQuietly ==
  ASSUME TypeOK, NEW p \in Process, NEW op \in Op, NEW pc \in Pc, NEW c \in Chat \cup {NoChat},
         NEW check \in SUBSET Tag, NEW add \in SUBSET Tag,
         Starts(p, About(op, pc, c, check, add)),
         \/ op = "add" /\ pc = "each" /\ check = {}
         \/ op \in {"remove", "clear", "update"} /\ pc = "detach" /\ (op # "update" => add = {})
         \/ op = "archive" /\ pc = "toggle" /\ check = {} /\ add = {}
         \/ /\ op = "delete" /\ pc = "each" /\ add = {}
            /\ c # NoChat => \A t \in check : Bears(c, t)
         \/ op \in {"search", "list"} /\ pc = "each" /\ add = {},
         pc \in {"detach", "toggle"} \/ op = "add" => c \in Chat
  PROVE  \E h : Begun(p, h)
<1> DEFINE h == About(op, pc, c, check, add)
<1>1. /\ h \in Handler /\ h.op = op /\ h.pc = pc /\ h.chat = c /\ h.tags = check \cup add
      /\ h.check = check /\ h.add = add /\ h.clean = TRUE
  BY DEF About, Handler
<1>2. Starts(p, h)
  OBVIOUS
<1> HIDE DEF h
<1>3. /\ proc[p].pc = "idle" /\ Goto(p, h) /\ UNCHANGED <<chat, rows>>
      /\ chat' \in [Chat -> ChatRow] /\ \A d \in Chat : There(d)' \/ chat'[d].tags = {}
      /\ requests' \in 0 .. MaxRequests
  BY <1>2, StartsIs
<1>4. h.op = "archive" => h.tags = {}
  BY <1>1
<1>5. h.op = "delete" /\ h.chat # NoChat => \A t \in h.tags : Bears(h.chat, t)
  BY <1>1
<1> QED
  BY <1>1, <1>3, <1>4, <1>5 DEF Begun

LEMMA HandlersBegin ==
  ASSUME TypeOK, NEW p \in Process,
         \/ \E c \in Chat : \/ ClearTags(p, c) \/ ArchiveChat(p, c) \/ DeleteChat(p, c)
                            \/ \E t \in Tag : AddTag(p, c, t) \/ RemoveTag(p, c, t)
                            \/ \E T \in SUBSET Tag : UpdateTags(p, c, T)
                            \/ \E T \in SUBSET Given : ImportChat(p, c, T)
         \/ \E t \in Tag : SearchTag(p, t) \/ ListTag(p, t)
         \/ \E T \in SUBSET Tag : DeleteForeignChat(p, T)
  PROVE  \E h : Begun(p, h)
<1>1. \A c \in Chat : Ids(chat[c].tags) \in SUBSET Tag /\ c # NoChat
  BY IdsTyped, ConstantsAssumption
<1>2. \A t \in Tag : {t} \in SUBSET Tag
  OBVIOUS
<1>3. ASSUME NEW c \in Chat, NEW t \in Tag, AddTag(p, c, t) \/ RemoveTag(p, c, t)
      PROVE  \E h : Begun(p, h)
  BY <1>2, <1>3, BeginsQuietly DEF AddTag, RemoveTag, Op, Pc
<1>4. ASSUME NEW c \in Chat, ClearTags(p, c) PROVE \E h : Begun(p, h)
  BY <1>1, <1>4, BeginsQuietly DEF ClearTags, Op, Pc
<1>5. ASSUME NEW c \in Chat, NEW T \in SUBSET Tag, UpdateTags(p, c, T) PROVE \E h : Begun(p, h)
  BY <1>1, <1>5, BeginsQuietly DEF UpdateTags, Op, Pc
<1>6. ASSUME NEW c \in Chat, ArchiveChat(p, c) PROVE \E h : Begun(p, h)
  BY <1>6, BeginsQuietly DEF ArchiveChat, Op, Pc
<1>7. ASSUME NEW c \in Chat, DeleteChat(p, c) PROVE \E h : Begun(p, h)
  <2>1. \A t \in Ids(chat[c].tags) : Bears(c, t)
    BY <1>7, BearsIds DEF DeleteChat
  <2> QED
    BY <1>1, <1>7, <2>1, BeginsQuietly DEF DeleteChat, Op, Pc
<1>8. ASSUME NEW T \in SUBSET Tag, DeleteForeignChat(p, T) PROVE \E h : Begun(p, h)
  <2>1. Starts(p, About("delete", "each", NoChat, T, {}))
    BY <1>8 DEF DeleteForeignChat
  <2>2. "delete" \in Op /\ "each" \in Pc /\ {} \in SUBSET Tag
    BY DEF Op, Pc
  <2> QED
    BY <2>1, <2>2, BeginsQuietly
<1>9. ASSUME NEW t \in Tag, SearchTag(p, t) \/ ListTag(p, t) PROVE \E h : Begun(p, h)
  <2>1. PICK op \in {"search", "list"} : Starts(p, About(op, "each", NoChat, {t}, {}))
    BY <1>9 DEF SearchTag, ListTag
  <2>2. op \in Op /\ "each" \in Pc /\ {} \in SUBSET Tag
    BY DEF Op, Pc
  <2> QED
    BY <1>2, <2>1, <2>2, BeginsQuietly
<1> QED
  BY <1>3, <1>4, <1>5, <1>6, <1>7, <1>8, <1>9, ImportBegins

----------------------------------------------------------------------------
(* What the steps of a handler do to its record, the chats and the rows. *)

ChatTyped == chat' \in [Chat -> ChatRow] /\ \A c \in Chat : There(c)' \/ chat'[c].tags = {}
Waits(p) == proc'[p].check = proc[p].check /\ proc'[p].add = proc[p].add
Cleaner(p) == proc'[p].clean => proc[p].clean

LEMMA EachIs ==
  ASSUME TypeOK, NEW p \in Process
  PROVE  /\ Each(p) \in Handler
         /\ Each(p).op = proc[p].op /\ Each(p).pc = "each" /\ Each(p).chat = proc[p].chat
         /\ Each(p).tags = proc[p].tags /\ Each(p).check = proc[p].check
         /\ Each(p).add = proc[p].add /\ Each(p).tag = NoTag /\ Each(p).clean = proc[p].clean
<1>1. proc[p] \in Handler
  BY DEF TypeOK
<1> QED
  BY <1>1 DEF Each, Handler, Pc

LEMMA FailingIs ==
  ASSUME NEW h \in Handler
  PROVE  /\ Failing(h) \in Handler
         /\ Failing(h).op = h.op /\ Failing(h).pc = h.pc /\ Failing(h).chat = h.chat
         /\ Failing(h).tags = h.tags /\ Failing(h).check = h.check /\ Failing(h).add = h.add
         /\ Failing(h).tag = h.tag /\ Failing(h).clean = FALSE
BY DEF Failing, Handler

LEMMA ReturnIs ==
  ASSUME TypeOK, NEW p \in Process, Return(p)
  PROVE  proc'[p] = Idle /\ Alone(p) /\ ProcTyped
BY IdleIs, GotoIs, GotoTyped DEF Return, Alone

\* The next thing: the handler goes back to its tags.
LEMMA GoesBack ==
  ASSUME TypeOK, NEW p \in Process, Goto(p, Each(p)) \/ Goto(p, Failing(Each(p)))
  PROVE  /\ Alone(p) /\ ProcTyped /\ Keeps(p) /\ Waits(p) /\ Cleaner(p)
         /\ proc'[p].pc = "each"
         /\ Goto(p, Failing(Each(p))) => ~ proc'[p].clean
<1> DEFINE h == Each(p)
           g == Failing(Each(p))
<1>1. /\ h \in Handler
      /\ h.op = proc[p].op /\ h.pc = "each" /\ h.chat = proc[p].chat /\ h.tags = proc[p].tags
      /\ h.check = proc[p].check /\ h.add = proc[p].add /\ h.clean = proc[p].clean
  BY EachIs
<1>2. /\ g \in Handler
      /\ g.op = h.op /\ g.pc = h.pc /\ g.chat = h.chat /\ g.tags = h.tags
      /\ g.check = h.check /\ g.add = h.add /\ g.clean = FALSE
  BY <1>1, FailingIs
<1> HIDE DEF h, g
<1>3. PICK k \in {h, g} : Goto(p, k) /\ (Goto(p, g) => k = g)
  <2>1. Goto(p, h) \/ Goto(p, g)
    BY DEF h, g
  <2> QED
    BY <2>1
<1>4. proc'[p] = k /\ Alone(p)
  BY <1>3, GotoIs DEF Alone
<1>5. ProcTyped
  BY <1>1, <1>2, <1>3, GotoTyped
<1>6. Goto(p, g) => ~ proc'[p].clean
  BY <1>2, <1>3, <1>4
<1> QED
  BY <1>1, <1>2, <1>3, <1>4, <1>5, <1>6 DEF Keeps, Waits, Cleaner, g

LEMMA DetachMoves ==
  ASSUME TypeOK, NEW p \in Process, Detach(p)
  PROVE  /\ proc[p].pc = "detach" /\ proc'[p].pc = "each"
         /\ Alone(p) /\ ProcTyped /\ Keeps(p) /\ Waits(p) /\ Cleaner(p)
         /\ UNCHANGED <<rows, requests>> /\ ChatTyped
         /\ \A d \in Chat : /\ chat'[d].row = chat[d].row
                            /\ chat'[d].archived = chat[d].archived
                            /\ chat'[d].tags \subseteq chat[d].tags
<1>1. /\ proc[p].pc = "detach" /\ UNCHANGED <<rows, requests>>
      /\ Goto(p, Each(p)) \/ Goto(p, Failing(Each(p)))
  BY DEF Detach, Is
<1>2. chat \in [Chat -> ChatRow] /\ \A c \in Chat : There(c) \/ chat[c].tags = {}
  BY DEF TypeOK
<1>3. PICK c \in Chat, off \in {proc[p].check, Given} :
        chat' = chat \/ chat' = [chat EXCEPT ![c].tags = @ \ off]
  <2>1. proc[p].chat \in Chat
    BY <1>1 DEF TypeOK
  <2> QED
    BY <2>1 DEF Detach
<1>4. /\ chat' \in [Chat -> ChatRow]
      /\ \A d \in Chat : /\ chat'[d].row = chat[d].row
                         /\ chat'[d].archived = chat[d].archived
                         /\ chat'[d].tags \subseteq chat[d].tags
  <2>1. CASE chat' = chat
    BY <1>2, <2>1
  <2>2. CASE chat' = [chat EXCEPT ![c].tags = @ \ off]
    <3> DEFINE r == [chat[c] EXCEPT !.tags = @ \ off]
    <3>1. /\ r \in ChatRow /\ r.row = chat[c].row /\ r.archived = chat[c].archived
          /\ r.tags \subseteq chat[c].tags
      BY <1>2 DEF ChatRow
    <3>2. chat' = [chat EXCEPT ![c] = r]
      BY <2>2
    <3> HIDE DEF r
    <3> QED
      BY <1>2, <3>1, <3>2
  <2> QED
    BY <1>3, <2>1, <2>2
<1>5. ChatTyped
  BY <1>2, <1>4 DEF ChatTyped, There
<1> QED
  BY <1>1, <1>4, <1>5, GoesBack

LEMMA DropMoves ==
  ASSUME TypeOK, NEW p \in Process, Drop(p)
  PROVE  /\ proc[p].pc = "drop" /\ proc'[p].pc = "each"
         /\ Alone(p) /\ ProcTyped /\ Keeps(p) /\ Waits(p) /\ Cleaner(p)
         /\ UNCHANGED <<chat, requests>>
         /\ rows' = rows \ {proc[p].tag} \/ (rows' = rows /\ ~ proc'[p].clean)
BY GoesBack DEF Drop, Is

LEMMA AttachMoves ==
  ASSUME TypeOK, NEW p \in Process, NEW c, c = proc[p].chat, NEW t, t = proc[p].tag, Attach(p)
  PROVE  /\ proc[p].pc = "attach" /\ proc'[p].pc = "each" /\ c \in Chat /\ t \in Tag
         /\ Alone(p) /\ ProcTyped /\ Keeps(p) /\ Waits(p) /\ Cleaner(p)
         /\ UNCHANGED <<rows, requests>> /\ ChatTyped
         /\ \A d \in Chat : chat'[d].row = chat[d].row /\ chat'[d].archived = chat[d].archived
         /\ \A d \in Chat \ {c} : chat'[d] = chat[d]
         /\ \/ There(c) /\ chat'[c].tags = chat[c].tags \cup {t}
            \/ chat'[c] = chat[c] /\ ~ proc'[p].clean
<1>1. /\ proc[p].pc = "attach" /\ UNCHANGED <<rows, requests>>
      /\ Goto(p, Each(p)) \/ Goto(p, Failing(Each(p)))
  BY DEF Attach, Is
<1>2. /\ chat \in [Chat -> ChatRow] /\ \A d \in Chat : There(d) \/ chat[d].tags = {}
      /\ c \in Chat /\ t \in Tag
  BY <1>1 DEF TypeOK
<1>3. CASE chat' = chat /\ Goto(p, Failing(Each(p)))
  BY <1>1, <1>2, <1>3, GoesBack DEF ChatTyped, There
<1>4. CASE There(c) /\ chat' = [chat EXCEPT ![c].tags = @ \cup {t}]
  <2> DEFINE r == [chat[c] EXCEPT !.tags = @ \cup {t}]
  <2>1. /\ r \in ChatRow /\ r.row = chat[c].row /\ r.archived = chat[c].archived
        /\ r.tags = chat[c].tags \cup {t}
    BY <1>2, ConstantsAssumption DEF ChatRow
  <2>2. chat' = [chat EXCEPT ![c] = r]
    BY <1>4
  <2> HIDE DEF r
  <2>3. /\ chat' \in [Chat -> ChatRow] /\ chat'[c] = r
        /\ \A d \in Chat \ {c} : chat'[d] = chat[d]
    BY <1>2, <2>1, <2>2
  <2>4. ChatTyped
    BY <1>2, <1>4, <2>1, <2>3 DEF ChatTyped, There
  <2> QED
    BY <1>1, <1>2, <1>4, <2>1, <2>3, <2>4, GoesBack
<1> QED
  BY <1>3, <1>4 DEF Attach

\* From one tag to the next.
LEMMA CountMoves ==
  ASSUME TypeOK, NEW p \in Process, Count(p)
  PROVE  /\ proc[p].pc = "each" /\ UNCHANGED <<chat, rows, requests>>
         /\ Alone(p) /\ ProcTyped /\ Keeps(p) /\ Cleaner(p)
         /\ proc'[p].add = proc[p].add
         /\ \E t \in proc[p].check :
              /\ t \in Tag /\ proc'[p].check = proc[p].check \ {t}
              /\ \/ Unused(p, t) /\ proc'[p].pc = "drop" /\ proc'[p].tag = t
                 \/ ~ Unused(p, t) /\ proc'[p].pc = "each"
<1>1. PICK t \in proc[p].check :
        LET h == [proc[p] EXCEPT !.check = @ \ {t}] IN
        Goto(p, IF Unused(p, t) THEN [h EXCEPT !.pc = "drop", !.tag = t] ELSE h)
  BY DEF Count
<1> DEFINE h == [proc[p] EXCEPT !.check = @ \ {t}]
           g == [h EXCEPT !.pc = "drop", !.tag = t]
<1>2. proc[p] \in Handler /\ proc[p].pc = "each" /\ UNCHANGED <<chat, rows, requests>>
  BY DEF Count, Is, TypeOK
<1>3. t \in Tag
  BY <1>2 DEF Handler
<1>4. /\ h \in Handler
      /\ h.op = proc[p].op /\ h.pc = "each" /\ h.chat = proc[p].chat /\ h.tags = proc[p].tags
      /\ h.check = proc[p].check \ {t} /\ h.add = proc[p].add /\ h.clean = proc[p].clean
  BY <1>2 DEF Handler
<1>5. /\ g \in Handler
      /\ g.op = proc[p].op /\ g.pc = "drop" /\ g.chat = proc[p].chat /\ g.tags = proc[p].tags
      /\ g.check = proc[p].check \ {t} /\ g.add = proc[p].add /\ g.clean = proc[p].clean
      /\ g.tag = t
  BY <1>2, <1>3 DEF Handler, Pc
<1>6. Goto(p, IF Unused(p, t) THEN g ELSE h)
  BY <1>1
<1> HIDE DEF h, g
<1>7. CASE Unused(p, t)
  <2>1. Goto(p, g)
    BY <1>6, <1>7
  <2>2. proc'[p] = g /\ Alone(p) /\ ProcTyped
    BY <1>3, <1>5, <2>1, GotoIs, GotoTyped DEF Alone
  <2> QED
    BY <1>2, <1>3, <1>5, <1>7, <2>2 DEF Keeps, Cleaner
<1>8. CASE ~ Unused(p, t)
  <2>1. Goto(p, h)
    BY <1>6, <1>8
  <2>2. proc'[p] = h /\ Alone(p) /\ ProcTyped
    BY <1>4, <2>1, GotoIs, GotoTyped DEF Alone
  <2> QED
    BY <1>2, <1>3, <1>4, <1>8, <2>2 DEF Keeps, Cleaner
<1> QED
  BY <1>7, <1>8

\* The tag has its row: it is put on the chat, or is there already.
LEMMA AddedMoves ==
  ASSUME TypeOK, NEW p \in Process, NEW t \in Tag, Goto(p, Added(p, t)),
         Attaches(p) => proc[p].chat \in Chat
  PROVE  /\ Alone(p) /\ ProcTyped /\ Keeps(p) /\ Cleaner(p)
         /\ proc'[p].check = proc[p].check /\ proc'[p].add = proc[p].add \ {t}
         /\ \/ Attaches(p) /\ proc'[p].pc = "attach" /\ proc'[p].tag = t
            \/ ~ Attaches(p) /\ proc'[p].pc = "each"
<1> DEFINE h == [proc[p] EXCEPT !.pc = "attach", !.tag = t, !.add = @ \ {t}]
           g == [Each(p) EXCEPT !.add = @ \ {t}]
<1>1. proc[p] \in Handler
  BY DEF TypeOK
<1>2. /\ h \in Handler
      /\ h.op = proc[p].op /\ h.pc = "attach" /\ h.chat = proc[p].chat /\ h.tags = proc[p].tags
      /\ h.check = proc[p].check /\ h.add = proc[p].add \ {t} /\ h.clean = proc[p].clean
      /\ h.tag = t
  BY <1>1 DEF Handler, Pc
<1>3. /\ g \in Handler
      /\ g.op = proc[p].op /\ g.pc = "each" /\ g.chat = proc[p].chat /\ g.tags = proc[p].tags
      /\ g.check = proc[p].check /\ g.add = proc[p].add \ {t} /\ g.clean = proc[p].clean
  BY EachIs DEF Handler
<1>4. Goto(p, IF Attaches(p) THEN h ELSE g)
  BY DEF Added
<1> HIDE DEF h, g
<1>5. CASE Attaches(p)
  <2>1. Goto(p, h)
    BY <1>4, <1>5
  <2>2. proc'[p] = h /\ Alone(p) /\ ProcTyped
    BY <1>2, <1>5, <2>1, GotoIs, GotoTyped DEF Alone
  <2> QED
    BY <1>2, <1>5, <2>2 DEF Keeps, Cleaner
<1>6. CASE ~ Attaches(p)
  <2>1. Goto(p, g)
    BY <1>4, <1>6
  <2>2. proc'[p] = g /\ Alone(p) /\ ProcTyped
    BY <1>3, <2>1, GotoIs, GotoTyped DEF Alone
  <2> QED
    BY <1>3, <1>6, <2>2 DEF Keeps, Cleaner
<1> QED
  BY <1>5, <1>6

LEMMA FindMoves ==
  ASSUME TypeOK, NEW p \in Process, HandlerOK(p), Find(p)
  PROVE  /\ proc[p].pc = "each" /\ proc[p].check = {} /\ UNCHANGED <<chat, rows, requests>>
         /\ Alone(p) /\ ProcTyped /\ Keeps(p) /\ Cleaner(p) /\ proc'[p].check = {}
         /\ \E t \in proc[p].add :
              /\ t \in Tag
              /\ \/ t \in rows /\ proc'[p].add = proc[p].add \ {t}
                    /\ \/ Attaches(p) /\ proc'[p].pc = "attach" /\ proc'[p].tag = t
                       \/ ~ Attaches(p) /\ proc'[p].pc = "each"
                 \/ t \notin rows /\ proc'[p].add = proc[p].add
                      /\ proc'[p].pc = "insert" /\ proc'[p].tag = t
<1>1. PICK t \in proc[p].add :
        Goto(p, IF t \in rows THEN Added(p, t) ELSE [proc[p] EXCEPT !.pc = "insert", !.tag = t])
  BY DEF Find
<1>2. /\ proc[p] \in Handler /\ proc[p].pc = "each" /\ proc[p].check = {}
      /\ UNCHANGED <<chat, rows, requests>>
  BY DEF Find, Is, TypeOK
<1>3. t \in Tag
  BY <1>2 DEF Handler
<1>4. CASE t \in rows
  <2>1. Goto(p, Added(p, t))
    BY <1>1, <1>4
  <2> QED
    BY <1>2, <1>3, <1>4, <2>1, AddedMoves DEF HandlerOK
<1>5. CASE t \notin rows
  <2> DEFINE h == [proc[p] EXCEPT !.pc = "insert", !.tag = t]
  <2>1. /\ h \in Handler
        /\ h.op = proc[p].op /\ h.pc = "insert" /\ h.chat = proc[p].chat /\ h.tags = proc[p].tags
        /\ h.check = proc[p].check /\ h.add = proc[p].add /\ h.clean = proc[p].clean
        /\ h.tag = t
    BY <1>2, <1>3 DEF Handler, Pc
  <2>2. Goto(p, h)
    BY <1>1, <1>5
  <2> HIDE DEF h
  <2>3. proc'[p] = h /\ Alone(p) /\ ProcTyped
    BY <1>3, <2>1, <2>2, GotoIs, GotoTyped DEF Alone
  <2> QED
    BY <1>2, <1>3, <1>5, <2>1, <2>3 DEF Keeps, Cleaner
<1> QED
  BY <1>4, <1>5

LEMMA InsertMoves ==
  ASSUME TypeOK, NEW p \in Process, HandlerOK(p), NEW t, t = proc[p].tag, Insert(p)
  PROVE  /\ proc[p].pc = "insert" /\ t \in Tag /\ UNCHANGED <<chat, requests>>
         /\ Alone(p) /\ ProcTyped /\ Keeps(p) /\ Cleaner(p)
         /\ proc'[p].check = proc[p].check /\ proc'[p].add = proc[p].add \ {t}
         /\ \/ /\ rows' = rows \cup {t}
               /\ \/ Attaches(p) /\ proc'[p].pc = "attach" /\ proc'[p].tag = t
                  \/ ~ Attaches(p) /\ proc'[p].pc = "each"
            \/ rows' = rows /\ proc'[p].pc = "each" /\ ~ proc'[p].clean
<1>1. proc[p].pc = "insert" /\ t \in Tag /\ UNCHANGED <<chat, requests>>
  BY DEF Insert, Is, TypeOK
<1>2. CASE rows' = rows \cup {t} /\ Goto(p, Added(p, t))
  BY <1>1, <1>2, AddedMoves DEF HandlerOK
<1>3. CASE rows' = rows /\ Goto(p, Failing([Each(p) EXCEPT !.add = @ \ {t}]))
  <2> DEFINE g == [Each(p) EXCEPT !.add = @ \ {t}]
             h == Failing(g)
  <2>1. /\ g \in Handler
        /\ g.op = proc[p].op /\ g.pc = "each" /\ g.chat = proc[p].chat /\ g.tags = proc[p].tags
        /\ g.check = proc[p].check /\ g.add = proc[p].add \ {t}
    BY EachIs DEF Handler
  <2>2. /\ h \in Handler
        /\ h.op = g.op /\ h.pc = g.pc /\ h.chat = g.chat /\ h.tags = g.tags
        /\ h.check = g.check /\ h.add = g.add /\ h.clean = FALSE
    BY <2>1, FailingIs
  <2>3. Goto(p, h)
    BY <1>3
  <2> HIDE DEF g, h
  <2>4. proc'[p] = h /\ Alone(p) /\ ProcTyped
    BY <2>1, <2>2, <2>3, GotoIs, GotoTyped DEF Alone
  <2> QED
    BY <1>1, <1>3, <2>1, <2>2, <2>4 DEF Keeps, Cleaner
<1> QED
  BY <1>2, <1>3 DEF Insert

LEMMA ToggleMoves ==
  ASSUME TypeOK, NEW p \in Process, HandlerOK(p), NEW c, c = proc[p].chat, Toggle(p)
  PROVE  /\ proc[p].pc = "toggle" /\ c \in Chat /\ proc[p].tags = {}
         /\ Alone(p) /\ ProcTyped /\ ChatTyped /\ UNCHANGED <<rows, requests>>
         /\ \/ proc'[p] = Idle /\ UNCHANGED chat
            \/ /\ \A d \in Chat : chat'[d].row = chat[d].row /\ chat'[d].tags = chat[d].tags
               /\ \A d \in Chat \ {c} : chat'[d] = chat[d]
               /\ proc'[p].op = "archive" /\ proc'[p].pc = "each" /\ proc'[p].chat = c
               /\ proc'[p].tags = Ids(chat[c].tags) /\ There(c)
               /\ \/ proc'[p].check = {} /\ proc'[p].add = Ids(chat[c].tags)
                  \/ /\ proc'[p].check = Ids(chat[c].tags) /\ proc'[p].add = {}
                     /\ chat'[c].archived
<1>1. /\ proc[p].pc = "toggle" /\ c \in Chat /\ proc[p].tags = {} /\ UNCHANGED <<rows, requests>>
      /\ chat \in [Chat -> ChatRow] /\ \A d \in Chat : There(d) \/ chat[d].tags = {}
  BY DEF Toggle, Is, TypeOK, HandlerOK
<1>2. CASE Return(p) /\ UNCHANGED chat
  BY <1>1, <1>2, ReturnIs DEF ChatTyped, There
<1>3. CASE /\ There(c)
           /\ chat' = [chat EXCEPT ![c].archived = ~ @]
           /\ Goto(p, IF chat[c].archived THEN About("archive", "each", c, {}, Ids(chat[c].tags))
                                          ELSE About("archive", "each", c, Ids(chat[c].tags), {}))
  <2> DEFINE r == [chat[c] EXCEPT !.archived = ~ @]
             g == About("archive", "each", c, {}, Ids(chat[c].tags))
             h == About("archive", "each", c, Ids(chat[c].tags), {})
  <2>1. /\ r \in ChatRow /\ r.row = chat[c].row
        /\ r.tags = chat[c].tags /\ r.archived = ~ chat[c].archived
    BY <1>1 DEF ChatRow
  <2>2. chat' = [chat EXCEPT ![c] = r]
    BY <1>3
  <2>3. Ids(chat[c].tags) \in SUBSET Tag /\ chat[c].archived \in BOOLEAN
    BY <1>1, IdsTyped DEF ChatRow
  <2>4. /\ g \in Handler /\ g.op = "archive" /\ g.pc = "each" /\ g.chat = c
        /\ g.tags = Ids(chat[c].tags) /\ g.check = {} /\ g.add = Ids(chat[c].tags)
    BY <1>1, <2>3 DEF About, Handler, Op, Pc
  <2>5. /\ h \in Handler /\ h.op = "archive" /\ h.pc = "each" /\ h.chat = c
        /\ h.tags = Ids(chat[c].tags) /\ h.check = Ids(chat[c].tags) /\ h.add = {}
    BY <1>1, <2>3 DEF About, Handler, Op, Pc
  <2>6. Goto(p, IF chat[c].archived THEN g ELSE h)
    BY <1>3
  <2> HIDE DEF r, g, h
  <2>7. /\ chat' \in [Chat -> ChatRow] /\ chat'[c] = r
        /\ \A d \in Chat \ {c} : chat'[d] = chat[d]
    BY <1>1, <2>1, <2>2
  <2>8. ChatTyped
    BY <1>1, <2>1, <2>7 DEF ChatTyped, There
  <2>9. PICK k \in {g, h} : Goto(p, k) /\ (k = g \/ (k = h /\ ~ chat[c].archived))
    BY <2>6
  <2>10. proc'[p] = k /\ Alone(p) /\ ProcTyped
    BY <2>4, <2>5, <2>9, GotoIs, GotoTyped DEF Alone
  <2> QED
    BY <1>1, <1>3, <2>1, <2>3, <2>4, <2>5, <2>7, <2>8, <2>9, <2>10
<1> QED
  BY <1>2, <1>3 DEF Toggle

\* A handler that ends: only a deletion changes something, the chat's row.
LEMMA EndMoves ==
  ASSUME TypeOK, NEW p \in Process, NEW c, c = proc[p].chat,
         DeleteRow(p) \/ Answer(p) \/ BreakOff(p)
  PROVE  /\ proc[p].pc # "idle" /\ proc'[p] = Idle /\ Alone(p) /\ ProcTyped /\ ChatTyped
         /\ UNCHANGED <<rows, requests>>
         /\ chat' = chat \/ /\ proc[p].op = "delete"
                            /\ \A d \in Chat : chat'[d] = IF d = c THEN Gone ELSE chat[d]
<1>1. /\ Return(p) /\ UNCHANGED <<rows, requests>> /\ proc[p].pc # "idle"
      /\ \/ chat' = chat
         \/ proc[p].op = "delete" /\ chat' = [d \in Chat |-> IF d = c THEN Gone ELSE chat[d]]
  BY DEF DeleteRow, Answer, BreakOff, AllDone, Is
<1>2. Gone \in ChatRow /\ Gone.tags = {}
  BY DEF Gone, ChatRow
<1>3. chat \in [Chat -> ChatRow] /\ \A d \in Chat : There(d) \/ chat[d].tags = {}
  BY DEF TypeOK
<1>4. ChatTyped
  <2>1. CASE chat' = chat
    BY <1>3, <2>1 DEF ChatTyped, There
  <2>2. CASE chat' = [d \in Chat |-> IF d = c THEN Gone ELSE chat[d]]
    BY <1>2, <1>3, <2>2 DEF ChatTyped, There
  <2> QED
    BY <1>1, <2>1, <2>2
<1> QED
  BY <1>1, <1>4, ReturnIs

\* Requests of one call.
LEMMA BulkMoves ==
  ASSUME TypeOK, NEW p \in Process, ArchiveAll(p) \/ \E C \in SUBSET Chat : DeleteChats(p, C)
  PROVE  /\ proc[p].pc = "idle" /\ proc' = proc /\ rows' = rows /\ ChatTyped
         /\ requests' \in 0 .. MaxRequests
         /\ \A d \in Chat : \/ chat'[d] = Gone
                            \/ /\ chat'[d].row = chat[d].row /\ chat'[d].tags = chat[d].tags
                               /\ chat[d].archived => chat'[d].archived
<1>1. /\ proc[p].pc = "idle" /\ requests' \in 0 .. MaxRequests /\ proc' = proc /\ rows' = rows
  BY RequestCounts DEF ArchiveAll, DeleteChats
<1>2. Gone \in ChatRow /\ Gone.tags = {}
  BY DEF Gone, ChatRow
<1>3. chat \in [Chat -> ChatRow] /\ \A d \in Chat : There(d) \/ chat[d].tags = {}
  BY DEF TypeOK
<1>4. CASE ArchiveAll(p)
  <2> DEFINE r(d) == [chat[d] EXCEPT !.archived = TRUE]
  <2>1. \A d \in Chat : r(d) \in ChatRow /\ r(d).row = chat[d].row /\ r(d).tags = chat[d].tags
                        /\ r(d).archived
    BY <1>3 DEF ChatRow
  <2>2. chat' = [d \in Chat |-> IF There(d) THEN r(d) ELSE chat[d]]
    BY <1>4 DEF ArchiveAll
  <2> HIDE DEF r
  <2>3. /\ chat' \in [Chat -> ChatRow]
        /\ \A d \in Chat : /\ chat'[d].row = chat[d].row /\ chat'[d].tags = chat[d].tags
                           /\ chat[d].archived => chat'[d].archived
    BY <1>3, <2>1, <2>2
  <2> QED
    BY <1>1, <1>3, <2>3 DEF ChatTyped, There
<1>5. ASSUME NEW C \in SUBSET Chat, DeleteChats(p, C)
      PROVE  /\ ChatTyped
             /\ \A d \in Chat : chat'[d] = Gone \/ chat'[d] = chat[d]
  <2>1. chat' = [d \in Chat |-> IF d \in C THEN Gone ELSE chat[d]]
    BY <1>5 DEF DeleteChats
  <2> QED
    BY <1>2, <1>3, <2>1 DEF ChatTyped, There
<1> QED
  BY <1>1, <1>4, <1>5

----------------------------------------------------------------------------
(* Type correctness. *)

StepOf(p) ==
  \/ \E h : Begun(p, h)
  \/ ArchiveAll(p) \/ \E C \in SUBSET Chat : DeleteChats(p, C)
  \/ Detach(p) \/ Toggle(p) \/ Count(p) \/ Drop(p) \/ Find(p) \/ Insert(p) \/ Attach(p)
  \/ DeleteRow(p) \/ Answer(p) \/ BreakOff(p)

LEMMA NextIs == TypeOK /\ Next => \E p \in Process : StepOf(p)
<1> SUFFICES ASSUME TypeOK, Next PROVE \E p \in Process : StepOf(p)
  OBVIOUS
<1>1. PICK p \in Process : HandlerStep(p) \/ UserRequest(p) \/ \E c \in Chat : ChatRequest(p, c)
  BY DEF Next
<1>2. CASE HandlerStep(p)
  BY <1>2 DEF HandlerStep, StepOf
<1>3. CASE UserRequest(p)
  BY <1>3, HandlersBegin DEF UserRequest, StepOf
<1>4. CASE \E c \in Chat : ChatRequest(p, c)
  BY <1>4, HandlersBegin DEF ChatRequest, StepOf
<1> QED
  BY <1>1, <1>2, <1>3, <1>4

LEMMA BegunIs ==
  ASSUME TypeOK, NEW p \in Process, NEW h, Begun(p, h)
  PROVE  proc'[p] = h /\ Alone(p) /\ ProcTyped /\ ChatTyped /\ h.pc \in {"detach", "toggle", "each"}
<1>1. h \in Handler /\ Goto(p, h) /\ h.pc \in {"detach", "toggle", "each"}
      /\ (h.pc \in {"detach", "toggle", "attach"} => h.chat \in Chat)
  BY DEF Begun
<1> QED
  BY <1>1, GotoIs, GotoTyped DEF Alone, Begun, ChatTyped

\* What every step keeps.
LEMMA StepKeeps ==
  ASSUME TypeOK, NEW p \in Process, HandlerOK(p), StepOf(p)
  PROVE  /\ Alone(p) /\ ProcTyped /\ ChatTyped /\ HandlerOK(p)'
         /\ rows' \subseteq Tag /\ requests' \in 0 .. MaxRequests
<1>1. /\ rows \subseteq Tag /\ requests \in 0 .. MaxRequests
      /\ chat' = chat => ChatTyped
  BY DEF TypeOK, ChatTyped, There
<1>2. ASSUME NEW h, Begun(p, h)
      PROVE  Alone(p) /\ ProcTyped /\ ChatTyped /\ HandlerOK(p)'
               /\ rows' \subseteq Tag /\ requests' \in 0 .. MaxRequests
  <2>1. /\ proc'[p] = h /\ Alone(p) /\ ProcTyped /\ ChatTyped
        /\ h.pc \in {"detach", "toggle", "each"}
    BY <1>2, BegunIs
  <2>2. HandlerOK(p)'
    <3>1. /\ h.check \cup h.add \subseteq h.tags /\ h.tags \subseteq h.check \cup h.add
          /\ h.pc = "toggle" => h.op = "archive" /\ h.tags = {}
          /\ h.pc = "detach" => h.op \in {"remove", "clear", "update"}
          /\ h.op \in {"add", "update", "archive", "import"} => h.chat \in Chat
          /\ h.add # {} => h.op \in {"add", "update", "import"}
      BY <1>2 DEF Begun
    <3> QED
      BY <2>1, <3>1 DEF HandlerOK, Attaches
  <2> QED
    BY <1>1, <1>2, <2>1, <2>2 DEF Begun
<1>3. CASE ArchiveAll(p) \/ \E C \in SUBSET Chat : DeleteChats(p, C)
  <2>1. /\ proc' = proc /\ rows' = rows /\ ChatTyped /\ requests' \in 0 .. MaxRequests
    BY <1>3, BulkMoves
  <2> QED
    BY <1>1, <2>1 DEF Alone, ProcTyped, TypeOK, HandlerOK, Attaches
<1>4. CASE Detach(p)
  BY <1>1, <1>4, DetachMoves DEF HandlerOK, Attaches, Keeps, Waits
<1>5. CASE Toggle(p)
  <2>1. HandlerOK(p)'
    BY <1>5, ToggleMoves, IdleIs DEF HandlerOK, Attaches
  <2> QED
    BY <1>1, <1>5, <2>1, ToggleMoves
<1>6. CASE Count(p)
  <2>1. HandlerOK(p)'
    BY <1>6, CountMoves DEF HandlerOK, Attaches, Keeps
  <2> QED
    BY <1>1, <1>6, <2>1, CountMoves
<1>7. CASE Drop(p)
  <2>1. rows' \subseteq Tag
    BY <1>1, <1>7, DropMoves
  <2> QED
    BY <1>1, <1>7, <2>1, DropMoves DEF HandlerOK, Attaches, Keeps, Waits
<1>8. CASE Find(p)
  <2>1. HandlerOK(p)'
    BY <1>8, FindMoves DEF HandlerOK, Attaches, Keeps
  <2> QED
    BY <1>1, <1>8, <2>1, FindMoves
<1>9. CASE Insert(p)
  <2>1. HandlerOK(p)'
    BY <1>9, InsertMoves DEF HandlerOK, Attaches, Keeps
  <2>2. rows' \subseteq Tag
    BY <1>1, <1>9, InsertMoves
  <2> QED
    BY <1>1, <1>9, <2>1, <2>2, InsertMoves
<1>10. CASE Attach(p)
  BY <1>1, <1>10, AttachMoves DEF HandlerOK, Attaches, Keeps, Waits
<1>11. CASE DeleteRow(p) \/ Answer(p) \/ BreakOff(p)
  BY <1>1, <1>11, EndMoves, IdleIs DEF HandlerOK, Attaches
<1> QED
  BY <1>2, <1>3, <1>4, <1>5, <1>6, <1>7, <1>8, <1>9, <1>10, <1>11 DEF StepOf

HandlersOK == TypeOK /\ \A p \in Process : HandlerOK(p)

LEMMA InitOK == Init => HandlersOK
<1> SUFFICES ASSUME Init PROVE HandlersOK
  OBVIOUS
<1>1. proc = [p \in Process |-> Idle]
  BY DEF Init
<1>2. \A p \in Process : HandlerOK(p)
  BY <1>1, IdleIs DEF HandlerOK, Attaches
<1>3. proc \in [Process -> Handler] /\ \A p \in Process : proc[p].pc = "idle"
  BY <1>1, IdleIs
<1>4. rows \subseteq Tag /\ requests \in 0 .. MaxRequests
  BY ConstantsAssumption DEF Init
<1>5. chat \in [Chat -> ChatRow] /\ \A c \in Chat : There(c) \/ chat[c].tags = {}
  BY DEF Init
<1> QED
  BY <1>2, <1>3, <1>4, <1>5 DEF HandlersOK, TypeOK

LEMMA StepOK == HandlersOK /\ [Next]_vars => HandlersOK'
<1> SUFFICES ASSUME HandlersOK, [Next]_vars PROVE HandlersOK'
  OBVIOUS
<1>1. CASE UNCHANGED vars
  BY <1>1 DEF vars, HandlersOK, TypeOK, There, HandlerOK, Attaches
<1>2. CASE Next
  <2>1. PICK p \in Process : StepOf(p)
    BY <1>2, NextIs DEF HandlersOK
  <2>2. /\ Alone(p) /\ ProcTyped /\ ChatTyped /\ HandlerOK(p)'
        /\ rows' \subseteq Tag /\ requests' \in 0 .. MaxRequests
    BY <2>1, StepKeeps DEF HandlersOK
  <2>3. \A q \in Process \ {p} : HandlerOK(q)'
    BY <2>2 DEF Alone, HandlersOK, HandlerOK, Attaches
  <2>4. TypeOK'
    BY <2>2 DEF TypeOK, ProcTyped, ChatTyped
  <2> QED
    BY <2>2, <2>3, <2>4 DEF HandlersOK
<1> QED
  BY <1>1, <1>2

\* Every reachable state is well typed: a chat that is not there carries no
\* tag, and a handler that is to write a tag has a chat and a tag in hand,
\* whatever the other processes have done since it read them.
THEOREM TagsTypeCorrect == Spec => []TypeOK
<1>1. HandlersOK => TypeOK
  BY DEF HandlersOK
<1> QED
  BY <1>1, InitOK, StepOK, PTL DEF Spec

----------------------------------------------------------------------------
(* The history variables, and what a step leaves as it is. *)

StillAt(t) ==
  /\ t \in rows' <=> t \in rows
  /\ \A c \in Chat : /\ (Carries(c, t)' <=> Carries(c, t)) /\ (Bears(c, t)' <=> Bears(c, t))
                     /\ Carries(c, t) \/ Bears(c, t) => chat'[c].archived = chat[c].archived

LEMMA BearersTell ==
  ASSUME NEW t \in Tag, Bearers(t)' = Bearers(t), (t \in rows') <=> (t \in rows)
  PROVE  StillAt(t)
<1>1. ASSUME NEW c \in Chat, Bears(c, t)
      PROVE  /\ Bears(c, t)' /\ chat'[c].archived = chat[c].archived
             /\ Spelt(c, t)' = Spelt(c, t)
  <2>1. <<c, chat[c].archived, Spelt(c, t)>> \in Bearers(t)'
    BY <1>1 DEF Bearers
  <2> QED
    BY <2>1 DEF Bearers
<1>2. ASSUME NEW c \in Chat, Bears(c, t)' PROVE Bears(c, t)
  <2>1. <<c, chat'[c].archived, Spelt(c, t)'>> \in Bearers(t)
    BY <1>2 DEF Bearers
  <2> QED
    BY <2>1 DEF Bearers
<1>3. \A c \in Chat : Carries(c, t)' <=> Carries(c, t)
  BY <1>1, <1>2, CarriesBears DEF Bears
<1> QED
  BY <1>1, <1>2, <1>3, CarriesBears DEF StillAt

HistoryOK == lost \cap rows = {} /\ loose \subseteq rows

LEMMA HistoryMoves ==
  ASSUME NextT, HistoryOK
  PROVE  /\ HistoryOK'
         /\ \A t : /\ t \in rows \cup lost /\ (t \in rows => t \in rows') => t \in rows' \cup lost'
                   /\ t \in rows' \ loose' /\ t \in rows => t \in rows \ loose
                   /\ t \in rows' \ loose' => t \notin Disorder /\ t \notin LeftBehind
                   /\ t \in Disorder => t \in rows' \cup lost'
BY DEF NextT, HistoryOK

LEMMA UndisturbedStays ==
  ASSUME NextT, NEW p \in Process, p \notin touched', proc'[p].pc # "idle"
  PROVE  p \notin touched /\ ~ Disturbed(p)
BY DEF NextT, Is

\* What holds of a tag whose row stays or is missing still.
LEMMA CarriesOver ==
  ASSUME NextT, HistoryOK, NEW t, (t \in rows') <=> (t \in rows), NEW D, NEW E
  PROVE  /\ Listed(t, D) /\ (InUseBut(t, E)' => InUseBut(t, D)) => Listed(t, E)'
         /\ Kept(t, D) /\ (BorneBut(t, D) => BorneBut(t, E)') => Kept(t, E)'
BY HistoryMoves DEF Listed, Kept

LEMMA StillThere ==
  ASSUME NEW t, StillAt(t), NEW D
  PROVE  (InUseBut(t, D)' <=> InUseBut(t, D)) /\ (BorneBut(t, D)' <=> BorneBut(t, D))
BY DEF StillAt, InUseBut, BorneBut

LEMMA StillSettled ==
  ASSUME NextT, HistoryOK, NEW t, StillAt(t), NEW D
  PROVE  (Listed(t, D) => Listed(t, D)') /\ (Settled(t, D) => Settled(t, D)')
BY CarriesOver, StillThere DEF Settled, StillAt

\* With D larger there is less to ask.
LEMMA ListedBut ==
  ASSUME NEW t, NEW D, Listed(t, {}) PROVE Listed(t, D)
BY DEF Listed, InUseBut

\* A handler that nothing disturbs keeps what it holds while another moves.
LEMMA OthersHold ==
  ASSUME TagInv, NextT, NEW q \in Process, q \notin touched', proc'[q] = proc[q]
  PROVE  Holds(q)'
<1>1. CASE proc[q].tags = {}
  BY <1>1 DEF Holds
<1>2. CASE proc[q].tags # {}
  <2>1. q \notin touched /\ ~ Disturbed(q)
    BY <1>2, UndisturbedStays DEF TagInv, HandlerOK
  <2>2. Holds(q) /\ HistoryOK
    BY <2>1 DEF TagInv, HistoryOK
  <2>3. \A t \in proc[q].tags : StillAt(t)
    <3>1. \A t \in proc[q].tags : t \in Tag
      BY DEF TagInv, TypeOK, Handler
    <3> QED
      BY <2>1, <3>1, BearersTell DEF Disturbed
  <2>4. ASSUME proc[q].op \in {"archive", "import", "delete"}, proc[q].chat # NoChat
        PROVE  \A t \in proc[q].tags : Bears(proc[q].chat, t) /\ Bears(proc[q].chat, t)'
    <3>1. PICK c \in Chat : c = proc[q].chat
      BY <2>4 DEF TagInv, TypeOK, Handler
    <3>2. \A t \in proc[q].tags : Bears(c, t)
      BY <2>2, <2>4, <3>1 DEF Holds
    <3> QED
      BY <2>3, <3>1, <3>2 DEF StillAt
  <2>5. ASSUME NEW t \in proc[q].tags, ~ Miscounts(q, t)' PROVE ~ Miscounts(q, t)
    <3> SUFFICES ASSUME proc[q].op = "delete" PROVE ~ Miscounts(q, t)
      BY DEF Miscounts
    <3>1. proc[q].chat # NoChat
      BY <2>5 DEF Miscounts
    <3>2. PICK c \in Chat : c = proc[q].chat
      BY <3>1 DEF TagInv, TypeOK, Handler
    <3>3. Carries(c, t)' /\ ~ chat'[c].archived
      BY <2>5, <3>2 DEF Miscounts
    <3>4. Carries(c, t) /\ ~ chat[c].archived
      BY <2>3, <3>3 DEF StillAt
    <3> QED
      BY <3>1, <3>2, <3>4 DEF Miscounts
  <2>6. ASSUME NEW t \in proc[q].tags, HandOf(q, t) PROVE HandOf(q, t)'
    <3>1. PICK D : D = Leaving(q) /\ D = Leaving(q)'
      BY DEF Leaving
    <3>2. /\ InUseBut(t, D)' <=> InUseBut(t, D)
          /\ Listed(t, D) => Listed(t, D)'
          /\ Settled(t, D) => Settled(t, D)'
          /\ t \in rows' <=> t \in rows
      BY <2>2, <2>3, StillThere, StillSettled DEF StillAt
    <3> QED
      BY <2>6, <3>1, <3>2 DEF HandOf, Is
  <2>7. proc'[q].clean => \A t \in proc'[q].tags : Miscounts(q, t)' \/ HandOf(q, t)'
    BY <2>2, <2>5, <2>6 DEF Holds
  <2> QED
    BY <2>4, <2>7 DEF Holds
<1> QED
  BY <1>1, <1>2

----------------------------------------------------------------------------
(* The handler that moves. *)

\* At the moment a handler takes tags in hand, no other has them.
LEMMA TakesInHand ==
  ASSUME TagInv, NextT, NEW p \in Process, p \notin touched', proc'[p].pc # "idle",
         proc[p].tags = {}, NEW t \in proc'[p].tags, t \in Tag
  PROVE  Settled(t, {}) /\ HistoryOK
<1>1. \A q \in Process \ {p} : t \notin proc[q].tags
  BY UndisturbedStays DEF Disturbed
<1> QED
  BY <1>1 DEF TagInv, InHand, HistoryOK

LEMMA BegunHolds ==
  ASSUME TagInv, NextT, NEW p \in Process, p \notin touched', NEW h, Begun(p, h)
  PROVE  Holds(p)'
<1>1. /\ proc'[p] = h /\ h.pc \in {"detach", "toggle", "each"}
      /\ proc[p].pc = "idle" /\ rows' = rows /\ h.tags = h.check \cup h.add /\ h \in Handler
  BY BegunIs DEF TagInv, Begun
<1>2. proc[p].tags = {}
  BY <1>1 DEF TagInv, HandlerOK
<1>3. CASE chat' = chat
  <2>1. ASSUME NEW t \in h.check PROVE Listed(t, Leaving(p))'
    <3>1. t \in Tag /\ t \in proc'[p].tags
      BY <1>1 DEF Handler
    <3>2. Settled(t, {}) /\ HistoryOK
      BY <1>1, <1>2, <3>1, TakesInHand
    <3>3. StillAt(t)
      BY <1>1, <1>3 DEF StillAt, Carries, Bears, Spelt, There
    <3>4. Listed(t, {})'
      BY <3>2, <3>3, StillSettled DEF Settled
    <3> QED
      BY <3>4 DEF Listed, InUseBut
  <2>2. \A t \in h.tags : HandOf(p, t)'
    BY <1>1, <2>1 DEF HandOf, Is
  <2>3. h.op \in {"archive", "import", "delete"} /\ h.chat # NoChat =>
          \A t \in h.tags : Bears(h.chat, t)'
    BY <1>3, <1>1 DEF Begun, Carries, Bears, Spelt, There
  <2> QED
    BY <1>1, <2>2, <2>3 DEF Holds
<1>4. CASE chat' # chat
  <2>1. h.check = {} /\ \A t \in h.tags : Bears(h.chat, t)'
    BY <1>4 DEF Begun
  <2>2. \A t \in h.tags : HandOf(p, t)'
    BY <1>1, <2>1 DEF HandOf, Is
  <2> QED
    BY <1>1, <2>1, <2>2 DEF Holds
<1> QED
  BY <1>3, <1>4

LEMMA ToggleHolds ==
  ASSUME TagInv, NextT, NEW p \in Process, p \notin touched', Toggle(p)
  PROVE  Holds(p)'
<1>1. PICK c : c = proc[p].chat
  OBVIOUS
<1>2. HandlerOK(p) /\ TypeOK
  BY DEF TagInv
<1>3. CASE proc'[p] = Idle
  BY <1>3, IdleIs DEF Holds
<1>4. CASE proc'[p] # Idle
  <2>1. /\ proc[p].tags = {} /\ c \in Chat /\ rows' = rows
        /\ \A d \in Chat : chat'[d].row = chat[d].row /\ chat'[d].tags = chat[d].tags
        /\ \A d \in Chat \ {c} : chat'[d] = chat[d]
        /\ proc'[p].op = "archive" /\ proc'[p].pc = "each" /\ proc'[p].chat = c
        /\ proc'[p].tags = Ids(chat[c].tags) /\ There(c)
        /\ \/ proc'[p].check = {} /\ proc'[p].add = Ids(chat[c].tags)
           \/ /\ proc'[p].check = Ids(chat[c].tags) /\ proc'[p].add = {}
              /\ chat'[c].archived
    BY <1>1, <1>2, <1>4, ToggleMoves
  <2>2. \A t \in proc'[p].tags : Bears(c, t)'
    BY <2>1, BearsIds DEF There
  <2>3. ASSUME NEW t \in proc'[p].check PROVE Listed(t, {})'
    <3>1. t \in Tag /\ t \in proc'[p].tags
      BY <1>2, <2>1, <2>3, IdsTyped
    <3>2. Settled(t, {}) /\ HistoryOK
      BY <2>1, <3>1, TakesInHand
    <3>3. InUseBut(t, {})' => InUseBut(t, {})
      BY <2>1, <2>3 DEF InUseBut, Carries, Bears, Spelt, There
    <3> QED
      BY <2>1, <3>2, <3>3, CarriesOver DEF Settled
  <2>4. \A t \in proc'[p].tags : HandOf(p, t)'
    <3>1. Leaving(p)' = {}
      BY <2>1 DEF Leaving
    <3> QED
      BY <2>1, <2>3, <3>1 DEF HandOf, Is
  <2> QED
    BY <2>1, <2>2, <2>4 DEF Holds
<1> QED
  BY <1>3, <1>4

\* What an undisturbed handler knows when it goes on.
LEMMA HeldSoFar ==
  ASSUME TagInv, NextT, NEW p \in Process, p \notin touched', proc'[p].pc # "idle",
         Keeps(p), NEW D, D = Leaving(p)
  PROVE  /\ Holds(p) /\ HistoryOK /\ HandlerOK(p) /\ TypeOK /\ D = Leaving(p)'
         /\ UNCHANGED chat \/ proc[p].op # "delete" =>
              \A t : Miscounts(p, t)' <=> Miscounts(p, t)
<1>1. /\ Holds(p) /\ HistoryOK /\ HandlerOK(p) /\ TypeOK /\ D = Leaving(p)'
  BY UndisturbedStays DEF TagInv, HistoryOK, Keeps, Leaving
<1>2. ASSUME UNCHANGED chat, NEW t PROVE Miscounts(p, t)' <=> Miscounts(p, t)
  <2>1. PICK c : c = proc[p].chat
    OBVIOUS
  <2>2. Carries(c, t)' <=> Carries(c, t)
    BY <1>2 DEF Carries, There
  <2> QED
    BY <1>2, <2>1, <2>2 DEF Keeps, Miscounts
<1>3. ASSUME proc[p].op # "delete", NEW t PROVE Miscounts(p, t)' <=> Miscounts(p, t)
  BY <1>3 DEF Keeps, Miscounts
<1> QED
  BY <1>1, <1>2, <1>3

LEMMA DetachHolds ==
  ASSUME TagInv, NextT, NEW p \in Process, p \notin touched', Detach(p)
  PROVE  Holds(p)'
<1>1. /\ proc[p].pc = "detach" /\ proc'[p].pc = "each" /\ Keeps(p) /\ Waits(p) /\ Cleaner(p)
      /\ rows' = rows
      /\ \A d \in Chat : /\ chat'[d].row = chat[d].row
                         /\ chat'[d].archived = chat[d].archived
                         /\ chat'[d].tags \subseteq chat[d].tags
  BY DetachMoves DEF TagInv
<1>2. /\ Holds(p) /\ HistoryOK /\ HandlerOK(p) /\ Leaving(p)' = Leaving(p)
  BY <1>1, HeldSoFar
<1>3. /\ proc'[p].op \in {"remove", "clear", "update"}
      /\ proc'[p].tags \subseteq proc'[p].check \cup proc'[p].add
      /\ Leaving(p) = {} /\ Leaving(p)' = {} /\ \A t : ~ Miscounts(p, t)
  BY <1>1, <1>2 DEF HandlerOK, Keeps, Waits, Miscounts, Leaving
<1>4. ASSUME NEW t PROVE Listed(t, {}) => Listed(t, {})'
  <2>1. InUseBut(t, {})' => InUseBut(t, {})
    BY <1>1 DEF InUseBut, Carries, Bears, Spelt, There
  <2> QED
    BY <1>1, <1>2, <2>1, CarriesOver
<1>5. proc'[p].clean => \A t \in proc'[p].tags : HandOf(p, t)'
  BY <1>1, <1>2, <1>3, <1>4 DEF Holds, HandOf, Is, Keeps, Waits, Cleaner
<1> QED
  BY <1>3, <1>5 DEF Holds

LEMMA DropHolds ==
  ASSUME TagInv, NextT, NEW p \in Process, p \notin touched', Drop(p)
  PROVE  Holds(p)'
<1>1. /\ proc[p].pc = "drop" /\ proc'[p].pc = "each" /\ Keeps(p) /\ Waits(p) /\ Cleaner(p)
      /\ chat' = chat
      /\ rows' = rows \ {proc[p].tag} \/ (rows' = rows /\ ~ proc'[p].clean)
  BY DropMoves DEF TagInv
<1>2. PICK D : D = Leaving(p)
  OBVIOUS
<1>3. PICK tag : tag = proc[p].tag
  OBVIOUS
<1>4. /\ Holds(p) /\ HistoryOK /\ HandlerOK(p) /\ D = Leaving(p)'
      /\ \A t : Miscounts(p, t)' <=> Miscounts(p, t)
  BY <1>1, <1>2, HeldSoFar
<1>5. \A c, t : (Carries(c, t)' <=> Carries(c, t)) /\ (Bears(c, t)' <=> Bears(c, t))
  BY <1>1 DEF Carries, Bears, Spelt, There
<1>6. ASSUME NEW t \in proc[p].tags, proc'[p].clean, HandOf(p, t) PROVE HandOf(p, t)'
  <2>1. CASE t # tag
    <3>1. StillAt(t)
      BY <1>1, <1>3, <1>5, <2>1 DEF StillAt
    <3>2. (Listed(t, D) => Listed(t, D)') /\ (Settled(t, D) => Settled(t, D)')
      BY <1>4, <3>1, StillSettled
    <3> QED
      BY <1>1, <1>2, <1>3, <1>4, <1>6, <2>1, <3>2 DEF HandOf, Is, Waits
  <2>2. CASE t = tag
    <3>1. t \notin rows' /\ ~ InUseBut(t, D)
      BY <1>1, <1>2, <1>3, <1>6, <2>2 DEF HandOf, Is
    <3>2. ~ InUseBut(t, D)'
      BY <1>1, <1>5, <3>1 DEF InUseBut
    <3>3. Listed(t, D)' /\ Settled(t, D)'
      BY <3>1, <3>2 DEF Settled, Listed, Kept
    <3> QED
      BY <1>1, <1>4, <3>3 DEF HandOf, Is
  <2> QED
    BY <2>1, <2>2
<1>7. proc'[p].clean => \A t \in proc'[p].tags : Miscounts(p, t)' \/ HandOf(p, t)'
  BY <1>1, <1>4, <1>6 DEF Holds, Keeps, Cleaner
<1>8. proc'[p].op \in {"archive", "import", "delete"} /\ proc'[p].chat # NoChat =>
        \A t \in proc'[p].tags : Bears(proc[p].chat, t)'
  <2>1. PICK c : c = proc[p].chat
    OBVIOUS
  <2> QED
    BY <1>1, <1>4, <1>5, <2>1 DEF Holds, Keeps, Carries, Bears, Spelt, There
<1> QED
  BY <1>1, <1>7, <1>8 DEF Holds, Keeps, Carries, Bears, Spelt, There

\* What the count of a tag says.
LEMMA CountSays ==
  ASSUME TypeOK, NEW p \in Process, NEW t \in Tag, ~ Miscounts(p, t)
  PROVE  /\ Unused(p, t) => ~ InUseBut(t, Leaving(p))
         /\ ~ Unused(p, t) => BorneBut(t, Leaving(p))
<1> DEFINE S == Counted(p, t)
<1>1. /\ S \subseteq Chat /\ \A d \in S : Carries(d, t) /\ Bears(d, t)
      /\ \A d \in Chat : Carries(d, t) /\ ~ chat[d].archived => d \in S
  BY CarriesBears DEF Counted
<1>2. IsFiniteSet(S)
  BY <1>1, ConstantsAssumption, FS_Subset
<1> HIDE DEF S
<1>3. CASE proc[p].op # "delete"
  <2>1. Unused(p, t) <=> Cardinality(S) = 0
    BY <1>3 DEF Unused, S
  <2>2. Unused(p, t) <=> S = {}
    BY <1>2, <2>1, FS_EmptySet
  <2> QED
    BY <1>1, <1>3, <2>2 DEF InUseBut, BorneBut, Leaving
<1>4. CASE proc[p].op = "delete"
  <2>1. PICK c \in Chat : c = proc[p].chat
    BY <1>4 DEF Miscounts, TypeOK, Handler
  <2>2. Carries(c, t) /\ ~ chat[c].archived
    BY <1>4, <2>1 DEF Miscounts
  <2>3. c \in S
    BY <1>1, <2>2
  <2>4. Unused(p, t) <=> Cardinality(S) = 1
    BY <1>4 DEF Unused, S
  <2>5. Unused(p, t) <=> S = {c}
    BY <1>2, <2>3, <2>4, FS_Singleton
  <2> QED
    BY <1>1, <1>4, <2>1, <2>3, <2>5 DEF InUseBut, BorneBut, Leaving
<1> QED
  BY <1>3, <1>4

LEMMA CountHolds ==
  ASSUME TagInv, NextT, NEW p \in Process, p \notin touched', Count(p)
  PROVE  Holds(p)'
<1>1. /\ proc[p].pc = "each" /\ UNCHANGED <<chat, rows>> /\ Keeps(p) /\ Cleaner(p)
      /\ proc'[p].add = proc[p].add
      /\ \E t \in proc[p].check :
           /\ t \in Tag /\ proc'[p].check = proc[p].check \ {t}
           /\ \/ Unused(p, t) /\ proc'[p].pc = "drop" /\ proc'[p].tag = t
              \/ ~ Unused(p, t) /\ proc'[p].pc = "each"
  BY CountMoves DEF TagInv
<1>2. PICK s \in proc[p].check :
        /\ s \in Tag /\ proc'[p].check = proc[p].check \ {s}
        /\ \/ Unused(p, s) /\ proc'[p].pc = "drop" /\ proc'[p].tag = s
           \/ ~ Unused(p, s) /\ proc'[p].pc = "each"
  BY <1>1
<1>3. PICK D : D = Leaving(p)
  OBVIOUS
<1>4. PICK c : c = proc[p].chat
  OBVIOUS
<1>5. /\ Holds(p) /\ HistoryOK /\ HandlerOK(p) /\ TypeOK /\ D = Leaving(p)'
      /\ \A t : Miscounts(p, t)' <=> Miscounts(p, t)
  BY <1>1, <1>2, <1>3, HeldSoFar
<1>6. \A t : StillAt(t)
  BY <1>1 DEF StillAt, Carries, Bears, Spelt, There
<1>7. \A t : /\ Listed(t, D) => Listed(t, D)'
             /\ Settled(t, D) => Settled(t, D)'
             /\ InUseBut(t, D)' <=> InUseBut(t, D)
  BY <1>5, <1>6, StillSettled, StillThere
<1>8. ASSUME NEW t \in proc[p].tags, ~ Miscounts(p, t), HandOf(p, t) PROVE HandOf(p, t)'
  <2>1. t # s => HandOf(p, t)'
    BY <1>1, <1>2, <1>3, <1>5, <1>7, <1>8 DEF HandOf, Is
  <2>2. ASSUME t = s PROVE HandOf(p, t)'
    <3>1. t \in Tag
      BY <1>2, <2>2
    <3>2. Listed(t, D)
      BY <1>2, <1>3, <1>8, <2>2 DEF HandOf
    <3>3. CASE Unused(p, s)
      <4>1. proc'[p].pc = "drop" /\ proc'[p].tag = t
        BY <1>2, <2>2, <3>3
      <4>2. ~ InUseBut(t, D)
        BY <1>3, <1>5, <1>8, <2>2, <3>1, <3>3, CountSays
      <4> QED
        BY <1>2, <1>5, <1>7, <2>2, <4>1, <4>2 DEF HandOf, Is
    <3>4. CASE ~ Unused(p, s)
      <4>1. BorneBut(t, D)
        BY <1>3, <1>5, <1>8, <2>2, <3>1, <3>4, CountSays
      <4>2. Settled(t, D)'
        BY <1>7, <3>2, <4>1 DEF Settled, Kept
      <4> QED
        BY <1>2, <1>5, <2>2, <3>4, <4>2 DEF HandOf, Is, Settled
    <3> QED
      BY <3>3, <3>4
  <2> QED
    BY <2>1, <2>2
<1>9. proc'[p].clean => \A t \in proc'[p].tags : Miscounts(p, t)' \/ HandOf(p, t)'
  BY <1>1, <1>5, <1>8 DEF Holds, Keeps, Cleaner
<1>10. proc'[p].op \in {"archive", "import", "delete"} /\ c # NoChat =>
         \A t \in proc'[p].tags : Bears(c, t)'
  BY <1>1, <1>4, <1>5, <1>6 DEF Holds, Keeps, Carries, Bears, Spelt, There
<1> QED
  BY <1>1, <1>4, <1>9, <1>10 DEF Holds, Keeps

LEMMA FindHolds ==
  ASSUME TagInv, NextT, NEW p \in Process, p \notin touched', Find(p)
  PROVE  Holds(p)'
<1>1. /\ proc[p].pc = "each" /\ proc[p].check = {} /\ UNCHANGED <<chat, rows>>
      /\ Keeps(p) /\ Cleaner(p) /\ proc'[p].check = {}
      /\ \E t \in proc[p].add :
           /\ t \in Tag
           /\ \/ t \in rows /\ proc'[p].add = proc[p].add \ {t}
                 /\ \/ Attaches(p) /\ proc'[p].pc = "attach" /\ proc'[p].tag = t
                    \/ ~ Attaches(p) /\ proc'[p].pc = "each"
              \/ t \notin rows /\ proc'[p].add = proc[p].add
                   /\ proc'[p].pc = "insert" /\ proc'[p].tag = t
  BY FindMoves DEF TagInv
<1>2. PICK s \in proc[p].add :
        \/ s \in rows /\ proc'[p].add = proc[p].add \ {s}
             /\ \/ Attaches(p) /\ proc'[p].pc = "attach" /\ proc'[p].tag = s
                \/ ~ Attaches(p) /\ proc'[p].pc = "each"
        \/ proc'[p].add = proc[p].add /\ proc'[p].pc = "insert"
  BY <1>1
<1>3. PICK c : c = proc[p].chat
  OBVIOUS
<1>4. /\ Holds(p) /\ HistoryOK /\ HandlerOK(p) /\ TypeOK /\ Leaving(p)' = Leaving(p)
  BY <1>1, <1>2, HeldSoFar
<1>5. /\ Attaches(p) \/ (proc[p].op \in {"archive", "import"} /\ c \in Chat /\ c # NoChat)
      /\ Leaving(p) = {} /\ \A t : ~ Miscounts(p, t)
  BY <1>2, <1>3, <1>4, ConstantsAssumption DEF HandlerOK, Attaches, Leaving, Miscounts
<1>6. \A t : StillAt(t)
  BY <1>1 DEF StillAt, Carries, Bears, Spelt, There
<1>7. \A t : Settled(t, {}) => Settled(t, {})'
  BY <1>4, <1>6, StillSettled
<1>8. ASSUME NEW t \in proc[p].tags, HandOf(p, t) PROVE HandOf(p, t)'
  <2>1. t # s => HandOf(p, t)'
    BY <1>1, <1>2, <1>4, <1>5, <1>7, <1>8 DEF HandOf, Is
  <2>2. ASSUME t = s, t \in rows, ~ Attaches(p) PROVE Settled(t, {})'
    <3>1. Bears(c, t)'
      BY <1>3, <1>4, <1>5, <1>6, <2>2 DEF Holds, StillAt
    <3> QED
      BY <1>1, <1>5, <2>2, <3>1 DEF Settled, Listed, Kept, BorneBut
  <2>3. t = s => HandOf(p, t)'
    BY <1>1, <1>2, <1>4, <1>5, <2>2 DEF HandOf, Is
  <2> QED
    BY <2>1, <2>3
<1>9. proc'[p].clean => \A t \in proc'[p].tags : Miscounts(p, t)' \/ HandOf(p, t)'
  BY <1>1, <1>4, <1>5, <1>8 DEF Holds, Keeps, Cleaner
<1>10. proc'[p].op \in {"archive", "import", "delete"} /\ c # NoChat =>
         \A t \in proc'[p].tags : Bears(c, t)'
  BY <1>1, <1>3, <1>4, <1>6 DEF Holds, Keeps, Carries, Bears, Spelt, There
<1> QED
  BY <1>1, <1>3, <1>9, <1>10 DEF Holds, Keeps

LEMMA InsertHolds ==
  ASSUME TagInv, NextT, NEW p \in Process, p \notin touched', Insert(p)
  PROVE  Holds(p)'
<1>1. PICK s : s = proc[p].tag
  OBVIOUS
<1>2. /\ proc[p].pc = "insert" /\ chat' = chat /\ Keeps(p) /\ Cleaner(p)
      /\ proc'[p].check = proc[p].check /\ proc'[p].add = proc[p].add \ {s}
      /\ \/ /\ rows' = rows \cup {s}
            /\ \/ Attaches(p) /\ proc'[p].pc = "attach" /\ proc'[p].tag = s
               \/ ~ Attaches(p) /\ proc'[p].pc = "each"
         \/ rows' = rows /\ proc'[p].pc = "each" /\ ~ proc'[p].clean
  BY <1>1, InsertMoves DEF TagInv
<1>3. PICK c : c = proc[p].chat
  OBVIOUS
<1>4. /\ Holds(p) /\ HistoryOK /\ HandlerOK(p) /\ TypeOK /\ Leaving(p)' = Leaving(p)
  BY <1>2, HeldSoFar
<1>5. /\ Attaches(p) \/ (proc[p].op \in {"archive", "import"} /\ c \in Chat /\ c # NoChat)
      /\ Leaving(p) = {} /\ (\A t : ~ Miscounts(p, t)) /\ s \in proc[p].tags
  BY <1>1, <1>2, <1>3, <1>4, ConstantsAssumption DEF HandlerOK, Attaches, Leaving, Miscounts
<1>6. \A d, t : (Carries(d, t)' <=> Carries(d, t)) /\ (Bears(d, t)' <=> Bears(d, t))
  BY <1>2 DEF Carries, Bears, Spelt, There
<1>7. ASSUME NEW t \in proc[p].tags, proc'[p].clean, HandOf(p, t) PROVE HandOf(p, t)'
  <2>1. CASE t # s
    <3>1. StillAt(t)
      BY <1>2, <1>6, <2>1 DEF StillAt
    <3>2. (Listed(t, {}) => Listed(t, {})') /\ (Settled(t, {}) => Settled(t, {})')
      BY <1>4, <3>1, StillSettled
    <3> QED
      BY <1>2, <1>4, <1>5, <1>7, <2>1, <3>2 DEF HandOf, Is
  <2>2. CASE t = s
    <3>1. t \in rows' /\ Listed(t, {})'
      BY <1>2, <1>7, <2>2 DEF Listed
    <3>2. ASSUME ~ Attaches(p) PROVE Settled(t, {})'
      <4>1. Bears(c, t)'
        BY <1>3, <1>4, <1>5, <1>6, <3>2 DEF Holds
      <4> QED
        BY <1>5, <3>1, <3>2, <4>1 DEF Settled, Kept, BorneBut
    <3> QED
      BY <1>2, <1>4, <1>5, <1>7, <2>2, <3>1, <3>2 DEF HandOf, Is
  <2> QED
    BY <2>1, <2>2
<1>8. proc'[p].clean => \A t \in proc'[p].tags : Miscounts(p, t)' \/ HandOf(p, t)'
  BY <1>2, <1>4, <1>5, <1>7 DEF Holds, Keeps, Cleaner
<1>9. proc'[p].op \in {"archive", "import", "delete"} /\ c # NoChat =>
        \A t \in proc'[p].tags : Bears(c, t)'
  BY <1>2, <1>3, <1>4, <1>6 DEF Holds, Keeps
<1> QED
  BY <1>2, <1>3, <1>8, <1>9 DEF Holds, Keeps

LEMMA AttachHolds ==
  ASSUME TagInv, NextT, NEW p \in Process, p \notin touched', Attach(p)
  PROVE  Holds(p)'
<1>1. PICK c, s : c = proc[p].chat /\ s = proc[p].tag
  OBVIOUS
<1>2. /\ proc[p].pc = "attach" /\ proc'[p].pc = "each" /\ c \in Chat /\ s \in Tag
      /\ Keeps(p) /\ Waits(p) /\ Cleaner(p) /\ rows' = rows
      /\ \A d \in Chat : chat'[d].row = chat[d].row /\ chat'[d].archived = chat[d].archived
      /\ \A d \in Chat \ {c} : chat'[d] = chat[d]
      /\ \/ There(c) /\ chat'[c].tags = chat[c].tags \cup {s}
         \/ chat'[c] = chat[c] /\ ~ proc'[p].clean
  BY <1>1, AttachMoves DEF TagInv
<1>3. /\ Holds(p) /\ HistoryOK /\ HandlerOK(p) /\ TypeOK /\ Leaving(p)' = Leaving(p)
  BY <1>2, HeldSoFar
<1>4. proc'[p].op \in {"add", "update"} /\ Leaving(p) = {} /\ \A t : ~ Miscounts(p, t)
  BY <1>2, <1>3 DEF HandlerOK, Attaches, Keeps, Leaving, Miscounts
<1>5. ASSUME NEW t \in proc[p].tags, proc'[p].clean, HandOf(p, t) PROVE HandOf(p, t)'
  <2>1. CASE t # s
    <3>1. ASSUME NEW d \in Chat
          PROVE  (Carries(d, t)' <=> Carries(d, t)) /\ (Bears(d, t)' <=> Bears(d, t))
      <4>1. Id[s] = s
        BY <1>2, ConstantsAssumption
      <4>2. Spelt(d, t)' = Spelt(d, t)
        BY <1>2, <2>1, <4>1 DEF Spelt
      <4> QED
        BY <1>2, <2>1, <4>2 DEF Carries, Bears, There
    <3>4. StillAt(t)
      BY <1>2, <3>1 DEF StillAt
    <3>2. (Listed(t, {}) => Listed(t, {})') /\ (Settled(t, {}) => Settled(t, {})')
      BY <1>3, <3>4, StillSettled
    <3> QED
      BY <1>1, <1>2, <1>3, <1>4, <1>5, <2>1, <3>2, <3>4 DEF HandOf, Is, Waits, StillAt
  <2>2. CASE t = s
    <3>1. t \in rows'
      BY <1>1, <1>2, <1>5, <2>2 DEF HandOf, Is
    <3>2. Bears(c, t)'
      <4>1. Carries(c, t)'
        BY <1>2, <1>5, <2>2 DEF Carries, There
      <4> QED
        BY <1>2, <2>2, <4>1, CarriesBears
    <3>3. Listed(t, {})' /\ Settled(t, {})'
      BY <1>2, <3>1, <3>2 DEF Settled, Listed, Kept, BorneBut
    <3> QED
      BY <1>2, <1>3, <1>4, <3>3 DEF HandOf, Is
  <2> QED
    BY <2>1, <2>2
<1>6. proc'[p].clean => \A t \in proc'[p].tags : HandOf(p, t)'
  BY <1>2, <1>3, <1>4, <1>5 DEF Holds, Keeps, Cleaner
<1> QED
  BY <1>4, <1>6 DEF Holds

LEMMA HandlersHold ==
  ASSUME TagInv, NextT, NEW p \in Process, StepOf(p), NEW q \in Process, q \notin touched'
  PROVE  Holds(q)'
<1>1. HandlerOK(p) /\ TypeOK /\ Alone(p)
  BY StepKeeps DEF TagInv
<1>2. CASE q # p \/ proc'[p] = proc[p]
  BY <1>1, <1>2, OthersHold DEF Alone
<1>3. CASE q = p /\ proc'[p] # proc[p]
  <2>1. ~ (ArchiveAll(p) \/ \E C \in SUBSET Chat : DeleteChats(p, C))
    BY <1>1, <1>3, BulkMoves
  <2>2. ASSUME DeleteRow(p) \/ Answer(p) \/ BreakOff(p) PROVE Holds(p)'
    BY <1>1, <2>2, EndMoves, IdleIs DEF Holds
  <2> QED
    BY <1>3, <2>1, <2>2, BegunHolds, DetachHolds, ToggleHolds, CountHolds, DropHolds,
       FindHolds, InsertHolds, AttachHolds DEF StepOf
<1> QED
  BY <1>2, <1>3

----------------------------------------------------------------------------
(* The tags that no handler is about. *)

\* A step leaves the rows of such a tag alone, and only takes it off chats.
OnlyLess(t) ==
  /\ t \in rows' <=> t \in rows
  /\ \A d \in Chat : /\ Bears(d, t)' => Bears(d, t)
                     /\ Carries(d, t)' => /\ Carries(d, t)
                                          /\ chat[d].archived => chat'[d].archived

LEMMA AwayFrom ==
  ASSUME TypeOK, NEW p \in Process, HandlerOK(p), StepOf(p),
         NEW t \in Tag, t \notin proc[p].tags, t \notin proc'[p].tags
  PROVE  OnlyLess(t)
<1>1. chat' = chat /\ (t \in rows' <=> t \in rows) => OnlyLess(t)
  BY DEF OnlyLess, Carries, Bears, Spelt, There
<1>2. ASSUME NEW h, Begun(p, h) PROVE OnlyLess(t)
  <2>1. proc'[p] = h /\ rows' = rows
    BY <1>2, BegunIs DEF Begun
  <2>2. CASE chat' = chat
    BY <1>1, <2>1, <2>2
  <2>3. CASE chat' # chat
    <3>1. /\ \A u \in Tag : Bears(h.chat, u)' => u \in h.tags
          /\ \A d \in Chat \ {h.chat} : chat'[d] = chat[d]
      BY <1>2, <2>3 DEF Begun
    <3>2. ~ Bears(h.chat, t)' /\ ~ Carries(h.chat, t)'
      BY <2>1, <3>1, CarriesBears
    <3> QED
      BY <2>1, <3>1, <3>2 DEF OnlyLess, Carries, Bears, Spelt, There
  <2> QED
    BY <2>2, <2>3
<1>3. CASE ArchiveAll(p) \/ \E C \in SUBSET Chat : DeleteChats(p, C)
  <2>1. Gone.row = "gone"
    BY DEF Gone
  <2> QED
    BY <1>3, <2>1, BulkMoves DEF OnlyLess, Carries, Bears, Spelt, There
<1>4. CASE Detach(p)
  BY <1>4, DetachMoves DEF OnlyLess, Carries, Bears, Spelt, There
<1>5. CASE Toggle(p)
  <2>1. PICK c : c = proc[p].chat
    OBVIOUS
  <2>2. /\ rows' = rows
        /\ \/ chat' = chat
           \/ /\ \A d \in Chat : chat'[d].row = chat[d].row /\ chat'[d].tags = chat[d].tags
              /\ \A d \in Chat \ {c} : chat'[d] = chat[d]
              /\ proc'[p].tags = Ids(chat[c].tags)
    BY <1>5, <2>1, ToggleMoves
  <2>3. CASE chat' # chat
    <3>1. \A d \in Chat : /\ Bears(d, t)' <=> Bears(d, t)
                          /\ Carries(d, t)' <=> Carries(d, t)
      BY <2>2, <2>3 DEF Carries, Bears, Spelt, There
    <3>2. ~ Bears(c, t) /\ ~ Carries(c, t)
      BY <2>2, <2>3, BearsIds, CarriesBears
    <3> QED
      BY <2>2, <2>3, <3>1, <3>2 DEF OnlyLess
  <2> QED
    BY <1>1, <2>2, <2>3
<1>6. CASE Count(p)
  BY <1>1, <1>6, CountMoves
<1>7. CASE Drop(p)
  <2>1. t # proc[p].tag
    BY <1>7, DropMoves DEF HandlerOK
  <2> QED
    BY <1>1, <1>7, <2>1, DropMoves
<1>8. CASE Find(p)
  BY <1>1, <1>8, FindMoves
<1>9. CASE Insert(p)
  <2>1. t # proc[p].tag
    BY <1>9, InsertMoves DEF HandlerOK
  <2> QED
    BY <1>1, <1>9, <2>1, InsertMoves
<1>10. CASE Attach(p)
  <2>1. t # proc[p].tag
    BY <1>10, AttachMoves DEF HandlerOK
  <2>2. PICK c, s : c = proc[p].chat /\ s = proc[p].tag
    OBVIOUS
  <2>3. /\ rows' = rows /\ s \in Tag
        /\ \A d \in Chat : chat'[d].row = chat[d].row /\ chat'[d].archived = chat[d].archived
        /\ \A d \in Chat : chat'[d].tags \subseteq chat[d].tags \cup {s}
    BY <1>10, <2>2, AttachMoves
  <2>4. Id[s] = s
    BY <2>3, ConstantsAssumption
  <2>5. ASSUME NEW d \in Chat, NEW g \in chat'[d].tags, Id[g] = t PROVE g \in chat[d].tags
    BY <2>1, <2>2, <2>3, <2>4, <2>5
  <2>6. \A d \in Chat : Bears(d, t)' => Bears(d, t)
    BY <2>3, <2>5 DEF Bears, Spelt, There
  <2>7. \A d \in Chat : Carries(d, t)' => Carries(d, t)
    BY <2>1, <2>2, <2>3 DEF Carries, There
  <2> QED
    BY <2>3, <2>6, <2>7 DEF OnlyLess
<1>11. CASE DeleteRow(p) \/ Answer(p) \/ BreakOff(p)
  <2>1. PICK c : c = proc[p].chat
    OBVIOUS
  <2>2. Gone.row = "gone"
    BY DEF Gone
  <2>3. rows' = rows /\ \A d \in Chat : chat'[d] = Gone \/ chat'[d] = chat[d]
    BY <1>11, <2>1, EndMoves
  <2> QED
    BY <2>2, <2>3 DEF OnlyLess, Carries, Bears, Spelt, There
<1> QED
  BY <1>2, <1>3, <1>4, <1>5, <1>6, <1>7, <1>8, <1>9, <1>10, <1>11 DEF StepOf

LEMMA AwaySettled ==
  ASSUME TagInv, NextT, NEW p \in Process, StepOf(p),
         NEW t \in Tag, t \notin proc[p].tags, ~ InHand(t)'
  PROVE  Settled(t, {})'
<1>1. /\ Alone(p) /\ HandlerOK(p) /\ TypeOK /\ HistoryOK
  BY StepKeeps DEF TagInv, HistoryOK
<1>2. t \notin proc'[p].tags /\ ~ InHand(t)
  BY <1>1 DEF InHand, Alone
<1>3. OnlyLess(t) /\ Settled(t, {})
  BY <1>1, <1>2, AwayFrom DEF TagInv
<1>4. Listed(t, {})'
  <2>1. InUseBut(t, {})' => InUseBut(t, {})
    BY <1>3 DEF OnlyLess, InUseBut
  <2> QED
    BY <1>1, <1>3, <2>1, CarriesOver DEF OnlyLess, Settled
<1>5. CASE BorneBut(t, {}) => BorneBut(t, {})'
  BY <1>1, <1>3, <1>4, <1>5, CarriesOver DEF OnlyLess, Settled
<1>6. CASE BorneBut(t, {}) /\ ~ BorneBut(t, {})'
  <2>1. PICK c \in Chat : Bears(c, t) /\ ~ Bears(c, t)'
    BY <1>6 DEF BorneBut
  <2>2. \A q \in Process : proc'[q] # proc[q] => proc[q].chat # c \/ t \notin proc[q].tags
    BY <1>1 DEF Alone
  <2>3. t \in LeftBehind
    BY <2>1, <2>2 DEF LeftBehind
  <2>4. Kept(t, {})'
    BY <1>1, <2>3, HistoryMoves DEF Kept
  <2> QED
    BY <1>4, <2>4 DEF Settled
<1> QED
  BY <1>5, <1>6

\* A handler that ends well has settled its tags.
LEMMA EndSettles ==
  ASSUME TagInv, NextT, NEW p \in Process, StepOf(p), EndsWell(p),
         NEW t \in proc[p].tags, ~ Miscounts(p, t)
  PROVE  Settled(t, {})'
<1>1. PICK c : c = proc[p].chat
  OBVIOUS
<1>2. /\ Alone(p) /\ HandlerOK(p) /\ TypeOK /\ HistoryOK
  BY StepKeeps DEF TagInv, HistoryOK
<1>3. /\ proc[p].pc = "each" /\ proc[p].check = {} /\ proc[p].add = {} /\ proc[p].clean
      /\ p \notin touched /\ proc'[p].pc = "idle"
      /\ proc[p].op = "delete" => chat' # chat
  BY DEF EndsWell, Ends, AllDone, Is
<1>4. Holds(p) /\ HandOf(p, t)
  BY <1>3 DEF TagInv, Holds
<1>5. Settled(t, Leaving(p))
  BY <1>3, <1>4 DEF HandOf
<1>6. DeleteRow(p) \/ Answer(p) \/ BreakOff(p)
  <2>1. ~ \E h : Begun(p, h)
    BY <1>3 DEF Begun
  <2>2. ~ (ArchiveAll(p) \/ \E C \in SUBSET Chat : DeleteChats(p, C))
    BY <1>2, <1>3, BulkMoves
  <2>3. ~ Count(p) /\ ~ Find(p)
    BY <1>3 DEF Count, Find
  <2>4. ~ Detach(p) /\ ~ Toggle(p) /\ ~ Drop(p) /\ ~ Insert(p) /\ ~ Attach(p)
    BY <1>3 DEF Detach, Toggle, Drop, Insert, Attach, Is
  <2> QED
    BY <2>1, <2>2, <2>3, <2>4 DEF StepOf
<1>7. /\ rows' = rows
      /\ chat' = chat \/ /\ proc[p].op = "delete"
                         /\ \A d \in Chat : chat'[d] = IF d = c THEN Gone ELSE chat[d]
  BY <1>1, <1>2, <1>6, EndMoves
<1>8. CASE proc[p].op # "delete"
  <2>1. Leaving(p) = {} /\ chat' = chat
    BY <1>7, <1>8 DEF Leaving
  <2>2. StillAt(t)
    BY <1>7, <2>1 DEF StillAt, Carries, Bears, Spelt, There
  <2> QED
    BY <1>2, <1>5, <2>1, <2>2, StillSettled
<1>9. CASE proc[p].op = "delete"
  <2>1. Leaving(p) = {c} /\ \A d \in Chat : chat'[d] = IF d = c THEN Gone ELSE chat[d]
    BY <1>1, <1>3, <1>7, <1>9 DEF Leaving
  <2>2. Gone.row = "gone"
    BY DEF Gone
  <2>3. /\ InUseBut(t, {})' => InUseBut(t, {c})
        /\ BorneBut(t, {c}) => BorneBut(t, {})'
    BY <2>1, <2>2 DEF InUseBut, BorneBut, Carries, Bears, Spelt, There
  <2> QED
    BY <1>2, <1>5, <1>7, <2>1, <2>3, CarriesOver DEF Settled
<1> QED
  BY <1>8, <1>9

LEMMA TagsKept ==
  ASSUME TypeOK, NEW p \in Process, HandlerOK(p), StepOf(p), NEW t \in proc[p].tags
  PROVE  t \in proc'[p].tags \/ Ends(p)
<1>1. CASE DeleteRow(p) \/ Answer(p) \/ BreakOff(p)
  BY <1>1, EndMoves, IdleIs DEF Ends, Is
<1>2. CASE \E h : Begun(p, h)
  BY <1>2 DEF Begun, HandlerOK
<1>3. CASE ArchiveAll(p) \/ \E C \in SUBSET Chat : DeleteChats(p, C)
  BY <1>3, BulkMoves
<1>4. CASE Toggle(p)
  BY <1>4, ToggleMoves
<1>5. CASE Detach(p) \/ Count(p) \/ Drop(p) \/ Find(p) \/ Insert(p) \/ Attach(p)
  BY <1>5, DetachMoves, CountMoves, DropMoves, FindMoves, InsertMoves, AttachMoves DEF Keeps
<1> QED
  BY <1>1, <1>2, <1>3, <1>4, <1>5 DEF StepOf

LEMMA TagStep == TagInv /\ [NextT]_<<vars, history>> => TagInv'
<1> SUFFICES ASSUME TagInv, [NextT]_<<vars, history>> PROVE TagInv'
  OBVIOUS
<1>1. CASE UNCHANGED <<vars, history>>
  <2>1. /\ chat' = chat /\ rows' = rows /\ proc' = proc /\ requests' = requests
        /\ touched' = touched /\ lost' = lost /\ loose' = loose
    BY <1>1 DEF vars, history
  <2>2. TypeOK'
    BY <2>1 DEF TagInv, TypeOK, There
  <2>3. \A t, D : /\ Listed(t, D) <=> Listed(t, D)'
                  /\ Settled(t, D) <=> Settled(t, D)'
                  /\ InUseBut(t, D) <=> InUseBut(t, D)'
    BY <2>1 DEF Listed, Settled, Kept, InUseBut, BorneBut, Carries, Bears, Spelt, There
  <2>4. ASSUME NEW p \in Process PROVE HandlerOK(p)' /\ (p \notin touched' => Holds(p)')
    <3>1. \A t : HandOf(p, t) => HandOf(p, t)'
      BY <2>1, <2>3 DEF HandOf, Is, Leaving
    <3>2. Holds(p) => Holds(p)'
      BY <2>1, <3>1 DEF Holds, Miscounts, Carries, Bears, Spelt, There
    <3>3. HandlerOK(p) => HandlerOK(p)'
      BY <2>1 DEF HandlerOK, Attaches
    <3> QED
      BY <2>1, <3>2, <3>3 DEF TagInv
  <2> QED
    BY <2>1, <2>2, <2>3, <2>4 DEF TagInv, InHand
<1>2. CASE NextT
  <2>1. TypeOK /\ HistoryOK /\ Next
    BY <1>2 DEF TagInv, HistoryOK, NextT
  <2>2. PICK p \in Process : StepOf(p)
    BY <2>1, NextIs
  <2>3. HandlerOK(p) /\ HandlersOK
    BY DEF TagInv, HandlersOK
  <2>4. HandlersOK'
    BY <2>1, <2>3, StepOK
  <2>5. HistoryOK' /\ touched' \subseteq Process
    BY <1>2, <2>1, HistoryMoves DEF NextT
  <2>6. \A q \in Process : q \notin touched' => Holds(q)'
    BY <1>2, <2>2, HandlersHold
  <2>7. ASSUME NEW t \in Tag, ~ InHand(t)' PROVE Settled(t, {})'
    <3>1. CASE t \notin proc[p].tags
      BY <1>2, <2>2, <2>7, <3>1, AwaySettled
    <3>2. CASE t \in proc[p].tags
      <4>1. Ends(p)
        BY <2>1, <2>2, <2>3, <2>7, <3>2, TagsKept DEF InHand
      <4>2. CASE EndsWell(p) /\ ~ Miscounts(p, t)
        BY <1>2, <2>2, <3>2, <4>2, EndSettles
      <4>3. CASE ~ EndsWell(p) \/ Miscounts(p, t)
        <5>1. t \in Disorder
          BY <2>7, <3>2, <4>1, <4>3 DEF Disorder
        <5> QED
          BY <1>2, <2>1, <5>1, HistoryMoves DEF Settled, Listed, Kept
      <4> QED
        BY <4>2, <4>3
    <3> QED
      BY <3>1, <3>2
  <2> QED
    BY <2>4, <2>5, <2>6, <2>7 DEF TagInv, HandlersOK, HistoryOK
<1> QED
  BY <1>1, <1>2

LEMMA TagInit == InitT => TagInv
<1> SUFFICES ASSUME InitT PROVE TagInv
  OBVIOUS
<1>1. HandlersOK /\ touched = {} /\ lost = {} /\ loose = {}
  BY InitOK DEF InitT
<1>2. \A p \in Process : proc[p].tags = {}
  BY IdleIs DEF InitT, Init
<1>3. \A p \in Process : Holds(p)
  BY <1>2 DEF Holds
<1>4. ASSUME NEW t \in Tag PROVE Settled(t, {})
  <2>1. (InUse(t) => t \in rows) /\ (t \in rows => \E c \in Chat : Bears(c, t))
    BY DEF InitT, Init
  <2> QED
    BY <2>1 DEF Settled, Listed, Kept, InUse, InUseBut, BorneBut
<1> QED
  BY <1>1, <1>3, <1>4 DEF TagInv, HandlersOK

\* The tags that have a row, which are those the user is shown, are the tags
\* of the user's chats, for any number of chats, tags and processes, however
\* the tags of imported chats are spelt: those in use as their ids say have
\* their rows, and a row is of a tag that a chat has in some spelling; but for
\* tags that a handler has in hand, and those that one has left behind that
\* failed, was disturbed, or counted a chat that does not count.
THEOREM RowsAreTheTags == SpecT => []RowsMatchTags
<1>1. TagInv => RowsMatchTags
  <2> SUFFICES ASSUME TagInv PROVE RowsMatchTags
    OBVIOUS
  <2>1. \A t \in Tag : ~ InHand(t) => Settled(t, {})
    BY DEF TagInv
  <2>2. rows \subseteq Tag
    BY DEF TagInv, TypeOK
  <2>3. \A t : (InUse(t) <=> InUseBut(t, {}))
               /\ (BorneBut(t, {}) <=> \E c \in Chat : Bears(c, t))
    BY DEF InUse, InUseBut, BorneBut
  <2> QED
    BY <2>1, <2>2, <2>3 DEF RowsMatchTags, UsedTagHasRow, RowIsCarried, Settled, Listed, Kept
<1> QED
  BY <1>1, TagInit, TagStep, PTL DEF SpecT
=============================================================================
