-------------------------- MODULE ChatSharingProofs --------------------------
(***************************************************************************)
(* Links of shared chats: for any number of chats, uuids and processes, a  *)
(* link serves the chat it was made for and is never served again once it  *)
(* is dead. The argument is one of ownership: a uuid belongs to the insert *)
(* that drew it, from there to the one copy and the one chat that carry it.*)
(* The second part is about what handlers leave behind: one that nothing   *)
(* disturbs knows at each step what it has done to its chat, and a chat    *)
(* that no handler works on has one copy, its link's, or none and no link. *)
(***************************************************************************)
EXTENDS SharingRepair, FiniteSetTheorems, TLAPS

\* Every id in use was issued, and to one copy alone.
IdsIssued ==
  /\ \A k \in copies : k.id \in issued
  /\ \A c \in Chat : chat[c].share # NoShare => chat[c].share \in issued
  /\ \A k, m \in copies : k.id = m.id => k = m

\* The uuid in the hand of a handler that is about to link it is its own: no
\* chat carries it, no other handler has it, and its copy is of the chat.
LinkingOwnsId ==
  \A p \in Process : proc[p].pc = "link" =>
    /\ proc[p].share \in issued
    /\ \A c \in Chat : chat[c].share # proc[p].share
    /\ \A k \in copies : k.id = proc[p].share => k.of = proc[p].chat
    /\ \A q \in Process \ {p} :
         proc[q].pc = "link" => proc[q].share # proc[p].share

\* The copy a handler is about to rewrite is, if it is still there, of the
\* handler's chat.
WritingKeepsChat ==
  \A p \in Process : proc[p].pc = "write" =>
    /\ proc[p].share \in issued
    /\ \A k \in copies : k.id = proc[p].share => k.of = proc[p].chat

\* The handlers that work on one chat have one.
HasChat ==
  \A p \in Process :
    proc[p].pc \notin {"idle", "listed", "allRows"} => proc[p].chat \in Chat

\* Versions only grow, so what was read of a chat is one it has had.
VersionsSeen ==
  /\ \A k \in copies : k.version <= chat[k.of].version
  /\ \A p \in Process : proc[p].pc \in {"write", "copy"} =>
       proc[p].version <= chat[proc[p].chat].version

SharingInv ==
  /\ TypeOK /\ HasChat
  /\ IdsIssued /\ LinkingOwnsId /\ WritingKeepsChat /\ LinkServesItsChat
  /\ VersionsSeen

\* The records a handler moves through are handlers.
LEMMA HandlerType ==
  ASSUME NEW c \in Chat \cup {NoChat}
  PROVE  /\ \A a \in Answer : Idle(c, a) \in Handler
         /\ \A pc \in Pc : At(pc, c) \in Handler
<1>1. 0 \in Version
  BY ConstantsAssumption DEF Version
<1>2. NoShare \in ShareId \cup {NoShare} /\ TRUE \in BOOLEAN /\ {} \in SUBSET Chat
      /\ "idle" \in Pc /\ "none" \in Answer
  BY DEF Pc, Answer
<1> QED
  BY <1>1, <1>2 DEF Idle, At, Handler

LEMMA HandlerFields ==
  ASSUME NEW h \in Handler
  PROVE  /\ \A s \in ShareId, v \in Version :
              [h EXCEPT !.share = s, !.version = v] \in Handler
         /\ \A v \in Version : [h EXCEPT !.version = v] \in Handler
         /\ \A s \in ShareId : [h EXCEPT !.share = s] \in Handler
         /\ \A l \in SUBSET Chat : [h EXCEPT !.listed = l] \in Handler
         /\ [h EXCEPT !.ok = FALSE] \in Handler
         /\ \A b \in BOOLEAN : [h EXCEPT !.own = b] \in Handler
         /\ \A pc \in Pc : [h EXCEPT !.pc = pc] \in Handler
BY DEF Handler

LEMMA InitInv == Init => SharingInv
<1> SUFFICES ASSUME Init PROVE SharingInv
  OBVIOUS
<1>1. TypeOK
  <2>1. 0 \in Version
    BY ConstantsAssumption DEF Version
  <2>2. Idle(NoChat, "none") \in Handler
    BY <2>1 DEF Idle, Handler, Pc, Answer
  <2> QED
    BY <2>1, <2>2 DEF Init, TypeOK, ChatRow
<1>2. HasChat /\ LinkingOwnsId /\ WritingKeepsChat /\ VersionsSeen
  BY DEF Init, HasChat, LinkingOwnsId, WritingKeepsChat, VersionsSeen, Idle
<1>3. IdsIssued /\ LinkServesItsChat
  BY DEF Init, IdsIssued, LinkServesItsChat, Shared
<1> QED
  BY <1>1, <1>2, <1>3 DEF SharingInv

\* Steps that give out no id: copies may go, links may be cleared, and the
\* handler goes on to anything but a write of an id.
LEMMA NothingGivenOut ==
  ASSUME SharingInv, NEW p \in Process, NEW h \in Handler, Goto(p, h),
         h.pc \notin {"link", "write"},
         h.pc \notin {"idle", "listed", "allRows"} => h.chat \in Chat,
         copies' \subseteq copies, issued' = issued,
         chat' \in [Chat -> ChatRow],
         h.pc = "copy" => h.version <= chat'[h.chat].version,
         \A c \in Chat : /\ chat'[c].share \in {chat[c].share, NoShare}
                         /\ chat'[c].exists => chat[c].exists
                         /\ chat'[c].version >= chat[c].version
  PROVE  SharingInv'
<1>1. proc' = [proc EXCEPT ![p] = h] /\ proc \in [Process -> Handler]
  BY DEF Goto, SharingInv, TypeOK
<1>2. proc'[p] = h /\ \A q \in Process \ {p} : proc'[q] = proc[q]
  BY <1>1
<1>3. TypeOK'
  BY <1>1 DEF SharingInv, TypeOK
<1>4. HasChat'
  BY <1>2 DEF SharingInv, HasChat
<1>5. IdsIssued'
  BY DEF SharingInv, IdsIssued
<1>6. LinkingOwnsId'
  <2> SUFFICES ASSUME NEW q \in Process, proc'[q].pc = "link"
               PROVE  /\ proc'[q].share \in issued'
                      /\ \A c \in Chat : chat'[c].share # proc'[q].share
                      /\ \A k \in copies' : k.id = proc'[q].share => k.of = proc'[q].chat
                      /\ \A r \in Process \ {q} :
                           proc'[r].pc = "link" => proc'[r].share # proc'[q].share
    BY DEF LinkingOwnsId
  <2>1. q # p /\ proc'[q] = proc[q]
    BY <1>2
  <2>2. proc[q].share \in issued /\ issued \subseteq ShareId
    BY <2>1 DEF SharingInv, LinkingOwnsId, TypeOK
  <2>3. \A c \in Chat : chat'[c].share # proc'[q].share
    BY <2>1, <2>2, ConstantsAssumption DEF SharingInv, LinkingOwnsId
  <2>4. \A k \in copies' : k.id = proc'[q].share => k.of = proc'[q].chat
    BY <2>1 DEF SharingInv, LinkingOwnsId
  <2>5. \A r \in Process \ {q} :
          proc'[r].pc = "link" => proc'[r].share # proc'[q].share
    BY <1>2, <2>1 DEF SharingInv, LinkingOwnsId
  <2> QED
    BY <2>1, <2>2, <2>3, <2>4, <2>5
<1>7. WritingKeepsChat'
  BY <1>2 DEF SharingInv, WritingKeepsChat
<1>8. LinkServesItsChat'
  BY DEF SharingInv, LinkServesItsChat, Shared
<1>9. VersionsSeen'
  <2>1. /\ \A c \in Chat : chat[c].version \in Nat /\ chat'[c].version \in Nat
        /\ \A k \in copies : k.of \in Chat /\ k.version \in Nat
        /\ \A q \in Process : proc[q].version \in Nat
    BY DEF SharingInv, TypeOK, ChatRow, Copy, Handler, Version
  <2>2. \A k \in copies' : k.version <= chat'[k.of].version
    BY <2>1 DEF SharingInv, VersionsSeen
  <2>3. ASSUME NEW q \in Process, proc'[q].pc \in {"write", "copy"}
        PROVE  proc'[q].version <= chat'[proc'[q].chat].version
    BY <1>2, <2>1, <2>3 DEF SharingInv, VersionsSeen, HasChat
  <2> QED
    BY <2>2, <2>3 DEF VersionsSeen
<1> QED
  BY <1>3, <1>4, <1>5, <1>6, <1>7, <1>8, <1>9 DEF SharingInv

\* A refresh that has found a copy.
LEMMA FindCopyInv ==
  ASSUME SharingInv, NEW p \in Process, FindCopy(p) PROVE SharingInv'
<1> DEFINE c == proc[p].chat
<1>1. c \in Chat /\ proc \in [Process -> Handler]
  BY DEF FindCopy, SharingInv, HasChat, TypeOK
<1>2. UNCHANGED <<chat, copies, issued>>
  BY DEF FindCopy
<1>3. CASE Goto(p, At("insert", c)) \/ Reply(p, "failed")
  <2>1. At("insert", c) \in Handler /\ Idle(c, "failed") \in Handler
    BY <1>1, HandlerType DEF Pc, Answer
  <2>2. At("insert", c).pc = "insert" /\ At("insert", c).chat = c
        /\ Idle(c, "failed").pc = "idle"
    BY DEF At, Idle
  <2>3. chat \in [Chat -> ChatRow] /\ \A d \in Chat : chat[d].version \in Nat
    BY DEF SharingInv, TypeOK, ChatRow, Version
  <2>4. CASE Goto(p, At("insert", c))
    BY <1>1, <1>2, <2>1, <2>2, <2>3, <2>4, NothingGivenOut
  <2>5. CASE Reply(p, "failed")
    <3>1. Goto(p, Idle(c, "failed"))
      BY <2>5 DEF Reply
    <3> QED
      BY <1>1, <1>2, <2>1, <2>2, <2>3, <3>1, NothingGivenOut
  <2> QED
    BY <1>3, <2>4, <2>5
<1>4. ASSUME NEW k \in CopiesOf(c),
             Goto(p, [At("write", c) EXCEPT !.share = k.id, !.version = chat[c].version])
      PROVE  SharingInv'
  <2> DEFINE h == [At("write", c) EXCEPT !.share = k.id, !.version = chat[c].version]
  <2>1. k \in copies /\ k.of = c /\ k \in Copy /\ chat[c].version \in Version
    BY <1>1 DEF CopiesOf, SharingInv, TypeOK, ChatRow
  <2>2. h \in Handler
    <3>1. k.id \in ShareId /\ "write" \in Pc
      BY <2>1 DEF Copy, Pc
    <3>2. At("write", c) \in Handler
      BY <1>1, <3>1, HandlerType
    <3> QED
      BY <2>1, <3>1, <3>2, HandlerFields
  <2>3. h.pc = "write" /\ h.chat = c /\ h.share = k.id /\ h.version = chat[c].version
    BY DEF At
  <2> HIDE DEF h
  <2>4. proc' = [proc EXCEPT ![p] = h]
    BY <1>4 DEF Goto, h
  <2>5. proc'[p] = h /\ \A q \in Process \ {p} : proc'[q] = proc[q]
    BY <1>1, <2>4
  <2>6. TypeOK'
    BY <1>1, <1>2, <2>2, <2>4 DEF SharingInv, TypeOK
  <2>7. HasChat'
    BY <1>1, <2>3, <2>5 DEF SharingInv, HasChat
  <2>8. LinkingOwnsId'
    BY <1>2, <2>3, <2>5 DEF SharingInv, LinkingOwnsId
  <2>9. WritingKeepsChat'
    BY <1>2, <2>1, <2>3, <2>5 DEF SharingInv, WritingKeepsChat, IdsIssued
  <2>10. VersionsSeen'
    BY <1>1, <1>2, <2>1, <2>3, <2>5 DEF SharingInv, VersionsSeen, Version
  <2> QED
    BY <1>2, <2>6, <2>7, <2>8, <2>9, <2>10
       DEF SharingInv, IdsIssued, LinkServesItsChat, Shared
<1> QED
  BY <1>3, <1>4 DEF FindCopy

\* A handler that leaves rows and copies alone and goes on to a step that
\* gives out no id.
LEMMA HandlerMoves ==
  ASSUME SharingInv, NEW p \in Process, UNCHANGED <<chat, copies, issued>>,
         \/ \E a \in Answer : Reply(p, a)
         \/ Goto(p, Idle(NoChat, "none"))
         \/ \E c \in Chat, b \in BOOLEAN : Goto(p, [At("deleteRow", c) EXCEPT !.own = b])
         \/ \E c \in Chat, pc \in Pc \ {"link", "write"}, v \in Version :
              \/ pc # "copy" /\ Goto(p, At(pc, c))
              \/ /\ v = chat[c].version
                 /\ Goto(p, [At(pc, c) EXCEPT !.version = v])
         \/ \E l \in SUBSET Chat : Goto(p, [At("listed", NoChat) EXCEPT !.listed = l])
  PROVE  SharingInv'
<1>1. chat \in [Chat -> ChatRow] /\ proc[p] \in Handler
      /\ \A c \in Chat : chat[c].version \in Nat
  BY DEF SharingInv, TypeOK, ChatRow, Version
<1>2. SUFFICES ASSUME NEW h \in Handler, Goto(p, h), h.pc \notin {"link", "write"},
                      h.pc = "copy" => h.version <= chat[h.chat].version,
                      h.pc \notin {"idle", "listed", "allRows"} => h.chat \in Chat
               PROVE  SharingInv'
  <2>1. ASSUME NEW a \in Answer, Reply(p, a) PROVE SharingInv'
    <3>1. Idle(proc[p].chat, a) \in Handler /\ Idle(proc[p].chat, a).pc = "idle"
      BY <1>1, HandlerType DEF Handler, Idle
    <3> QED
      BY <1>2, <2>1, <3>1 DEF Reply
  <2>2. ASSUME Goto(p, Idle(NoChat, "none")) PROVE SharingInv'
    <3>1. Idle(NoChat, "none") \in Handler /\ Idle(NoChat, "none").pc = "idle"
      BY HandlerType DEF Idle, Answer
    <3> QED
      BY <1>2, <2>2, <3>1
  <2>3. ASSUME NEW c \in Chat, NEW pc \in Pc \ {"link", "write"}, NEW v \in Version,
               \/ pc # "copy" /\ Goto(p, At(pc, c))
               \/ /\ v = chat[c].version
                  /\ Goto(p, [At(pc, c) EXCEPT !.version = v])
        PROVE  SharingInv'
    <3>1. At(pc, c) \in Handler /\ [At(pc, c) EXCEPT !.version = v] \in Handler
      BY HandlerType, HandlerFields
    <3>2. /\ At(pc, c).pc = pc /\ At(pc, c).chat = c
          /\ [At(pc, c) EXCEPT !.version = v].pc = pc
          /\ [At(pc, c) EXCEPT !.version = v].chat = c
          /\ [At(pc, c) EXCEPT !.version = v].version = v
      BY DEF At
    <3>3. CASE pc # "copy" /\ Goto(p, At(pc, c))
      BY <1>2, <3>1, <3>2, <3>3
    <3>4. CASE v = chat[c].version /\ Goto(p, [At(pc, c) EXCEPT !.version = v])
      <4> DEFINE h == [At(pc, c) EXCEPT !.version = v]
      <4>1. /\ h \in Handler /\ h.pc = pc /\ h.chat = c /\ h.version = chat[c].version
            /\ Goto(p, h)
        BY <3>1, <3>2, <3>4
      <4> HIDE DEF h
      <4>2. h.version <= chat[h.chat].version
        BY <1>1, <4>1
      <4> QED
        BY <1>2, <4>1, <4>2
    <3> QED
      BY <2>3, <3>3, <3>4
  <2>4. ASSUME NEW l \in SUBSET Chat,
               Goto(p, [At("listed", NoChat) EXCEPT !.listed = l])
        PROVE  SharingInv'
    <3>1. [At("listed", NoChat) EXCEPT !.listed = l] \in Handler
      <4>1. At("listed", NoChat) \in Handler
        BY HandlerType DEF Pc
      <4> QED
        BY <4>1, HandlerFields
    <3>2. [At("listed", NoChat) EXCEPT !.listed = l].pc = "listed"
      BY DEF At
    <3> QED
      BY <1>2, <2>4, <3>1, <3>2
  <2>5. ASSUME NEW c \in Chat, NEW b \in BOOLEAN,
               Goto(p, [At("deleteRow", c) EXCEPT !.own = b])
        PROVE  SharingInv'
    <3> DEFINE h == [At("deleteRow", c) EXCEPT !.own = b]
    <3>1. At("deleteRow", c) \in Handler
      BY HandlerType DEF Pc
    <3>2. h \in Handler /\ h.pc = "deleteRow" /\ h.chat = c
      BY <3>1, HandlerFields DEF At
    <3>3. Goto(p, h)
      BY <2>5
    <3> HIDE DEF h
    <3> QED
      BY <1>2, <3>2, <3>3
  <2> QED
    BY <2>1, <2>2, <2>3, <2>4, <2>5
<1> QED
  BY <1>1, <1>2, NothingGivenOut

LEMMA WriteCopyInv ==
  ASSUME SharingInv, NEW p \in Process, WriteCopy(p) PROVE SharingInv'
<1>1. CASE UNCHANGED copies
  BY <1>1, HandlerMoves DEF WriteCopy, Answer
<1>2. ASSUME NEW k \in copies, k.id = proc[p].share,
             copies' = Rewritten(proc[p].share, proc[p].chat, proc[p].version),
             Reply(p, "shared")
      PROVE  SharingInv'
  <2> DEFINE new == [id |-> proc[p].share, of |-> proc[p].chat, version |-> proc[p].version]
  <2>1. proc[p].pc = "write" /\ UNCHANGED <<chat, issued>> /\ proc[p] \in Handler
    BY DEF WriteCopy, SharingInv, TypeOK
  <2>2. proc[p].chat \in Chat /\ proc[p].share \in issued /\ k.of = proc[p].chat
    BY <1>2, <2>1 DEF SharingInv, HasChat, WritingKeepsChat
  <2>3. new \in Copy /\ new.id = proc[p].share /\ new.of = proc[p].chat
        /\ new.version <= chat[new.of].version
    BY <2>1, <2>2 DEF Copy, Handler, SharingInv, TypeOK, VersionsSeen
  <2>4. \A m \in copies' : m = new \/ (m \in copies /\ m.id # proc[p].share)
    BY <1>2 DEF Rewritten
  <2> HIDE DEF new
  <2>5. \A m \in copies' : \E n \in copies : n.id = m.id /\ n.of = m.of
    BY <1>2, <2>2, <2>3, <2>4
  <2>7. /\ proc' = [proc EXCEPT ![p] = Idle(proc[p].chat, "shared")]
        /\ proc \in [Process -> Handler]
    BY <1>2 DEF Reply, Goto, SharingInv, TypeOK
  <2>8. proc'[p].pc = "idle" /\ \A q \in Process \ {p} : proc'[q] = proc[q]
    BY <2>7 DEF Idle
  <2>9. TypeOK'
    <3>1. Idle(proc[p].chat, "shared") \in Handler
      BY <2>2, HandlerType DEF Answer
    <3>2. copies' \subseteq Copy
      BY <2>3, <2>4 DEF SharingInv, TypeOK
    <3> QED
      BY <2>1, <2>7, <3>1, <3>2 DEF SharingInv, TypeOK
  <2>10. HasChat'
    BY <2>8 DEF SharingInv, HasChat
  <2>11. IdsIssued'
    BY <2>1, <2>2, <2>3, <2>4 DEF SharingInv, IdsIssued
  <2>12. LinkingOwnsId'
    BY <2>1, <2>5, <2>8 DEF SharingInv, LinkingOwnsId
  <2>13. WritingKeepsChat'
    BY <2>1, <2>5, <2>8 DEF SharingInv, WritingKeepsChat
  <2>14. LinkServesItsChat'
    <3>1. \A c \in Chat : Shared(c)' <=> Shared(c)
      BY <2>1 DEF Shared
    <3>2. \A k1, m \in copies' : k1.id = m.id => k1 = m
      BY <2>11 DEF IdsIssued
    <3> QED
      BY <2>1, <2>5, <3>1, <3>2 DEF SharingInv, LinkServesItsChat
  <2>15. VersionsSeen'
    BY <2>1, <2>3, <2>4, <2>8 DEF SharingInv, VersionsSeen
  <2> QED
    BY <2>9, <2>10, <2>11, <2>12, <2>13, <2>14, <2>15 DEF SharingInv
<1> QED
  BY <1>1, <1>2 DEF WriteCopy

LEMMA InsertCopyInv ==
  ASSUME SharingInv, NEW p \in Process, InsertCopy(p) PROVE SharingInv'
<1>1. PICK id \in ShareId \ issued :
        /\ copies' = copies \cup
             {[id |-> id, of |-> proc[p].chat, version |-> proc[p].version]}
        /\ issued' = issued \cup {id}
        /\ Goto(p, [At("link", proc[p].chat) EXCEPT !.share = id])
  BY DEF InsertCopy
<1> DEFINE h == [At("link", proc[p].chat) EXCEPT !.share = id]
           new == [id |-> id, of |-> proc[p].chat, version |-> proc[p].version]
<1>2. proc[p].pc = "copy" /\ chat' = chat /\ proc[p] \in Handler
      /\ proc \in [Process -> Handler]
  BY DEF InsertCopy, SharingInv, TypeOK
<1>3. proc[p].chat \in Chat
  BY <1>2 DEF SharingInv, HasChat
<1>4. new \in Copy /\ new.id = id /\ new.of = proc[p].chat
      /\ new.version <= chat[new.of].version
  BY <1>2, <1>3 DEF Copy, Handler, SharingInv, VersionsSeen
<1>5. h \in Handler
  <2>1. At("link", proc[p].chat) \in Handler
    BY <1>3, HandlerType DEF Pc
  <2> QED
    BY <2>1, HandlerFields
<1>6. h.pc = "link" /\ h.share = id /\ h.chat = proc[p].chat
  BY DEF At
<1>7. proc' = [proc EXCEPT ![p] = h] /\ copies' = copies \cup {new}
  BY <1>1 DEF Goto
<1> HIDE DEF h, new
<1>8. proc'[p] = h /\ \A q \in Process \ {p} : proc'[q] = proc[q]
  BY <1>2, <1>7
<1>9. /\ \A k \in copies : k.id # id
      /\ \A c \in Chat : chat[c].share # id
      /\ \A q \in Process : proc[q].pc \in {"link", "write"} => proc[q].share # id
  BY ConstantsAssumption DEF SharingInv, IdsIssued, LinkingOwnsId, WritingKeepsChat
<1>10. TypeOK'
  BY <1>1, <1>2, <1>4, <1>5, <1>7 DEF SharingInv, TypeOK
<1>11. HasChat'
  BY <1>3, <1>6, <1>8 DEF SharingInv, HasChat
<1>12. IdsIssued'
  BY <1>1, <1>2, <1>4, <1>7, <1>9 DEF SharingInv, IdsIssued
<1>13. LinkingOwnsId'
  <2>1. ASSUME NEW q \in Process, proc'[q].pc = "link"
        PROVE  /\ proc'[q].share \in issued'
               /\ \A c \in Chat : chat'[c].share # proc'[q].share
               /\ \A k \in copies' : k.id = proc'[q].share => k.of = proc'[q].chat
               /\ \A r \in Process \ {q} :
                    proc'[r].pc = "link" => proc'[r].share # proc'[q].share
    <3>1. CASE q = p
      BY <1>1, <1>2, <1>4, <1>6, <1>7, <1>8, <1>9, <3>1
    <3>2. CASE q # p
      BY <1>1, <1>2, <1>4, <1>6, <1>7, <1>8, <1>9, <2>1, <3>2
         DEF SharingInv, LinkingOwnsId
    <3> QED
      BY <3>1, <3>2
  <2> QED
    BY <2>1 DEF LinkingOwnsId
<1>14. WritingKeepsChat'
  BY <1>1, <1>4, <1>6, <1>7, <1>8, <1>9 DEF SharingInv, WritingKeepsChat
<1>15. LinkServesItsChat'
  <2>1. \A c \in Chat : Shared(c)' <=> Shared(c)
    BY <1>2 DEF Shared
  <2>2. \A k, m \in copies' : k.id = m.id => k = m
    BY <1>12 DEF IdsIssued
  <2> QED
    BY <1>2, <1>4, <1>7, <1>9, <2>1, <2>2 DEF SharingInv, LinkServesItsChat
<1>16. VersionsSeen'
  BY <1>2, <1>4, <1>6, <1>7, <1>8 DEF SharingInv, VersionsSeen
<1> QED
  BY <1>10, <1>11, <1>12, <1>13, <1>14, <1>15, <1>16 DEF SharingInv

LEMMA LinkCopyInv ==
  ASSUME SharingInv, NEW p \in Process, LinkCopy(p) PROVE SharingInv'
<1>1. CASE ~ chat[proc[p].chat].exists
  BY <1>1, HandlerMoves DEF LinkCopy, Answer
<1>2. CASE chat[proc[p].chat].exists
  <2> DEFINE c == proc[p].chat
             s == proc[p].share
  <2>1. /\ chat' = [chat EXCEPT ![c].share = s]
        /\ proc' = [proc EXCEPT ![p] = Idle(c, "shared")]
        /\ proc[p].pc = "link" /\ UNCHANGED <<copies, issued>>
    BY <1>2 DEF LinkCopy, Reply, Goto
  <2>2. proc \in [Process -> Handler] /\ chat \in [Chat -> ChatRow] /\ c \in Chat
    BY <2>1 DEF SharingInv, TypeOK, HasChat
  <2>3. /\ s \in issued /\ s \in ShareId
        /\ \A d \in Chat : chat[d].share # s
        /\ \A k \in copies : k.id = s => k.of = c
        /\ \A q \in Process \ {p} : proc[q].pc = "link" => proc[q].share # s
    BY <2>1 DEF SharingInv, LinkingOwnsId, TypeOK
  <2>4. Idle(c, "shared") \in Handler /\ Idle(c, "shared").pc = "idle"
    BY <2>2, HandlerType DEF Answer, Idle
  <2>5. /\ chat'[c].share = s
        /\ \A d \in Chat \ {c} : chat'[d] = chat[d]
        /\ \A d \in Chat : chat'[d].exists = chat[d].exists
        /\ \A d \in Chat : chat'[d].version = chat[d].version
        /\ chat' \in [Chat -> ChatRow]
    BY <2>1, <2>2, <2>3 DEF ChatRow
  <2>6. proc'[p].pc = "idle" /\ \A q \in Process \ {p} : proc'[q] = proc[q]
    BY <2>1, <2>2, <2>4
  <2> HIDE DEF c, s
  <2>7. TypeOK'
    BY <2>1, <2>2, <2>4, <2>5 DEF SharingInv, TypeOK
  <2>8. HasChat'
    BY <2>6 DEF SharingInv, HasChat
  <2>9. IdsIssued'
    BY <2>1, <2>3, <2>5 DEF SharingInv, IdsIssued
  <2>10. LinkingOwnsId'
    BY <2>1, <2>2, <2>3, <2>5, <2>6 DEF SharingInv, LinkingOwnsId
  <2>11. WritingKeepsChat'
    BY <2>1, <2>6 DEF SharingInv, WritingKeepsChat
  <2>12. LinkServesItsChat'
    BY <2>1, <2>2, <2>3, <2>5 DEF SharingInv, LinkServesItsChat, Shared
  <2>13. VersionsSeen'
    <3>1. \A k \in copies : k.of \in Chat
      BY DEF SharingInv, TypeOK, Copy
    <3> QED
      BY <2>1, <2>5, <2>6, <3>1 DEF SharingInv, VersionsSeen, HasChat
  <2> QED
    BY <2>7, <2>8, <2>9, <2>10, <2>11, <2>12, <2>13 DEF SharingInv
<1> QED
  BY <1>1, <1>2

\* Deletions, unsharing and edits take rows and links away and give none.
LEMMA TakingAwayInv ==
  ASSUME SharingInv, NEW p \in Process,
         \/ RevokeCopies(p) \/ Unlink(p) \/ DeleteRow(p) \/ DeleteCopies(p)
         \/ DeleteListedCopies(p) \/ DeleteAllRows(p)
         \/ \E c \in Chat : EditChat(p, c)
         \/ \E C \in SUBSET Chat : DeleteFolderChats(p, C)
  PROVE  SharingInv'
<1> DEFINE Fewer ==
      /\ copies' \subseteq copies /\ issued' = issued
      /\ chat' \in [Chat -> ChatRow]
      /\ \A c \in Chat : /\ chat'[c].share \in {chat[c].share, NoShare}
                         /\ chat'[c].exists => chat[c].exists
                         /\ chat'[c].version >= chat[c].version
<1>1. chat \in [Chat -> ChatRow] /\ proc[p] \in Handler
      /\ \A c \in Chat : chat[c].version \in Nat
  BY DEF SharingInv, TypeOK, ChatRow, Version
<1>2. \A C \in SUBSET Chat : RowsGone(C) \in [Chat -> ChatRow]
        /\ \A c \in Chat : /\ RowsGone(C)[c].share \in {chat[c].share, NoShare}
                           /\ RowsGone(C)[c].exists => chat[c].exists
                           /\ RowsGone(C)[c].version >= chat[c].version
  <2>1. \A C \in SUBSET Chat, c \in Chat : RowsGone(C)[c].version = chat[c].version
    BY <1>1 DEF RowsGone, ChatRow
  <2>2. \A C \in SUBSET Chat : RowsGone(C) \in [Chat -> ChatRow]
          /\ \A c \in Chat : /\ RowsGone(C)[c].share \in {chat[c].share, NoShare}
                             /\ RowsGone(C)[c].exists => chat[c].exists
    BY <1>1 DEF RowsGone, ChatRow
  <2> QED
    BY <1>1, <2>1, <2>2
<1>3. ASSUME NEW a \in Answer, NEW c \in Chat \cup {NoChat}, Fewer, Goto(p, Idle(c, a))
      PROVE  SharingInv'
  <2>1. Idle(c, a) \in Handler /\ Idle(c, a).pc = "idle"
    BY HandlerType DEF Idle
  <2> QED
    BY <1>3, <2>1, NothingGivenOut
<1>4. ASSUME NEW pc \in Pc \ {"link", "write", "copy", "idle"}, NEW c \in Chat \cup {NoChat},
             NEW b \in BOOLEAN, Fewer,
             c \in Chat \/ pc = "allRows",
             \/ Goto(p, At(pc, c))
             \/ Goto(p, [At(pc, c) EXCEPT !.ok = FALSE])
      PROVE  SharingInv'
  <2>1. At(pc, c) \in Handler /\ [At(pc, c) EXCEPT !.ok = FALSE] \in Handler
    BY HandlerType, HandlerFields
  <2>2. /\ At(pc, c).pc = pc /\ At(pc, c).chat = c
        /\ [At(pc, c) EXCEPT !.ok = FALSE].pc = pc
        /\ [At(pc, c) EXCEPT !.ok = FALSE].chat = c
    BY DEF At
  <2>3. CASE Goto(p, At(pc, c))
    BY <1>4, <2>1, <2>2, <2>3, NothingGivenOut
  <2>4. CASE Goto(p, [At(pc, c) EXCEPT !.ok = FALSE])
    BY <1>4, <2>1, <2>2, <2>4, NothingGivenOut
  <2> QED
    BY <1>4, <2>3, <2>4
<1>5. proc[p].chat \in Chat \cup {NoChat}
  BY <1>1 DEF Handler
<1>6. CASE RevokeCopies(p)
  <2>1. proc[p].chat \in Chat
    BY <1>6 DEF RevokeCopies, SharingInv, HasChat
  <2>2. Fewer
    BY <1>1, <1>6 DEF RevokeCopies, WithoutCopiesOf
  <2> HIDE DEF Fewer
  <2> QED
    BY <1>4, <1>6, <2>1, <2>2 DEF RevokeCopies, Pc
<1>7. CASE Unlink(p)
  <2>1. proc[p].chat \in Chat
    BY <1>7 DEF Unlink, SharingInv, HasChat
  <2>2. Fewer
    BY <1>1, <1>7, <2>1 DEF Unlink, ChatRow
  <2>3. \E a \in Answer : Goto(p, Idle(proc[p].chat, a))
    BY <1>7 DEF Unlink, Reply, Answer
  <2> HIDE DEF Fewer
  <2> QED
    BY <1>3, <1>5, <2>2, <2>3
<1>8. CASE DeleteRow(p)
  <2>1. proc[p].chat \in Chat
    BY <1>8 DEF DeleteRow, SharingInv, HasChat
  <2>2. Fewer
    <3>1. PICK C \in SUBSET Chat : chat' = RowsGone(C)
      BY <1>8, <2>1 DEF DeleteRow
    <3> QED
      BY <1>2, <1>8, <3>1 DEF DeleteRow
  <2> DEFINE h == [proc[p] EXCEPT !.pc = "deleteCopies"]
  <2>3. "deleteCopies" \in Pc
    BY DEF Pc
  <2>4. h \in Handler
    BY <1>1, <2>3, HandlerFields
  <2>5. h.pc = "deleteCopies" /\ h.chat = proc[p].chat
    BY <1>1 DEF Handler
  <2>6. Goto(p, h)
    BY <1>8 DEF DeleteRow
  <2> HIDE DEF h
  <2> QED
    BY <2>1, <2>2, <2>4, <2>5, <2>6, NothingGivenOut
<1>9. CASE DeleteCopies(p)
  <2>1. Fewer
    BY <1>1, <1>9 DEF DeleteCopies, WithoutCopiesOf
  <2>2. Goto(p, Idle(proc[p].chat, "deleted"))
    BY <1>9 DEF DeleteCopies, Reply
  <2> HIDE DEF Fewer
  <2> QED
    BY <1>3, <1>5, <2>1, <2>2 DEF Answer
<1>10. CASE DeleteListedCopies(p)
  <2>1. Fewer
    BY <1>1, <1>10 DEF DeleteListedCopies
  <2> HIDE DEF Fewer
  <2> QED
    BY <1>4, <1>10, <2>1 DEF DeleteListedCopies, Pc
<1>11. CASE DeleteAllRows(p)
  <2>1. Fewer
    BY <1>2, <1>11 DEF DeleteAllRows
  <2>2. Goto(p, Idle(proc[p].chat, "allDeleted"))
    BY <1>11 DEF DeleteAllRows, Reply
  <2> HIDE DEF Fewer
  <2> QED
    BY <1>3, <1>5, <2>1, <2>2 DEF Answer
<1>12. ASSUME NEW c \in Chat, EditChat(p, c) PROVE SharingInv'
  <2>1. chat[c].version + 1 \in Version
    BY <1>1, <1>12, ConstantsAssumption DEF EditChat, ChatRow, Version
  <2>2. Fewer
    BY <1>1, <1>12, <2>1 DEF EditChat, ChatRow
  <2> HIDE DEF Fewer
  <2> QED
    BY <1>3, <1>12, <2>2 DEF EditChat, Answer
<1>13. ASSUME NEW C \in SUBSET Chat, DeleteFolderChats(p, C) PROVE SharingInv'
  <2>1. Fewer
    BY <1>2, <1>13 DEF DeleteFolderChats
  <2> HIDE DEF Fewer
  <2> QED
    BY <1>3, <1>13, <2>1 DEF DeleteFolderChats, Answer
<1> QED
  BY <1>6, <1>7, <1>8, <1>9, <1>10, <1>11, <1>12, <1>13

\* The handlers' first steps, failures and crashes touch no row.
LEMMA LocalStepInv ==
  ASSUME SharingInv, NEW p \in Process,
         \/ \E c \in Chat : ShareChat(p, c) \/ UnshareChat(p, c) \/ DeleteChat(p, c)
         \/ DeleteAll(p) \/ ReadForInsert(p) \/ Fail(p) \/ Crash(p)
  PROVE  SharingInv'
<1>1. 0 \in Version /\ chat \in [Chat -> ChatRow]
  BY ConstantsAssumption DEF Version, SharingInv, TypeOK
<1>2. ASSUME NEW c \in Chat, ShareChat(p, c) \/ UnshareChat(p, c) \/ DeleteChat(p, c)
      PROVE  SharingInv'
  <2>1. \/ \E pc \in Pc \ {"link", "write"} : pc # "copy" /\ Goto(p, At(pc, c))
        \/ \E b \in BOOLEAN : Goto(p, [At("deleteRow", c) EXCEPT !.own = b])
    BY <1>2 DEF ShareChat, UnshareChat, DeleteChat, Pc
  <2> QED
    BY <1>1, <1>2, <2>1, HandlerMoves DEF ShareChat, UnshareChat, DeleteChat
<1>3. CASE DeleteAll(p)
  BY <1>3, HandlerMoves DEF DeleteAll
<1>4. CASE ReadForInsert(p)
  <2>1. proc[p].chat \in Chat /\ "copy" \in Pc \ {"link", "write"}
    BY <1>4 DEF ReadForInsert, SharingInv, HasChat, Pc
  <2>2. chat[proc[p].chat].version \in Version
    BY <1>1, <2>1 DEF ChatRow
  <2> QED
    BY <1>4, <2>1, <2>2, HandlerMoves DEF ReadForInsert, Answer
<1>5. CASE Fail(p)
  BY <1>5, HandlerMoves DEF Fail, Answer
<1>6. CASE Crash(p)
  BY <1>6, HandlerMoves DEF Crash
<1> QED
  BY <1>2, <1>3, <1>4, <1>5, <1>6

LEMMA StepInv == SharingInv /\ [Next]_vars => SharingInv'
<1> SUFFICES ASSUME SharingInv, [Next]_vars PROVE SharingInv'
  OBVIOUS
<1>1. CASE UNCHANGED vars
  BY <1>1 DEF vars, SharingInv, TypeOK, HasChat, IdsIssued, LinkingOwnsId,
              WritingKeepsChat, LinkServesItsChat, Shared, VersionsSeen
<1>2. CASE Next
  BY <1>2, FindCopyInv, WriteCopyInv, InsertCopyInv, LinkCopyInv, TakingAwayInv,
     LocalStepInv DEF Next, HandlerStep
<1> QED
  BY <1>1, <1>2

LEMMA SharingInvHolds == Spec => []SharingInv
<1> QED
  BY InitInv, StepInv, PTL DEF Spec

\* The rows and the handlers are well formed, for all constants.
THEOREM SharingTypeCorrect == Spec => []TypeOK
<1>1. SharingInv => TypeOK
  BY DEF SharingInv
<1> QED
  BY <1>1, SharingInvHolds, PTL

\* A link serves the chat it was made for, and no id is on two chats or two
\* copies, however many processes share, unshare and delete at once, and
\* whatever fails or crashes on the way.
THEOREM LinksServeTheirChat == Spec => []LinkServesItsChat
<1>1. SharingInv => LinkServesItsChat
  BY DEF SharingInv
<1> QED
  BY <1>1, SharingInvHolds, PTL

\* Copies are written by refreshes and inserts alone.
LEMMA CopiesWritten ==
  ASSUME [Next]_vars
  PROVE  \/ copies' \subseteq copies
         \/ \E p \in Process : WriteCopy(p) \/ InsertCopy(p)
BY DEF Next, HandlerStep, ShareChat, UnshareChat, DeleteChat, EditChat,
       DeleteFolderChats, DeleteAll, Fail, Crash, FindCopy, ReadForInsert,
       LinkCopy, RevokeCopies, WithoutCopiesOf, Unlink, DeleteRow, DeleteCopies,
       DeleteListedCopies, DeleteAllRows, vars

\* No step puts a copy of an id that was issued before back.
LEMMA NoCopyComesBack ==
  ASSUME SharingInv, Next
  PROVE  \A k \in copies' : k.id \in issued => \E m \in copies : m.id = k.id
<1>1. CASE copies' \subseteq copies
  BY <1>1
<1>2. ASSUME NEW p \in Process, WriteCopy(p)
      PROVE  \A k \in copies' : k.id \in issued => \E m \in copies : m.id = k.id
  BY <1>2 DEF WriteCopy, Rewritten
<1>3. ASSUME NEW p \in Process, InsertCopy(p)
      PROVE  \A k \in copies' : k.id \in issued => \E m \in copies : m.id = k.id
  BY <1>3 DEF InsertCopy
<1>4. \/ copies' \subseteq copies
      \/ \E p \in Process : WriteCopy(p) \/ InsertCopy(p)
  BY CopiesWritten
<1> QED
  BY <1>1, <1>2, <1>3, <1>4

\* Only the handler that has an id in its hand links a chat to it.
LEMMA OnlyLinkingLinks ==
  ASSUME SharingInv, Next, NEW c \in Chat, NEW s \in ShareId,
         chat'[c].exists, chat'[c].share = s
  PROVE  \/ chat[c].exists /\ chat[c].share = s
         \/ \E p \in Process : LinkCopy(p) /\ proc[p].share = s /\ BeingLinked(s)
<1>1. chat \in [Chat -> ChatRow] /\ s # NoShare
  BY ConstantsAssumption DEF SharingInv, TypeOK
<1>2. CASE chat' = chat
  BY <1>2
<1>3. ASSUME NEW p \in Process, LinkCopy(p)
      PROVE  \/ chat[c].exists /\ chat[c].share = s
             \/ LinkCopy(p) /\ proc[p].share = s /\ BeingLinked(s)
  BY <1>1, <1>3 DEF LinkCopy, BeingLinked, ChatRow
<1>4. ASSUME NEW p \in Process, Unlink(p)
      PROVE  chat[c].exists /\ chat[c].share = s
  BY <1>1, <1>4 DEF Unlink, ChatRow
<1>5. ASSUME NEW d \in Chat, chat' = [chat EXCEPT ![d].version = @ + 1]
      PROVE  chat[c].exists /\ chat[c].share = s
  BY <1>1, <1>5 DEF ChatRow
<1>6. ASSUME NEW C \in SUBSET Chat, chat' = RowsGone(C)
      PROVE  chat[c].exists /\ chat[c].share = s
  BY <1>1, <1>6 DEF RowsGone, ChatRow
<1>7. \/ chat' = chat
      \/ \E p \in Process : LinkCopy(p) \/ Unlink(p)
      \/ \E d \in Chat : chat' = [chat EXCEPT ![d].version = @ + 1]
      \/ \E C \in SUBSET Chat : chat' = RowsGone(C)
  <2>1. ASSUME NEW p \in Process, DeleteRow(p)
        PROVE  \E C \in SUBSET Chat : chat' = RowsGone(C)
    <3>1. {proc[p].chat} \in SUBSET Chat /\ {} \in SUBSET Chat
      BY <2>1 DEF DeleteRow, SharingInv, HasChat
    <3> QED
      BY <2>1, <3>1 DEF DeleteRow
  <2>2. ASSUME NEW p \in Process, HandlerStep(p)
        PROVE  \/ chat' = chat
               \/ LinkCopy(p) \/ Unlink(p)
               \/ \E C \in SUBSET Chat : chat' = RowsGone(C)
    BY <2>1, <2>2 DEF HandlerStep, FindCopy, WriteCopy, ReadForInsert, InsertCopy,
         RevokeCopies, DeleteCopies, DeleteListedCopies, DeleteAllRows
  <2> QED
    BY <2>2 DEF Next, ShareChat, UnshareChat, DeleteChat, EditChat,
         DeleteFolderChats, DeleteAll, Fail, Crash
<1> QED
  BY <1>2, <1>3, <1>4, <1>5, <1>6, <1>7

\* A link that was taken back is never served again, by no interleaving of
\* shares, refreshes and deletions of any number of processes, no fault and no
\* crash.
THEOREM LinksStayDead == Spec => DeadLinkStaysDead
<1>1. SharingInv /\ [Next]_vars => [\A s \in issued : StaysDead(s)]_vars
  <2> SUFFICES ASSUME SharingInv, Next, NEW s \in issued, Served(s)'
               PROVE  Served(s) \/ BeingLinked(s)
    BY DEF StaysDead
  <2>1. s \in ShareId
    BY DEF SharingInv, TypeOK
  <2>2. PICK c \in Chat : chat'[c].exists /\ chat'[c].share = s
    BY DEF Served
  <2>3. \E m \in copies : m.id = s
    BY NoCopyComesBack DEF Served
  <2>4. (chat[c].exists /\ chat[c].share = s) \/ BeingLinked(s)
    BY <2>1, <2>2, OnlyLinkingLinks
  <2> QED
    BY <2>3, <2>4 DEF Served
<1> QED
  BY <1>1, SharingInvHolds, PTL DEF Spec, DeadLinkStaysDead

----------------------------------------------------------------------------
(* The refinement of SharedLinks. *)

LEMMA CopyOfIsIt == SharingInv => \A k \in copies : CopyOf(k.id) = k
BY DEF SharingInv, IdsIssued, CopyOf

\* The version of a chat only changes in an edit, and then grows.
LEMMA VersionsGrow ==
  ASSUME SharingInv, [Next]_vars
  PROVE  /\ \A c \in Chat : chat'[c].version >= chat[c].version
         /\ \/ \E p \in Process, c \in Chat : EditChat(p, c)
            \/ \A c \in Chat : chat'[c].version = chat[c].version
<1>1. chat \in [Chat -> ChatRow] /\ \A c \in Chat : chat[c].version \in Nat
  BY DEF SharingInv, TypeOK, ChatRow, Version
<1>2. \A C \in SUBSET Chat, c \in Chat : RowsGone(C)[c].version = chat[c].version
  BY <1>1 DEF RowsGone, ChatRow
<1>3. ASSUME NEW p \in Process, NEW d \in Chat, EditChat(p, d)
      PROVE  \A c \in Chat : chat'[c].version >= chat[c].version
  BY <1>1, <1>3 DEF EditChat, ChatRow
<1>4. \/ \E p \in Process, d \in Chat : EditChat(p, d)
      \/ chat' = chat
      \/ \E d \in Chat : \E s : chat' = [chat EXCEPT ![d].share = s]
      \/ \E C \in SUBSET Chat : chat' = RowsGone(C)
  <2>1. ASSUME NEW p \in Process, DeleteRow(p)
        PROVE  \E C \in SUBSET Chat : chat' = RowsGone(C)
    <3>1. {proc[p].chat} \in SUBSET Chat
      BY <2>1 DEF DeleteRow, SharingInv, HasChat
    <3> QED
      BY <2>1, <3>1 DEF DeleteRow
  <2>2. ASSUME NEW p \in Process, LinkCopy(p) \/ Unlink(p)
        PROVE  chat' = chat \/ \E d \in Chat : \E s : chat' = [chat EXCEPT ![d].share = s]
    BY <2>2 DEF LinkCopy, Unlink, SharingInv, HasChat
  <2>3. ASSUME NEW p \in Process, HandlerStep(p)
        PROVE  \/ chat' = chat
               \/ \E d \in Chat : \E s : chat' = [chat EXCEPT ![d].share = s]
               \/ \E C \in SUBSET Chat : chat' = RowsGone(C)
    BY <2>1, <2>2, <2>3 DEF HandlerStep, FindCopy, WriteCopy, ReadForInsert, InsertCopy,
         RevokeCopies, DeleteCopies, DeleteListedCopies, DeleteAllRows
  <2> QED
    BY <2>3 DEF Next, ShareChat, UnshareChat, DeleteChat,
         DeleteFolderChats, DeleteAll, Fail, Crash, vars
<1>5. ASSUME NEW d \in Chat, NEW s, chat' = [chat EXCEPT ![d].share = s]
      PROVE  \A c \in Chat : chat'[c].version = chat[c].version
  BY <1>1, <1>5 DEF ChatRow
<1>6. CASE \E p \in Process, d \in Chat : EditChat(p, d)
  BY <1>3, <1>6
<1>7. CASE \A c \in Chat : chat'[c].version = chat[c].version
  BY <1>1, <1>7
<1> QED
  BY <1>2, <1>4, <1>5, <1>6, <1>7

LinkStates ==
  \A s \in ShareId :
    /\ \A k \in copies : Served(s) /\ k.id = s => LinkState(s) = Links!Live(k.of, k.version)
    /\ ~ Served(s) /\ s \in issued /\ ~ BeingLinked(s) => LinkState(s) = Links!Dead
    /\ ~ Served(s) /\ (s \in issued => BeingLinked(s)) => LinkState(s) = Links!Unused

LEMMA LinkStatesHold == SharingInv => LinkStates
<1> SUFFICES ASSUME SharingInv PROVE LinkStates
  OBVIOUS
<1>1. \A k \in copies : CopyOf(k.id) = k
  BY CopyOfIsIt
<1> QED
  BY <1>1 DEF LinkStates, LinkState, Links!Live, Links!Dead, Links!Unused

\* Ids that no copy carries yet, and those in a handler's hand, are not served.
LEMMA NotYetServed ==
  ASSUME SharingInv, NEW s \in ShareId, s \in issued => BeingLinked(s)
  PROVE  ~ Served(s)
BY DEF SharingInv, IdsIssued, LinkingOwnsId, BeingLinked, Served

\* A handler only takes a fresh id in its hand.
LEMMA FreshIdsLinked ==
  ASSUME SharingInv, Next, NEW s \in issued, BeingLinked(s)'
  PROVE  BeingLinked(s)
<1>1. proc \in [Process -> Handler]
  BY DEF SharingInv, TypeOK
<1>2. PICK q \in Process : proc'[q].pc = "link" /\ proc'[q].share = s
  BY DEF BeingLinked
<1>3. CASE proc'[q] = proc[q]
  BY <1>2, <1>3 DEF BeingLinked
<1>4. ASSUME NEW p \in Process, InsertCopy(p)
      PROVE  proc'[q] = proc[q]
  BY <1>1, <1>2, <1>4 DEF InsertCopy, Goto, At
<1>5. ASSUME NEW p \in Process, NEW h, Goto(p, h), h.pc # "link"
      PROVE  proc'[q] = proc[q]
  BY <1>1, <1>2, <1>5 DEF Goto
<1>6. ASSUME NEW p \in Process, NEW a, Reply(p, a)
      PROVE  proc'[q] = proc[q]
  BY <1>5, <1>6 DEF Reply, Idle
<1>7. ASSUME NEW p \in Process, NEW c, NEW pc, Goto(p, At(pc, c)), pc # "link"
      PROVE  proc'[q] = proc[q]
  BY <1>5, <1>7 DEF At
<1>8. ASSUME NEW p \in Process, HandlerStep(p), ~ InsertCopy(p)
      PROVE  proc'[q] = proc[q]
  <2>1. CASE FindCopy(p)
    <3>1. \A c, s2, v : [At("write", c) EXCEPT !.share = s2, !.version = v].pc # "link"
      BY DEF At
    <3> QED
      BY <1>5, <1>6, <1>7, <2>1, <3>1 DEF FindCopy
  <2>2. CASE ReadForInsert(p)
    <3>1. \A c, v : [At("copy", c) EXCEPT !.version = v].pc # "link"
      BY DEF At
    <3> QED
      BY <1>5, <1>6, <2>2, <3>1 DEF ReadForInsert
  <2>3. CASE RevokeCopies(p)
    <3>1. \A c : [At("unlink", c) EXCEPT !.ok = FALSE].pc # "link"
      BY DEF At
    <3> QED
      BY <1>5, <1>7, <2>3, <3>1 DEF RevokeCopies
  <2>4. CASE WriteCopy(p) \/ LinkCopy(p) \/ Unlink(p) \/ DeleteCopies(p) \/ DeleteAllRows(p)
    BY <1>6, <2>4 DEF WriteCopy, LinkCopy, Unlink, DeleteCopies, DeleteAllRows
  <2>5. CASE DeleteRow(p)
    <3>1. [proc[p] EXCEPT !.pc = "deleteCopies"].pc # "link"
      BY <1>1 DEF Handler
    <3> QED
      BY <1>5, <2>5, <3>1 DEF DeleteRow
  <2>6. CASE DeleteListedCopies(p)
    BY <1>7, <2>6 DEF DeleteListedCopies
  <2> QED
    BY <1>8, <2>1, <2>2, <2>3, <2>4, <2>5, <2>6 DEF HandlerStep
<1>9. ASSUME NEW p \in Process, Next, ~ \E r \in Process : HandlerStep(r)
      PROVE  proc'[q] = proc[q]
  <2>1. \A c, a : Idle(c, a).pc # "link"
    BY DEF Idle
  <2>2. \A l : [At("listed", NoChat) EXCEPT !.listed = l].pc # "link"
    BY DEF At
  <2>3. \A c, b : [At("deleteRow", c) EXCEPT !.own = b].pc # "link"
    BY DEF At
  <2> QED
    BY <1>5, <1>6, <1>7, <1>9, <2>1, <2>2, <2>3 DEF Next, ShareChat, UnshareChat, DeleteChat,
       EditChat, DeleteFolderChats, DeleteAll, Fail, Crash
<1> QED
  BY <1>2, <1>3, <1>4, <1>8, <1>9

\* A step that leaves what is still served as it was retires the rest.
LEMMA Retires ==
  ASSUME SharingInv, SharingInv', Next, issued \subseteq issued',
         \A c \in Chat : chat'[c].version = chat[c].version,
         \A s \in ShareId : Served(s)' => Served(s),
         \A k \in copies' : Served(k.id)' => k \in copies
  PROVE  Links!Next
<1>1. LinkStates /\ LinkStates'
  BY LinkStatesHold, PTL
<1>2. ASSUME NEW s \in ShareId
      PROVE  LinkState(s)' \in {LinkState(s), Links!Dead}
  <2>1. CASE Served(s)'
    <3>1. PICK k \in copies' : k.id = s
      BY <2>1 DEF Served
    <3>2. k \in copies /\ Served(s)
      BY <2>1, <3>1
    <3>3. LinkState(s) = Links!Live(k.of, k.version) /\ LinkState(s)' = Links!Live(k.of, k.version)
      BY <1>1, <2>1, <3>1, <3>2 DEF LinkStates, Links!Live
    <3> QED
      BY <3>3
  <2>2. CASE ~ Served(s)' /\ s \in issued' /\ ~ BeingLinked(s)'
    BY <1>1, <2>2 DEF LinkStates, Links!Dead
  <2>3. CASE ~ Served(s)' /\ (s \in issued' => BeingLinked(s)')
    <3>1. s \in issued => BeingLinked(s)
      BY <2>3, FreshIdsLinked
    <3>2. ~ Served(s)
      BY <3>1, NotYetServed
    <3>3. LinkState(s) = Links!Unused /\ LinkState(s)' = Links!Unused
      BY <1>1, <2>3, <3>1, <3>2 DEF LinkStates, Links!Unused
    <3> QED
      BY <3>3
  <2> QED
    BY <2>1, <2>2, <2>3
<1> DEFINE S == {s \in ShareId : LinkState(s)' = Links!Dead}
<1>3. [s \in ShareId |-> LinkState(s)'] =
        [s \in ShareId |-> IF s \in S THEN Links!Dead ELSE LinkState(s)]
  BY <1>2
<1>4. [c \in Chat |-> chat'[c].version] = [c \in Chat |-> chat[c].version]
  OBVIOUS
<1>5. S \in SUBSET ShareId
  OBVIOUS
<1>6. Links!Retire(S)
  <2> HIDE DEF S
  <2>1. \A s \in ShareId : [t \in ShareId |-> LinkState(t)][s] = LinkState(s)
    OBVIOUS
  <2> QED
    BY <1>3, <1>4, <2>1 DEF Links!Retire, Links!Dead
<1> QED
  BY <1>5, <1>6 DEF Links!Next

\* All steps but the link, the write and the edit retire links at most.
LEMMA QuietStepRetires ==
  ASSUME SharingInv, SharingInv', Next,
         \A p \in Process : ~ LinkCopy(p) /\ ~ WriteCopy(p),
         \A p \in Process, c \in Chat : ~ EditChat(p, c)
  PROVE  Links!Next
<1>1. \A c \in Chat : chat'[c].version = chat[c].version
  BY VersionsGrow
<1>2. copies' \subseteq copies \/ \E p \in Process : InsertCopy(p)
  BY CopiesWritten
<1>3. issued \subseteq issued'
  BY DEF Next, HandlerStep, ShareChat, UnshareChat, DeleteChat, EditChat,
       DeleteFolderChats, DeleteAll, Fail, Crash, FindCopy, WriteCopy, ReadForInsert,
       InsertCopy, LinkCopy, RevokeCopies, Unlink, DeleteRow, DeleteCopies,
       DeleteListedCopies, DeleteAllRows
<1>4. ASSUME NEW s \in ShareId, Served(s)'
      PROVE  Served(s) /\ s \in issued
  <2>1. PICK c \in Chat : chat'[c].exists /\ chat'[c].share = s
    BY <1>4 DEF Served
  <2>2. chat[c].exists /\ chat[c].share = s
    BY <2>1, OnlyLinkingLinks
  <2>3. s \in issued
    BY <2>2, ConstantsAssumption DEF SharingInv, IdsIssued
  <2>4. \E m \in copies : m.id = s
    BY <1>4, <2>3, NoCopyComesBack DEF Served
  <2> QED
    BY <2>2, <2>3, <2>4 DEF Served
<1>5. ASSUME NEW k \in copies', Served(k.id)'
      PROVE  k \in copies
  <2>1. k.id \in ShareId
    BY DEF SharingInv, TypeOK, Copy
  <2>2. k.id \in issued
    BY <1>4, <1>5, <2>1
  <2>3. ASSUME NEW p \in Process, InsertCopy(p), k \notin copies
        PROVE  k.id \notin issued
    BY <2>3 DEF InsertCopy
  <2> QED
    BY <1>2, <2>2, <2>3
<1> QED
  BY <1>1, <1>3, <1>4, <1>5, Retires

\* An edit grows the version and leaves every link as it is.
LEMMA EditEdits ==
  ASSUME SharingInv, SharingInv', NEW p \in Process, NEW c \in Chat, EditChat(p, c)
  PROVE  Links!Next
<1>1. LinkStates /\ LinkStates'
  BY LinkStatesHold, PTL
<1>2. chat \in [Chat -> ChatRow] /\ proc \in [Process -> Handler]
  BY DEF SharingInv, TypeOK
<1>3. \A d \in Chat : /\ chat'[d].exists = chat[d].exists
                      /\ chat'[d].share = chat[d].share
  BY <1>2 DEF EditChat, ChatRow
<1>4. \A s \in ShareId : Served(s)' <=> Served(s)
  BY <1>3 DEF Served, EditChat
<1>5. \A s \in ShareId : BeingLinked(s)' <=> BeingLinked(s)
  BY <1>2 DEF BeingLinked, EditChat, Goto, Idle
<1>6. ASSUME NEW s \in ShareId PROVE LinkState(s)' = LinkState(s)
  <2>1. Served(s) => \E k \in copies : k.id = s
    BY DEF Served
  <2> QED
    BY <1>1, <1>4, <1>5, <2>1 DEF LinkStates, EditChat, Links!Live, Links!Dead, Links!Unused
<1>7. [d \in Chat |-> chat'[d].version] =
        [[d \in Chat |-> chat[d].version] EXCEPT ![c] = @ + 1]
  BY <1>2 DEF EditChat, ChatRow
<1>8. chat[c].version < MaxVersion
  BY DEF EditChat
<1>9. [s \in ShareId |-> LinkState(s)'] = [s \in ShareId |-> LinkState(s)]
  BY <1>6
<1> QED
  BY <1>7, <1>8, <1>9 DEF Links!Next, Links!Edit

\* The write refreshes the link, if it is still served, and nothing else.
LEMMA WriteRefreshes ==
  ASSUME SharingInv, SharingInv', Next, NEW p \in Process, WriteCopy(p)
  PROVE  Links!Next
<1>0. proc[p].share \in ShareId /\ proc[p].chat \in Chat /\ proc[p].version \in Version
  BY DEF WriteCopy, SharingInv, HasChat, WritingKeepsChat, TypeOK, Handler
<1> PICK r \in ShareId, c \in Chat, v \in Version :
          proc[p].share = r /\ proc[p].chat = c /\ proc[p].version = v
  BY <1>0
<1>1. LinkStates /\ LinkStates'
  BY LinkStatesHold, PTL
<1>2. c \in Chat /\ r \in issued /\ r \in ShareId /\ v \in Version /\ v <= chat[c].version
  BY DEF WriteCopy, SharingInv, HasChat, WritingKeepsChat, VersionsSeen, TypeOK, Handler
<1>3. proc' = [proc EXCEPT ![p] = proc'[p]] /\ proc'[p].pc # "link" /\ proc[p].pc # "link"
  <2>1. proc \in [Process -> Handler]
    BY DEF SharingInv, TypeOK
  <2> QED
    BY <2>1 DEF WriteCopy, Reply, Goto, Idle
<1>4. \A s \in ShareId : BeingLinked(s)' <=> BeingLinked(s)
  <2>1. proc \in [Process -> Handler]
    BY DEF SharingInv, TypeOK
  <2>2. \A q \in Process \ {p} : proc'[q] = proc[q]
    BY <1>3, <2>1
  <2> QED
    BY <1>3, <2>2 DEF BeingLinked
<1>5. /\ \/ copies' = copies
         \/ copies' = Rewritten(r, c, v) /\ \E k \in copies : k.id = r
      /\ chat' = chat /\ issued' = issued
  BY DEF WriteCopy
<1> DEFINE new == [id |-> r, of |-> c, version |-> v]
<1>6. copies' = copies \/ copies' = {k \in copies : k.id # r} \cup {new}
  BY <1>5 DEF Rewritten
<1>7. new.id = r /\ new.of = c /\ new.version = v
  OBVIOUS
<1> HIDE DEF new
<1>8. \A s \in ShareId : Served(s)' <=> Served(s)
  BY <1>5, <1>6, <1>7 DEF Served
<1>9. ASSUME NEW s \in ShareId, s # r \/ copies' = copies
      PROVE  LinkState(s)' = LinkState(s)
  <2>1. \A k : k.id = s => (k \in copies' <=> k \in copies)
    BY <1>6, <1>7, <1>9
  <2>2. Served(s) => \E k \in copies : k.id = s
    BY DEF Served
  <2> QED
    BY <1>1, <1>4, <1>5, <1>8, <2>1, <2>2
       DEF LinkStates, Links!Live, Links!Dead, Links!Unused
<1>10. [d \in Chat |-> chat'[d].version] = [d \in Chat |-> chat[d].version]
  BY <1>5
<1>11. CASE copies' = copies
  <2>1. [s \in ShareId |-> LinkState(s)'] = [s \in ShareId |-> IF s \in {} THEN Links!Dead
                                                               ELSE LinkState(s)]
    BY <1>9, <1>11
  <2>2. Links!Retire({})
    BY <1>10, <2>1 DEF Links!Retire, Links!Dead
  <2> QED
    BY <2>2 DEF Links!Next
<1>12. CASE copies' # copies
  <2>1. copies' = {k \in copies : k.id # r} \cup {new} /\ \E k \in copies : k.id = r
    BY <1>5, <1>6, <1>12
  <2>2. CASE ~ Served(r)
    <3>1. LinkState(r)' = LinkState(r)
      BY <1>1, <1>2, <1>4, <1>5, <1>8, <2>2 DEF LinkStates, Links!Dead, Links!Unused
    <3>2. [s \in ShareId |-> LinkState(s)'] = [s \in ShareId |-> IF s \in {} THEN Links!Dead
                                                                 ELSE LinkState(s)]
      BY <1>9, <3>1
    <3>3. Links!Retire({})
      BY <1>10, <3>2 DEF Links!Retire, Links!Dead
    <3> QED
      BY <3>3 DEF Links!Next
  <2>3. CASE Served(r)
    <3>1. PICK k \in copies : k.id = r
      BY <2>1
    <3>2. k.of = c
      BY <3>1 DEF SharingInv, WritingKeepsChat, WriteCopy
    <3>3. LinkState(r) = Links!Live(c, k.version)
      BY <1>1, <1>2, <2>3, <3>1, <3>2 DEF LinkStates, Links!Live
    <3>4. LinkState(r)' = Links!Live(c, v)
      BY <1>1, <1>2, <1>7, <1>8, <2>1, <2>3 DEF LinkStates, Links!Live
    <3>5. [s \in ShareId |-> LinkState(s)'] =
            [[s \in ShareId |-> LinkState(s)] EXCEPT ![r] = Links!Live(c, v)]
      BY <1>9, <3>4
    <3>6. [s \in ShareId |-> LinkState(s)][r] = LinkState(r)
          /\ [d \in Chat |-> chat[d].version][c] = chat[c].version
      BY <1>2
    <3>7. Links!Shows(r, c)
      BY <3>3, <3>6 DEF Links!Shows, Links!Live
    <3>8. Links!Refresh(r, c, v)
      BY <1>2, <1>10, <3>5, <3>6, <3>7 DEF Links!Refresh, Links!Live
    <3> QED
      BY <1>2, <3>8 DEF Links!Next, Version
  <2> QED
    BY <2>2, <2>3
<1> QED
  BY <1>11, <1>12

\* Linking publishes the id, in place of the link the chat had; when the chat
\* or the copy is gone by then, nothing is published.
LEMMA LinkPublishes ==
  ASSUME SharingInv, SharingInv', Next, NEW p \in Process, LinkCopy(p)
  PROVE  Links!Next
<1>0. /\ proc[p].pc = "link" /\ proc[p].share \in ShareId /\ proc[p].chat \in Chat
      /\ proc[p].share \in issued
  BY DEF LinkCopy, SharingInv, HasChat, LinkingOwnsId, TypeOK, Handler
<1> PICK r \in ShareId, c \in Chat : proc[p].share = r /\ proc[p].chat = c
  BY <1>0
<1>1. LinkStates /\ LinkStates'
  BY LinkStatesHold, PTL
<1>2. chat \in [Chat -> ChatRow] /\ proc \in [Process -> Handler]
  BY DEF SharingInv, TypeOK
<1>3. copies' = copies /\ issued' = issued
  BY DEF LinkCopy
<1>4. \A d \in Chat \ {c} : chat'[d] = chat[d]
  BY <1>2 DEF LinkCopy
<1>5. /\ chat'[c].exists = chat[c].exists
      /\ chat'[c].share = (IF chat[c].exists THEN r ELSE chat[c].share)
      /\ chat'[c].version = chat[c].version
  BY <1>2 DEF LinkCopy, ChatRow
<1>6. \A d \in Chat : chat'[d].version = chat[d].version
  BY <1>4, <1>5
<1>7. \A d \in Chat : chat[d].share # r
  BY <1>0 DEF SharingInv, LinkingOwnsId
<1>8. \A s \in ShareId \ {r} : Served(s)' => Served(s)
  BY <1>3, <1>4, <1>5 DEF Served
<1>9. CASE ~ Served(r)'
  BY <1>3, <1>6, <1>8, <1>9, Retires
<1>10. CASE Served(r)'
  <2>1. PICK k \in copies : k.id = r
    BY <1>3, <1>10 DEF Served
  <2>2. k.of = c /\ k.version \in Version /\ k.version <= chat[c].version
    BY <1>0, <2>1 DEF SharingInv, LinkingOwnsId, VersionsSeen, TypeOK, Copy
  <2>3. chat[c].exists
    BY <1>4, <1>5, <1>7, <1>10 DEF Served
  <2>4. LinkState(r)' = Links!Live(c, k.version)
    BY <1>1, <1>3, <1>10, <2>1, <2>2 DEF LinkStates, Links!Live
  <2>5. LinkState(r) = Links!Unused
    <3>1. BeingLinked(r)
      BY <1>0 DEF BeingLinked
    <3>2. ~ Served(r)
      BY <3>1, NotYetServed
    <3> QED
      BY <1>1, <3>1, <3>2 DEF LinkStates, Links!Unused
  <2>6. ASSUME NEW s \in ShareId \ {r}
        PROVE  BeingLinked(s)' <=> BeingLinked(s)
    <3>1. proc'[p].pc = "idle" /\ \A q \in Process \ {p} : proc'[q] = proc[q]
      BY <1>2 DEF LinkCopy, Reply, Goto, Idle
    <3> QED
      BY <1>0, <3>1 DEF BeingLinked
  <2>7. ASSUME NEW s \in ShareId \ {r}, Served(s), chat[c].share # s
        PROVE  /\ LinkState(s)' = LinkState(s)
               /\ LinkState(s).state = "live" /\ LinkState(s).chat # c
    <3>1. PICK m \in copies : m.id = s
      BY <2>7 DEF Served
    <3>2. PICK d \in Chat : chat[d].exists /\ chat[d].share = s
      BY <2>7 DEF Served
    <3>3. d # c /\ m.of = d
      BY <1>2, <2>7, <3>1, <3>2, ConstantsAssumption
         DEF SharingInv, LinkServesItsChat, Shared
    <3>4. Served(s)'
      BY <1>3, <1>4, <3>1, <3>2, <3>3 DEF Served
    <3>5. LinkState(s) = Links!Live(d, m.version) /\ LinkState(s)' = Links!Live(d, m.version)
      BY <1>1, <1>3, <2>7, <3>1, <3>3, <3>4 DEF LinkStates, Links!Live
    <3> QED
      BY <3>3, <3>5 DEF Links!Live
  <2>8. ASSUME NEW s \in ShareId \ {r}, Served(s), chat[c].share = s
        PROVE  LinkState(s)' = Links!Dead /\ LinkState(s).state = "live" /\ LinkState(s).chat = c
    <3>1. PICK m \in copies : m.id = s
      BY <2>8 DEF Served
    <3>2. m.of = c
      BY <2>3, <2>8, <3>1, ConstantsAssumption DEF SharingInv, LinkServesItsChat, Shared
    <3>3. \A d \in Chat \ {c} : chat[d].share # s
      BY <2>3, <2>8, ConstantsAssumption DEF SharingInv, LinkServesItsChat, Shared
    <3>4. ~ Served(s)'
      BY <1>4, <1>5, <2>3, <3>3 DEF Served
    <3>5. s \in issued /\ ~ BeingLinked(s)
      BY <2>8, <3>1, NotYetServed DEF SharingInv, IdsIssued
    <3>6. LinkState(s) = Links!Live(c, m.version) /\ LinkState(s)' = Links!Dead
      BY <1>1, <1>3, <2>6, <2>8, <3>1, <3>2, <3>4, <3>5 DEF LinkStates, Links!Live, Links!Dead
    <3> QED
      BY <3>6 DEF Links!Live
  <2>9. ASSUME NEW s \in ShareId \ {r}, ~ Served(s)
        PROVE  LinkState(s)' = LinkState(s) /\ LinkState(s).state # "live"
    <3>1. ~ Served(s)'
      BY <1>8, <2>9
    <3>2. CASE s \in issued /\ ~ BeingLinked(s)
      BY <1>1, <1>3, <2>6, <2>9, <3>1, <3>2 DEF LinkStates, Links!Dead
    <3>3. CASE s \in issued => BeingLinked(s)
      BY <1>1, <1>3, <2>6, <2>9, <3>1, <3>3 DEF LinkStates, Links!Unused
    <3> QED
      BY <3>2, <3>3
  <2> DEFINE L == [s \in ShareId |-> LinkState(s)]
  <2>10. \A s \in ShareId : L[s] = LinkState(s)
    OBVIOUS
  <2>11. ASSUME NEW s \in ShareId
         PROVE  LinkState(s)' = IF s = r THEN Links!Live(c, k.version)
                                ELSE IF L[s].state = "live" /\ L[s].chat = c THEN Links!Dead
                                ELSE L[s]
    <3>1. L[s] = LinkState(s)
      BY <2>10
    <3> HIDE DEF L
    <3> QED
      BY <2>4, <2>7, <2>8, <2>9, <3>1
  <2>12. [s \in ShareId |-> LinkState(s)'] =
           [s \in ShareId |-> IF s = r THEN Links!Live(c, k.version)
                              ELSE IF L[s].state = "live" /\ L[s].chat = c THEN Links!Dead
                              ELSE L[s]]
    BY <2>11
  <2>13. [d \in Chat |-> chat'[d].version] = [d \in Chat |-> chat[d].version]
    BY <1>6
  <2>14. L[r] = Links!Unused /\ [d \in Chat |-> chat[d].version][c] = chat[c].version
    BY <2>5
  <2>15. Links!Publish(r, c, k.version)
    BY <2>2, <2>12, <2>13, <2>14 DEF Links!Publish, Links!Shows, Links!Unused, Links!Dead, Links!Live
  <2> QED
    BY <2>2, <2>15 DEF Links!Next, Version
<1> QED
  BY <1>9, <1>10

\* The handlers of any number of processes, with their faults and crashes,
\* implement SharedLinks: a reader of links sees each one published once, for
\* one chat, in versions the chat has had, until it is dead for good.
THEOREM SharingImplementsLinks == Spec => LinksSpec
<1>1. Init => Links!Init
  <2> SUFFICES ASSUME Init PROVE Links!Init
    OBVIOUS
  <2>1. [c \in Chat |-> chat[c].version] = [c \in Chat |-> 0]
    BY DEF Init
  <2>2. ASSUME NEW s \in ShareId PROVE LinkState(s) = Links!Unused
    BY DEF Init, LinkState, Served, Links!Unused
  <2>3. [s \in ShareId |-> LinkState(s)] = [s \in ShareId |-> Links!Unused]
    BY <2>2
  <2> QED
    BY <2>1, <2>3 DEF Links!Init, Links!Unused
<1>2. ASSUME SharingInv, SharingInv', [Next]_vars
      PROVE  [Links!Next]_(Links!vars)
  <2>1. CASE UNCHANGED vars
    <3>1. UNCHANGED <<chat, copies, issued, proc>>
      BY <2>1 DEF vars
    <3>2. ASSUME NEW s \in ShareId PROVE LinkState(s)' = LinkState(s)
      BY <3>1 DEF LinkState, Served, BeingLinked, CopyOf
    <3>3. [s \in ShareId |-> LinkState(s)'] = [s \in ShareId |-> LinkState(s)]
      BY <3>2
    <3> QED
      BY <3>1, <3>3 DEF Links!vars
  <2>2. CASE Next
    BY <1>2, <2>2, QuietStepRetires, EditEdits, WriteRefreshes, LinkPublishes
  <2> QED
    BY <1>2, <2>1, <2>2
<1> QED
  BY <1>1, <1>2, SharingInvHolds, PTL DEF Spec, LinksSpec, Links!Spec


----------------------------------------------------------------------------
(* What handlers leave behind. A handler that nothing disturbs finds the    *)
(* chat in order and knows at each of its steps what it has done to it.     *)

AtWork(p) == proc[p].pc # "idle"

InOrder(c) ==
  /\ ~ Shared(c) => CopiesOf(c) = {}
  /\ Shared(c) => \E k \in copies : CopiesOf(c) = {k} /\ k.id = chat[c].share

\* What holds whether or not the chat was in order when the handler began ...
Taken(p) ==
  /\ proc[p].pc = "unlink" /\ proc[p].ok => CopiesOf(proc[p].chat) = {}
  /\ proc[p].pc = "deleteCopies" /\ proc[p].own => ~ chat[proc[p].chat].exists

\* ... and what holds if it was.
Given(p) ==
  LET c == proc[p].chat
      at(pc) == proc[p].pc = pc IN
  /\ at("refresh") \/ at("write") => Shared(c) /\ InOrder(c)
  /\ at("write") => proc[p].share = chat[c].share
  /\ at("insert") \/ at("copy") => chat[c].exists /\ ~ Shared(c) /\ CopiesOf(c) = {}
  /\ at("write") \/ at("copy") => proc[p].version = chat[c].version
  /\ at("link") => /\ chat[c].exists /\ ~ Shared(c)
                   /\ CopiesOf(c) = {[id |-> proc[p].share, of |-> c,
                                       version |-> chat[c].version]}

RepairInv ==
  /\ \A p \in Process : proc[p].pc \in {"listed", "allRows"} => proc[p].chat = NoChat
  /\ \A p \in touched : AtWork(p)
  /\ \A p, q \in Process \ touched :
       p # q /\ AtWork(p) /\ AtWork(q) => HandledBy(p) \cap HandledBy(q) = {}
  /\ \A p \in Process \ touched :
       /\ Taken(p)
       /\ AtWork(p) /\ proc[p].chat \notin broken => Given(p)
  /\ \A c \in Chat \ broken :
       (\A p \in Process : AtWork(p) => c \notin HandledBy(p)) /\ chat[c].exists => InOrder(c)

\* A handler goes on, or ends.
GoesOn(p) ==
  /\ AtWork(p)' /\ proc'[p].chat = proc[p].chat
  /\ proc'[p].pc \in {"listed", "allRows"} => proc[p].pc \in {"listed", "allRows"}
  /\ Taken(p)'
  /\ Given(p) => Given(p)'

ServesNow(c) ==
  \E k \in copies : k.id = chat[c].share /\ k.of = c /\ k.version = chat[c].version

EndsAs(p, c, answer) ==
  /\ answer = "shared" /\ Given(p) => InOrder(c)' /\ ServesNow(c)'
  /\ answer = "unshared" /\ Taken(p) => CopiesOf(c)' = {} /\ ~ Shared(c)'
  /\ answer = "deleted" /\ Taken(p) =>
       /\ CopiesOf(c)' = {} /\ (Shared(c)' => Shared(c))
       /\ proc[p].own => ~ chat'[c].exists
  /\ answer = "allDeleted" => \A d \in Chat : ~ chat'[d].exists

Ended(p, c) ==
  /\ ~ AtWork(p)' /\ proc'[p].chat = c /\ proc'[p].answer \in Answer \ {"none"}
  /\ EndsAs(p, c, proc'[p].answer)
Elsewhere(c) == \A d \in Chat \ {c} : RowsOf(d)' = RowsOf(d)

\* What the handler is after a step, and the other handlers.
LEMMA GotoIs ==
  ASSUME SharingInv, NEW p \in Process, NEW h, Goto(p, h)
  PROVE  proc'[p] = h /\ \A q \in Process \ {p} : proc'[q] = proc[q]
BY DEF Goto, SharingInv, TypeOK

LEMMA ReplyIs ==
  ASSUME SharingInv, NEW p \in Process, NEW a, Reply(p, a)
  PROVE  ~ AtWork(p)' /\ proc'[p].answer = a /\ proc'[p].chat = proc[p].chat
BY GotoIs DEF Reply, Idle, AtWork

LEMMA SharesShared ==
  ASSUME SharingInv, NEW p \in Process, NEW c, c = proc[p].chat,
         FindCopy(p) \/ WriteCopy(p)
  PROVE  AtWork(p) /\ c \in Chat /\ Elsewhere(c) /\ (GoesOn(p) \/ Ended(p, c))
<1>1. AtWork(p) /\ c \in Chat /\ UNCHANGED chat
  BY DEF FindCopy, WriteCopy, AtWork, SharingInv, HasChat
<1>2. CASE FindCopy(p)
  <2>1. UNCHANGED <<chat, copies>> /\ proc[p].pc = "refresh"
    BY <1>2 DEF FindCopy
  <2>2. CASE CopiesOf(c) = {} /\ Goto(p, At("insert", c))
    <3>1. proc'[p].pc = "insert" /\ proc'[p].chat = c
      BY <2>2, GotoIs DEF At
    <3>2. ~ Given(p)
      BY <2>1, <2>2 DEF Given, InOrder
    <3> QED
      BY <1>1, <2>1, <3>1, <3>2 DEF GoesOn, AtWork, Taken, Elsewhere, RowsOf, CopiesOf
  <2>3. CASE Reply(p, "failed")
    BY <1>1, <2>1, <2>3, ReplyIs
       DEF Ended, EndsAs, AtWork, Elsewhere, RowsOf, CopiesOf, Answer
  <2>4. ASSUME NEW k \in CopiesOf(c),
               Goto(p, [At("write", c) EXCEPT !.share = k.id, !.version = chat[c].version])
        PROVE  GoesOn(p)
    <3>1. /\ proc'[p].pc = "write" /\ proc'[p].chat = c
          /\ proc'[p].share = k.id /\ proc'[p].version = chat[c].version
      <4> DEFINE h == [At("write", c) EXCEPT !.share = k.id, !.version = chat[c].version]
      <4>1. h.pc = "write" /\ h.chat = c /\ h.share = k.id /\ h.version = chat[c].version
        BY DEF At
      <4> HIDE DEF h
      <4>2. proc'[p] = h
        BY <2>4, GotoIs DEF h
      <4> QED
        BY <4>1, <4>2
    <3>2. Given(p) => Shared(c) /\ InOrder(c) /\ k.id = chat[c].share
      BY <2>1, <2>4 DEF Given, InOrder
    <3>3. Given(p) => Given(p)'
      BY <2>1, <3>1, <3>2 DEF Given, InOrder, Shared, CopiesOf
    <3> QED
      BY <3>1, <3>3 DEF GoesOn, AtWork, Taken
  <2> QED
    BY <1>1, <1>2, <2>1, <2>2, <2>3, <2>4 DEF FindCopy, Elsewhere, RowsOf, CopiesOf
<1>3. CASE WriteCopy(p)
  <2>1. proc[p].pc = "write" /\ UNCHANGED chat
    BY <1>3 DEF WriteCopy
  <2>2. CASE UNCHANGED copies /\ Reply(p, "failed")
    BY <1>1, <2>1, <2>2, ReplyIs
       DEF Ended, EndsAs, AtWork, Elsewhere, RowsOf, CopiesOf, Answer
  <2>3. ASSUME NEW k \in copies, k.id = proc[p].share,
               copies' = Rewritten(proc[p].share, c, proc[p].version), Reply(p, "shared")
        PROVE  Elsewhere(c) /\ Ended(p, c)
    <3> DEFINE new == [id |-> proc[p].share, of |-> c, version |-> proc[p].version]
    <3>1. \A m \in copies : m.id = proc[p].share => m.of = c
      BY <2>1 DEF SharingInv, WritingKeepsChat
    <3>2. new.id = proc[p].share /\ new.of = c /\ new.version = proc[p].version
      OBVIOUS
    <3>3. copies' = {m \in copies : m.id # proc[p].share} \cup {new}
      BY <2>3 DEF Rewritten
    <3> HIDE DEF new
    <3>4. Elsewhere(c)
      <4> SUFFICES ASSUME NEW d \in Chat, d # c PROVE RowsOf(d)' = RowsOf(d)
        BY DEF Elsewhere
      <4>1. CopiesOf(d)' = CopiesOf(d)
        BY <3>1, <3>2, <3>3 DEF CopiesOf
      <4> QED
        BY <1>1, <4>1 DEF RowsOf
    <3>5. ASSUME Given(p) PROVE InOrder(c)' /\ ServesNow(c)'
      <4>1. /\ Shared(c) /\ proc[p].share = chat[c].share /\ proc[p].version = chat[c].version
            /\ \E m \in copies : CopiesOf(c) = {m} /\ m.id = chat[c].share
        BY <2>1, <3>5 DEF Given, InOrder
      <4>2. CopiesOf(c)' = {new}
        BY <3>1, <3>2, <3>3, <4>1 DEF CopiesOf
      <4>3. Shared(c)' /\ new \in copies'
        BY <1>1, <3>3, <4>1 DEF Shared
      <4> QED
        BY <1>1, <3>2, <4>1, <4>2, <4>3 DEF InOrder, ServesNow
    <3>6. ~ AtWork(p)' /\ proc'[p].answer = "shared" /\ proc'[p].chat = c
      BY <2>3, ReplyIs
    <3> QED
      BY <1>1, <2>1, <3>4, <3>5, <3>6 DEF Ended, EndsAs, Answer
  <2> QED
    BY <1>1, <1>3, <2>1, <2>2, <2>3 DEF WriteCopy, Elsewhere, RowsOf, CopiesOf
<1> QED
  BY <1>1, <1>2, <1>3

LEMMA SharesAnew ==
  ASSUME SharingInv, NEW p \in Process, NEW c, c = proc[p].chat,
         ReadForInsert(p) \/ InsertCopy(p) \/ LinkCopy(p)
  PROVE  AtWork(p) /\ c \in Chat /\ Elsewhere(c) /\ (GoesOn(p) \/ Ended(p, c))
<1>1. AtWork(p) /\ c \in Chat
  BY DEF ReadForInsert, InsertCopy, LinkCopy, AtWork, SharingInv, HasChat
<1>2. ASSUME UNCHANGED <<chat, copies>>, Reply(p, "failed")
      PROVE  Elsewhere(c) /\ Ended(p, c)
  BY <1>2, ReplyIs DEF Ended, EndsAs, Elsewhere, RowsOf, CopiesOf, Answer
<1>3. CASE ReadForInsert(p)
  <2>1. UNCHANGED <<chat, copies>> /\ proc[p].pc = "insert"
    BY <1>3 DEF ReadForInsert
  <2>2. CASE Goto(p, [At("copy", c) EXCEPT !.version = chat[c].version])
    <3> DEFINE h == [At("copy", c) EXCEPT !.version = chat[c].version]
    <3>1. h.pc = "copy" /\ h.chat = c /\ h.version = chat[c].version
      BY DEF At
    <3> HIDE DEF h
    <3>2. proc'[p] = h
      BY <2>2, GotoIs DEF h
    <3>3. Given(p) => Given(p)'
      BY <2>1, <3>1, <3>2 DEF Given, Shared, CopiesOf
    <3>4. GoesOn(p)
      BY <3>1, <3>2, <3>3 DEF GoesOn, AtWork, Taken
    <3> QED
      BY <1>1, <2>1, <3>4 DEF Elsewhere, RowsOf, CopiesOf
  <2> QED
    BY <1>1, <1>2, <1>3, <2>1, <2>2 DEF ReadForInsert
<1>4. CASE InsertCopy(p)
  <2>1. PICK id \in ShareId \ issued :
          /\ copies' = copies \cup {[id |-> id, of |-> c, version |-> proc[p].version]}
          /\ Goto(p, [At("link", c) EXCEPT !.share = id]) /\ UNCHANGED chat
          /\ proc[p].pc = "copy"
    BY <1>4 DEF InsertCopy
  <2> DEFINE h == [At("link", c) EXCEPT !.share = id]
             new == [id |-> id, of |-> c, version |-> proc[p].version]
  <2>2. h.pc = "link" /\ h.chat = c /\ h.share = id
    BY DEF At
  <2>3. new.of = c /\ copies' = copies \cup {new}
    BY <2>1
  <2> HIDE DEF h
  <2>4. proc'[p] = h
    BY <2>1, GotoIs DEF h
  <2>5. ASSUME Given(p) PROVE Given(p)'
    <3>1. /\ chat[c].exists /\ ~ Shared(c) /\ CopiesOf(c) = {}
          /\ proc[p].version = chat[c].version
      BY <2>1, <2>5 DEF Given
    <3> HIDE DEF new
    <3>2. CopiesOf(c)' = {new}
      BY <2>3, <3>1 DEF CopiesOf
    <3>3. CopiesOf(c)' = {[id |-> proc'[p].share, of |-> c, version |-> chat'[c].version]}
      BY <2>1, <2>2, <2>4, <3>1, <3>2 DEF new
    <3> QED
      BY <2>1, <2>2, <2>4, <3>1, <3>3 DEF Given, Shared
  <2>6. GoesOn(p)
    BY <2>2, <2>4, <2>5 DEF GoesOn, AtWork, Taken
  <2>7. Elsewhere(c)
    <3> HIDE DEF new
    <3> SUFFICES ASSUME NEW d \in Chat, d # c PROVE RowsOf(d)' = RowsOf(d)
      BY DEF Elsewhere
    <3>1. CopiesOf(d)' = CopiesOf(d)
      BY <2>3 DEF CopiesOf
    <3> QED
      BY <2>1, <3>1 DEF RowsOf
  <2> QED
    BY <1>1, <2>6, <2>7
<1>5. CASE LinkCopy(p)
  <2>1. proc[p].pc = "link" /\ UNCHANGED copies
    BY <1>5 DEF LinkCopy
  <2>2. CASE chat[c].exists /\ chat' = [chat EXCEPT ![c].share = proc[p].share]
               /\ Reply(p, "shared")
    <3>1. /\ chat'[c].share = proc[p].share /\ chat'[c].version = chat[c].version
          /\ chat'[c].exists /\ \A d \in Chat \ {c} : chat'[d] = chat[d]
      BY <1>1, <2>2 DEF SharingInv, TypeOK, ChatRow
    <3>2. Elsewhere(c)
      BY <2>1, <3>1 DEF Elsewhere, RowsOf, CopiesOf
    <3>3. ASSUME Given(p) PROVE InOrder(c)' /\ ServesNow(c)'
      <4> DEFINE k == [id |-> proc[p].share, of |-> c, version |-> chat[c].version]
      <4>1. CopiesOf(c) = {k}
        BY <2>1, <3>3 DEF Given
      <4>2. k.id = proc[p].share /\ k.of = c /\ k.version = chat[c].version
        OBVIOUS
      <4> HIDE DEF k
      <4>3. CopiesOf(c)' = {k} /\ k \in copies'
        BY <2>1, <4>1 DEF CopiesOf
      <4>4. Shared(c)'
        BY <2>1, <3>1, ConstantsAssumption DEF Shared, SharingInv, LinkingOwnsId, TypeOK
      <4> QED
        BY <3>1, <4>2, <4>3, <4>4 DEF InOrder, ServesNow
    <3> QED
      BY <1>1, <2>2, <3>2, <3>3, ReplyIs DEF Ended, EndsAs, Answer
  <2> QED
    BY <1>1, <1>2, <1>5, <2>1, <2>2 DEF LinkCopy
<1> QED
  BY <1>3, <1>4, <1>5

LEMMA TakesBack ==
  ASSUME SharingInv, NEW p \in Process, NEW c, c = proc[p].chat,
         RevokeCopies(p) \/ Unlink(p) \/ DeleteRow(p) \/ DeleteCopies(p)
  PROVE  AtWork(p) /\ c \in Chat /\ Elsewhere(c) /\ (GoesOn(p) \/ Ended(p, c))
<1>1. AtWork(p) /\ c \in Chat
  BY DEF RevokeCopies, Unlink, DeleteRow, DeleteCopies, AtWork, SharingInv, HasChat
<1>2. chat \in [Chat -> ChatRow]
  BY DEF SharingInv, TypeOK
<1>3. ASSUME copies' = WithoutCopiesOf(c), UNCHANGED chat
      PROVE  CopiesOf(c)' = {} /\ Elsewhere(c)
  BY <1>3 DEF WithoutCopiesOf, CopiesOf, Elsewhere, RowsOf
<1>4. CASE RevokeCopies(p)
  <2> DEFINE h == [At("unlink", c) EXCEPT !.ok = FALSE]
  <2>1. /\ At("unlink", c).pc = "unlink" /\ At("unlink", c).chat = c
        /\ h.pc = "unlink" /\ h.chat = c /\ h.ok = FALSE
    BY DEF At
  <2> HIDE DEF h
  <2>2. CASE copies' = WithoutCopiesOf(c) /\ Goto(p, At("unlink", c))
    <3>1. CopiesOf(c)' = {} /\ Elsewhere(c)
      BY <1>3, <1>4, <2>2 DEF RevokeCopies
    <3>2. proc'[p].pc = "unlink" /\ proc'[p].chat = c
      BY <2>1, <2>2, GotoIs
    <3> QED
      BY <1>1, <3>1, <3>2 DEF GoesOn, AtWork, Taken, Given
  <2>3. CASE UNCHANGED copies /\ Goto(p, h)
    <3>1. proc'[p].pc = "unlink" /\ proc'[p].chat = c /\ proc'[p].ok = FALSE
      BY <2>1, <2>3, GotoIs
    <3>2. Elsewhere(c)
      BY <1>4, <2>3 DEF RevokeCopies, Elsewhere, RowsOf, CopiesOf
    <3> QED
      BY <1>1, <3>1, <3>2 DEF GoesOn, AtWork, Taken, Given
  <2> QED
    BY <1>4, <2>2, <2>3 DEF RevokeCopies, h
<1>5. CASE Unlink(p)
  <2>1. PICK a \in {"unshared", "failed"} :
          /\ Reply(p, a) /\ UNCHANGED copies /\ proc[p].pc = "unlink"
          /\ chat' = chat \/ chat' = [chat EXCEPT ![c].share = NoShare]
          /\ a = "unshared" => proc[p].ok /\ chat' = [chat EXCEPT ![c].share = NoShare]
    BY <1>5 DEF Unlink
  <2>2. Elsewhere(c)
    BY <1>1, <1>2, <2>1 DEF Elsewhere, RowsOf, CopiesOf
  <2>3. a = "unshared" => chat'[c].share = NoShare
    BY <1>1, <1>2, <2>1 DEF ChatRow
  <2>4. a = "unshared" /\ Taken(p) => CopiesOf(c)' = {} /\ ~ Shared(c)'
    BY <2>1, <2>3 DEF Taken, CopiesOf, Shared
  <2> QED
    BY <1>1, <2>1, <2>2, <2>4, ReplyIs DEF Ended, EndsAs, Answer
<1>6. CASE DeleteRow(p)
  <2> DEFINE h == [proc[p] EXCEPT !.pc = "deleteCopies"]
  <2>1. /\ chat' = RowsGone(IF proc[p].own THEN {c} ELSE {})
        /\ UNCHANGED copies /\ Goto(p, h)
    BY <1>6 DEF DeleteRow
  <2>2. /\ proc[p].own => ~ chat'[c].exists
        /\ \A d \in Chat \ {c} : chat'[d] = chat[d]
    BY <1>1, <1>2, <2>1 DEF RowsGone, ChatRow
  <2>3. proc'[p].pc = "deleteCopies" /\ proc'[p].chat = c /\ proc'[p].own = proc[p].own
    <3>1. h.pc = "deleteCopies" /\ h.chat = c /\ h.own = proc[p].own
      BY DEF SharingInv, TypeOK, Handler
    <3> QED
      BY <2>1, <3>1, GotoIs
  <2>4. GoesOn(p)
    BY <2>2, <2>3 DEF GoesOn, AtWork, Taken, Given
  <2>5. Elsewhere(c)
    BY <2>1, <2>2 DEF Elsewhere, RowsOf, CopiesOf
  <2> QED
    BY <1>1, <2>4, <2>5
<1>7. CASE DeleteCopies(p)
  <2>1. /\ copies' = WithoutCopiesOf(c) /\ UNCHANGED chat /\ Reply(p, "deleted")
        /\ proc[p].pc = "deleteCopies"
    BY <1>7 DEF DeleteCopies
  <2>2. Taken(p) => /\ CopiesOf(c)' = {} /\ (Shared(c)' => Shared(c))
                    /\ proc[p].own => ~ chat'[c].exists
    BY <1>3, <2>1 DEF Taken, Shared
  <2> QED
    BY <1>1, <1>3, <2>1, <2>2, ReplyIs DEF Ended, EndsAs, Answer
<1> QED
  BY <1>4, <1>5, <1>6, <1>7

LEMMA DeletesAll ==
  ASSUME SharingInv, NEW p \in Process, DeleteListedCopies(p) \/ DeleteAllRows(p),
         proc[p].chat = NoChat
  PROVE  /\ AtWork(p)
         /\ GoesOn(p) \/ (Ended(p, NoChat) /\ proc'[p].answer = "allDeleted")
<1>1. CASE DeleteListedCopies(p)
  <2>1. proc'[p].pc = "allRows" /\ proc'[p].chat = NoChat /\ proc[p].pc = "listed"
    BY <1>1, GotoIs DEF DeleteListedCopies, At
  <2> QED
    BY <2>1 DEF GoesOn, AtWork, Taken, Given
<1>2. CASE DeleteAllRows(p)
  <2>1. Reply(p, "allDeleted") /\ chat' = RowsGone(Chat) /\ proc[p].pc = "allRows"
    BY <1>2 DEF DeleteAllRows
  <2>2. \A d \in Chat : ~ chat'[d].exists
    BY <2>1 DEF RowsGone, SharingInv, TypeOK, ChatRow
  <2> QED
    BY <2>1, <2>2, ReplyIs DEF Ended, EndsAs, AtWork, Answer
<1> QED
  BY <1>1, <1>2

\* A handler that fails or dies.
LEMMA BreaksOff ==
  ASSUME SharingInv, NEW p \in Process, Fail(p) \/ Crash(p)
  PROVE  /\ AtWork(p) /\ ~ AtWork(p)' /\ proc'[p].answer \in {"failed", "none"}
         /\ UNCHANGED <<chat, copies>>
BY GotoIs, ReplyIs DEF Fail, Crash, AtWork, Idle

\* A handler begins, and what it finds is given.
LEMMA Begins ==
  ASSUME SharingInv, NEW p \in Process,
         \/ \E c \in Chat : ShareChat(p, c) \/ UnshareChat(p, c) \/ DeleteChat(p, c)
         \/ DeleteAll(p)
  PROVE  /\ ~ AtWork(p) /\ AtWork(p)' /\ UNCHANGED <<chat, copies>>
         /\ proc'[p].pc \in {"listed", "allRows"} => proc'[p].chat = NoChat
         /\ Taken(p)'
         /\ LET c == proc'[p].chat IN
              (c \in Chat /\ chat[c].exists => InOrder(c)) => Given(p)'
<1>1. CASE DeleteAll(p)
  <2> DEFINE h == [At("listed", NoChat) EXCEPT !.listed = {c \in Chat : chat[c].exists}]
  <2>1. h.pc = "listed" /\ h.chat = NoChat
    BY DEF At
  <2> HIDE DEF h
  <2>2. proc'[p] = h
    BY <1>1, GotoIs DEF DeleteAll, h
  <2> QED
    BY <1>1, <2>1, <2>2 DEF DeleteAll, AtWork, Taken, Given
<1>2. ASSUME NEW c \in Chat, ShareChat(p, c) \/ UnshareChat(p, c) \/ DeleteChat(p, c)
      PROVE  /\ ~ AtWork(p) /\ AtWork(p)' /\ UNCHANGED <<chat, copies>>
             /\ proc'[p].pc \notin {"listed", "allRows"}
             /\ Taken(p)'
             /\ proc'[p].chat = c /\ chat[c].exists /\ (InOrder(c) => Given(p)')
  <2>1. PICK pc \in {"refresh", "insert", "revoke", "deleteRow"}, b \in BOOLEAN :
          /\ Goto(p, At(pc, c)) \/ Goto(p, [At(pc, c) EXCEPT !.own = b])
          /\ UNCHANGED <<chat, copies>> /\ proc[p].pc = "idle"
          /\ pc = "refresh" => Shared(c)
          /\ chat[c].exists
          /\ pc = "insert" => chat[c].exists /\ ~ Shared(c)
    BY <1>2 DEF ShareChat, UnshareChat, DeleteChat, Shared
  <2>2. proc'[p].pc = pc /\ proc'[p].chat = c
    BY <2>1, GotoIs DEF At
  <2>3. InOrder(c) => Given(p)'
    BY <2>1, <2>2 DEF InOrder, Given, Shared, CopiesOf
  <2> QED
    BY <2>1, <2>2, <2>3 DEF AtWork, Taken
<1> QED
  BY <1>1, <1>2

\* An edit, and the deletion of a folder, are done in one step.
LEMMA AtOnce ==
  ASSUME SharingInv, NEW p \in Process,
         \/ \E c \in Chat : EditChat(p, c)
         \/ \E C \in SUBSET Chat : DeleteFolderChats(p, C)
  PROVE  /\ ~ AtWork(p) /\ ~ AtWork(p)'
         /\ \A c \in Chat : /\ chat'[c].exists => chat[c].exists
                            /\ chat'[c].exists /\ InOrder(c) => InOrder(c)'
<1>1. chat \in [Chat -> ChatRow]
  BY DEF SharingInv, TypeOK
<1>2. ASSUME NEW c \in Chat, NEW d \in Chat, EditChat(p, d)
      PROVE  UNCHANGED copies /\ chat'[c].exists = chat[c].exists /\ chat'[c].share = chat[c].share
  BY <1>1, <1>2 DEF EditChat, ChatRow
<1>3. ASSUME NEW c \in Chat, NEW C \in SUBSET Chat, DeleteFolderChats(p, C)
      PROVE  UNCHANGED copies /\ (chat'[c].exists => chat'[c] = chat[c])
  <2>1. UNCHANGED copies /\ chat' = RowsGone(C)
    BY <1>3 DEF DeleteFolderChats
  <2>2. chat'[c] = IF c \in C THEN [chat[c] EXCEPT !.exists = FALSE, !.share = NoShare]
                             ELSE chat[c]
    BY <2>1 DEF RowsGone
  <2>3. CASE c \in C
    BY <1>1, <2>1, <2>2, <2>3 DEF ChatRow
  <2>4. CASE c \notin C
    BY <2>1, <2>2, <2>4
  <2> QED
    BY <2>3, <2>4
<1>4. ~ AtWork(p) /\ ~ AtWork(p)'
  <2>1. \A c, a : Idle(c, a).pc = "idle"
    BY DEF Idle
  <2>2. proc[p].pc = "idle" /\ \E c, a : Goto(p, Idle(c, a))
    BY DEF EditChat, DeleteFolderChats
  <2> QED
    BY <2>1, <2>2, GotoIs DEF AtWork
<1>5. \A c \in Chat : /\ UNCHANGED copies
                      /\ chat'[c].exists => chat[c].exists /\ chat'[c].share = chat[c].share
  BY <1>2, <1>3
<1>6. ASSUME NEW c \in Chat, chat'[c].exists, InOrder(c) PROVE InOrder(c)'
  <2>1. CopiesOf(c)' = CopiesOf(c) /\ (Shared(c)' <=> Shared(c)) /\ chat'[c].share = chat[c].share
    BY <1>5, <1>6 DEF Shared, CopiesOf
  <2> QED
    BY <1>5, <1>6, <2>1 DEF InOrder
<1> QED
  BY <1>4, <1>5, <1>6

\* The handler of p moves, and no other.
BeginStep(p) ==
  /\ ~ AtWork(p) /\ AtWork(p)' /\ UNCHANGED <<chat, copies>>
  /\ proc'[p].pc \in {"listed", "allRows"} => proc'[p].chat = NoChat
  /\ Taken(p)'
  /\ LET c == proc'[p].chat IN (c \in Chat /\ chat[c].exists => InOrder(c)) => Given(p)'
OnceStep(p) ==
  /\ ~ AtWork(p) /\ ~ AtWork(p)'
  /\ \A c \in Chat : /\ chat'[c].exists => chat[c].exists
                     /\ chat'[c].exists /\ InOrder(c) => InOrder(c)'
BreakStep(p) ==
  /\ AtWork(p) /\ ~ AtWork(p)' /\ proc'[p].answer \in {"failed", "none"}
  /\ UNCHANGED <<chat, copies>>
WorkStep(p) ==
  /\ AtWork(p)
  /\ \A d \in Chat \ HandledBy(p) : RowsOf(d)' = RowsOf(d)
  /\ \E c \in Chat \cup {NoChat} :
       /\ c = proc[p].chat
       /\ GoesOn(p) \/ (Ended(p, c) /\ (c = NoChat => proc'[p].answer = "allDeleted"))

LEMMA HandlerSteps ==
  ASSUME SharingInv, Next,
         \A p \in Process : proc[p].pc \in {"listed", "allRows"} => proc[p].chat = NoChat
  PROVE  \E p \in Process :
           /\ \A q \in Process \ {p} : proc'[q] = proc[q]
           /\ BeginStep(p) \/ OnceStep(p) \/ BreakStep(p) \/ WorkStep(p)
<1>1. PICK p \in Process :
        \/ \E c \in Chat : ShareChat(p, c) \/ UnshareChat(p, c) \/ DeleteChat(p, c)
                           \/ EditChat(p, c)
        \/ \E C \in SUBSET Chat : DeleteFolderChats(p, C)
        \/ DeleteAll(p) \/ HandlerStep(p) \/ Fail(p) \/ Crash(p)
  BY DEF Next
<1>2. \A q \in Process \ {p} : proc'[q] = proc[q]
  <2>1. \E h : Goto(p, h)
    BY <1>1 DEF ShareChat, UnshareChat, DeleteChat, EditChat, DeleteFolderChats, DeleteAll,
       HandlerStep, Fail, Crash, FindCopy, WriteCopy, ReadForInsert, InsertCopy, LinkCopy,
       RevokeCopies, Unlink, DeleteRow, DeleteCopies, DeleteListedCopies, DeleteAllRows, Reply
  <2> QED
    BY <2>1, GotoIs
<1>3. CASE (\E c \in Chat : ShareChat(p, c) \/ UnshareChat(p, c) \/ DeleteChat(p, c)) \/ DeleteAll(p)
  BY <1>2, <1>3, Begins DEF BeginStep
<1>4. CASE (\E c \in Chat : EditChat(p, c)) \/ \E C \in SUBSET Chat : DeleteFolderChats(p, C)
  BY <1>2, <1>4, AtOnce DEF OnceStep
<1>5. CASE Fail(p) \/ Crash(p)
  BY <1>2, <1>5, BreaksOff DEF BreakStep
<1>6. CASE DeleteListedCopies(p) \/ DeleteAllRows(p)
  <2>1. proc[p].chat = NoChat
    BY <1>6 DEF DeleteListedCopies, DeleteAllRows
  <2>2. AtWork(p) /\ (GoesOn(p) \/ (Ended(p, NoChat) /\ proc'[p].answer = "allDeleted"))
    BY <1>6, <2>1, DeletesAll
  <2> QED
    BY <1>2, <2>1, <2>2 DEF WorkStep, HandledBy
<1>7. CASE HandlerStep(p) /\ ~ (DeleteListedCopies(p) \/ DeleteAllRows(p))
  <2>1. PICK c : c = proc[p].chat
    OBVIOUS
  <2>2. AtWork(p) /\ c \in Chat /\ Elsewhere(c) /\ (GoesOn(p) \/ Ended(p, c))
    BY <1>7, <2>1, SharesShared, SharesAnew, TakesBack DEF HandlerStep
  <2>3. c # NoChat
    BY <2>2, ConstantsAssumption
  <2> QED
    BY <1>2, <2>1, <2>2, <2>3 DEF WorkStep, HandledBy, Elsewhere
<1> QED
  BY <1>1, <1>3, <1>4, <1>5, <1>6, <1>7

LEMMA RowsKept ==
  ASSUME NEW c, RowsOf(c)' = RowsOf(c)
  PROVE  /\ chat'[c] = chat[c] /\ CopiesOf(c)' = CopiesOf(c)
         /\ Shared(c)' <=> Shared(c)
         /\ InOrder(c) <=> InOrder(c)'
<1>1. chat'[c] = chat[c] /\ CopiesOf(c)' = CopiesOf(c)
  BY DEF RowsOf
<1>2. Shared(c)' <=> Shared(c)
  BY <1>1 DEF Shared
<1>3. \A k : CopiesOf(c) = {k} => k \in copies /\ k \in copies'
  BY <1>1 DEF CopiesOf
<1> QED
  BY <1>1, <1>2, <1>3 DEF InOrder

\* A handler that nothing disturbs stays on its course while others move.
LEMMA CourseKept ==
  ASSUME SharingInv, NEW q \in Process, AtWork(q), proc'[q] = proc[q],
         \A c \in HandledBy(q) : RowsOf(c)' = RowsOf(c)
  PROVE  (Taken(q) => Taken(q)') /\ (Given(q) => Given(q)')
<1>1. PICK c : c = proc[q].chat
  OBVIOUS
<1>2. CASE proc[q].pc \in {"listed", "allRows"}
  BY <1>2 DEF Taken, Given
<1>3. CASE proc[q].pc \notin {"listed", "allRows"}
  <2>1. c \in Chat /\ c # NoChat
    BY <1>1, <1>3, ConstantsAssumption DEF AtWork, SharingInv, HasChat
  <2>2. RowsOf(c)' = RowsOf(c)
    BY <1>1, <2>1 DEF HandledBy
  <2>3. /\ chat'[c] = chat[c] /\ CopiesOf(c)' = CopiesOf(c)
        /\ Shared(c)' <=> Shared(c)
        /\ InOrder(c) <=> InOrder(c)'
    BY <2>2, RowsKept
  <2>4. Taken(q) => Taken(q)'
    BY <1>1, <2>3 DEF Taken
  <2>5. Given(q) => Given(q)'
    BY <1>1, <2>3 DEF Given
  <2> QED
    BY <2>4, <2>5
<1> QED
  BY <1>2, <1>3

LEMMA RepairNext == SharingInv /\ RepairInv /\ NextR => RepairInv'
<1> SUFFICES ASSUME SharingInv, RepairInv, NextR PROVE RepairInv'
  OBVIOUS
<1>1. PICK p \in Process :
        /\ \A q \in Process \ {p} : proc'[q] = proc[q]
        /\ BeginStep(p) \/ OnceStep(p) \/ BreakStep(p) \/ WorkStep(p)
  BY HandlerSteps DEF RepairInv, NextR
\* The others, and what the history variables say of them.
<1>2. \A q \in Process \ {p} : /\ AtWork(q)' <=> AtWork(q)
                               /\ HandledBy(q)' = HandledBy(q)
                               /\ ~ Ends(q)
  BY <1>1 DEF AtWork, HandledBy, Ends
<1>3. ASSUME NEW q \in Process \ {p}, AtWork(q), q \notin touched'
      PROVE  q \notin touched /\ \A c \in HandledBy(q) : RowsOf(c)' = RowsOf(c)
  <2>1. proc'[q].pc # "idle" /\ proc'[q] = proc[q]
    BY <1>1, <1>3 DEF AtWork
  <2>2. q \notin touched /\ ~ Disturbed(q)
    BY <1>3, <2>1 DEF NextR
  <2> QED
    BY <2>1, <2>2 DEF Disturbed
<1>4. ASSUME AtWork(p)', p \notin touched'
      PROVE  /\ p \notin touched
             /\ ~ AtWork(p) => \A q \in Process \ {p} :
                                 AtWork(q) => HandledBy(q) \cap HandledBy(p)' = {}
  <2>1. p \notin touched /\ ~ Disturbed(p)
    BY <1>4 DEF NextR, AtWork
  <2> QED
    BY <2>1 DEF Disturbed, AtWork
<1>5. ASSUME NEW c \in Chat, c \notin broken'
      PROVE  /\ c \notin broken \/ (Answers(p, "unshared") /\ proc[p].chat = c)
             /\ EndsBadly(p) => c \notin HandledBy(p)
  <2> DEFINE U == UNION {HandledBy(q) : q \in {r \in Process : EndsBadly(r)}}
             X == {d \in Chat : \E q \in Process : Answers(q, "unshared") /\ proc[q].chat = d}
  <2>1. broken' = U \cup (broken \ X)
    BY DEF NextR
  <2>2. EndsBadly(p) => HandledBy(p) \subseteq U
    OBVIOUS
  <2>3. c \in X => \E q \in Process : Answers(q, "unshared") /\ proc[q].chat = c
    OBVIOUS
  <2> HIDE DEF X, U
  <2>4. \A q \in Process : Answers(q, "unshared") => q = p
    BY <1>2 DEF Answers
  <2> QED
    BY <1>5, <2>1, <2>2, <2>3, <2>4
<1>6. \A q \in Process : proc'[q].pc \in {"listed", "allRows"} => proc'[q].chat = NoChat
  BY <1>1 DEF RepairInv, BeginStep, OnceStep, BreakStep, WorkStep, GoesOn, Ended, AtWork
<1>7. \A q \in touched' : AtWork(q)'
  BY DEF NextR, AtWork
<1>8. GoesOn(p) => HandledBy(p)' = HandledBy(p) /\ AtWork(p)' /\ ~ Ends(p)
  BY DEF GoesOn, HandledBy, Ends, AtWork
<1>9. ASSUME NEW q \in Process \ touched', NEW r \in Process \ touched',
             q # r, AtWork(q)', AtWork(r)'
      PROVE  HandledBy(q)' \cap HandledBy(r)' = {}
  <2>1. AtWork(p)' => (GoesOn(p) /\ AtWork(p)) \/ ~ AtWork(p)
    BY <1>1 DEF BeginStep, OnceStep, BreakStep, WorkStep, Ended
  <2>2. ASSUME NEW s \in Process \ touched', s # p, AtWork(s)', AtWork(p)', p \notin touched'
        PROVE  HandledBy(s)' \cap HandledBy(p)' = {}
    BY <1>2, <1>3, <1>4, <1>8, <2>1, <2>2 DEF RepairInv
  <2>3. CASE q = p
    BY <1>9, <2>2, <2>3
  <2>4. CASE r = p
    BY <1>9, <2>2, <2>4
  <2>5. CASE q # p /\ r # p
    BY <1>2, <1>3, <1>9, <2>5 DEF RepairInv
  <2> QED
    BY <2>3, <2>4, <2>5
<1>10. ASSUME NEW q \in Process \ touched', q # p
       PROVE  Taken(q)' /\ (AtWork(q)' /\ proc'[q].chat \notin broken' => Given(q)')
  <2>1. CASE ~ AtWork(q)
    BY <1>1, <1>10, <2>1 DEF Taken, AtWork
  <2>2. CASE AtWork(q)
    <3>1. q \notin touched /\ \A c \in HandledBy(q) : RowsOf(c)' = RowsOf(c)
      BY <1>3, <1>10, <2>2
    <3>2. (Taken(q) => Taken(q)') /\ (Given(q) => Given(q)')
      BY <1>1, <1>10, <2>2, <3>1, CourseKept
    <3>3. Taken(q) /\ (proc[q].chat \notin broken => Given(q))
      BY <2>2, <3>1 DEF RepairInv
    <3>4. CASE proc[q].chat \in Chat /\ proc[q].chat \notin broken'
      <4>1. PICK c \in Chat : c = proc[q].chat /\ c \notin broken'
        BY <3>4
      <4>2. c \notin broken
        <5> SUFFICES ASSUME Answers(p, "unshared"), proc[p].chat = c PROVE FALSE
          BY <1>5, <4>1
        <5>1. AtWork(p) /\ p \notin touched
          BY DEF Answers, Ends, AtWork
        <5>2. HandledBy(p) \cap HandledBy(q) = {}
          BY <1>10, <2>2, <3>1, <5>1 DEF RepairInv
        <5> QED
          BY <4>1, <5>2, ConstantsAssumption DEF HandledBy
      <4> QED
        BY <3>2, <3>3, <4>1, <4>2
    <3>5. CASE proc[q].chat \notin Chat
      <4>1. proc'[q].pc \in {"listed", "allRows"}
        BY <1>1, <1>10, <2>2, <3>5 DEF SharingInv, HasChat, AtWork
      <4> QED
        BY <3>2, <3>3, <4>1 DEF Given
    <3> QED
      BY <1>1, <1>10, <3>2, <3>3, <3>4, <3>5
  <2> QED
    BY <2>1, <2>2
<1>11. ASSUME p \notin touched'
       PROVE  Taken(p)' /\ (AtWork(p)' /\ proc'[p].chat \notin broken' => Given(p)')
  <2>1. CASE ~ AtWork(p)'
    BY <2>1 DEF Taken, AtWork
  <2>2. CASE AtWork(p) /\ AtWork(p)'
    <3>1. GoesOn(p)
      BY <1>1, <2>2 DEF BeginStep, OnceStep, BreakStep, WorkStep, Ended
    <3>2. PICK c : c = proc[p].chat /\ c = proc'[p].chat
      BY <3>1 DEF GoesOn
    <3>3. p \notin touched
      BY <1>4, <1>11, <2>2
    <3>4. CASE c \in Chat
      <4>1. c \notin broken' => c \notin broken
        BY <1>5, <1>8, <3>1, <3>4 DEF Answers
      <4> QED
        BY <2>2, <3>1, <3>2, <3>3, <4>1 DEF GoesOn, RepairInv
    <3>5. CASE c \notin Chat
      <4>1. proc[p].pc \in {"listed", "allRows"}
        BY <2>2, <3>2, <3>5 DEF SharingInv, HasChat, AtWork
      <4>2. Given(p)
        BY <4>1 DEF Given
      <4> QED
        BY <3>1, <4>2 DEF GoesOn
    <3> QED
      BY <3>4, <3>5
  <2>3. CASE ~ AtWork(p) /\ AtWork(p)'
    <3>1. BeginStep(p)
      BY <1>1, <2>3 DEF OnceStep, BreakStep, WorkStep
    <3>2. PICK c : c = proc'[p].chat
      OBVIOUS
    <3>3. ASSUME c \in Chat, c \notin broken', chat[c].exists PROVE InOrder(c)
      <4>1. c \notin broken
        BY <1>5, <2>3, <3>3 DEF Answers, Ends, AtWork
      <4>2. \A q \in Process : AtWork(q) => c \notin HandledBy(q)
        <5>1. c \in HandledBy(p)'
          BY <3>2, <3>3, ConstantsAssumption DEF HandledBy
        <5> QED
          BY <1>4, <1>11, <2>3, <5>1
      <4> QED
        BY <3>3, <4>1, <4>2 DEF RepairInv
    <3> QED
      BY <3>1, <3>2, <3>3 DEF BeginStep
  <2> QED
    BY <2>1, <2>2, <2>3
<1>12. ASSUME NEW c \in Chat, c \notin broken', chat'[c].exists,
              \A q \in Process : AtWork(q)' => c \notin HandledBy(q)'
       PROVE  InOrder(c)'
  <2>1. \A q \in Process \ {p} : AtWork(q) => c \notin HandledBy(q)
    BY <1>2, <1>12
  <2>2. ASSUME c \notin broken, AtWork(p) => c \notin HandledBy(p), chat[c].exists
        PROVE  InOrder(c)
    BY <2>1, <2>2 DEF RepairInv
  <2>3. c \notin broken \/ (Answers(p, "unshared") /\ proc[p].chat = c)
    BY <1>5, <1>12
  <2>4. ASSUME UNCHANGED <<chat, copies>> PROVE RowsOf(c)' = RowsOf(c)
    BY <2>4 DEF RowsOf, CopiesOf
  <2>5. CASE BeginStep(p)
    <3>1. c \notin broken
      BY <2>3, <2>5 DEF BeginStep, Answers, Ends, AtWork
    <3> QED
      BY <1>12, <2>2, <2>4, <2>5, <3>1, RowsKept DEF BeginStep
  <2>6. CASE OnceStep(p)
    <3>1. c \notin broken
      BY <2>3, <2>6 DEF OnceStep, Answers, Ends, AtWork
    <3> QED
      BY <1>12, <2>2, <2>6, <3>1 DEF OnceStep
  <2>7. CASE BreakStep(p)
    <3>1. c \notin broken /\ c \notin HandledBy(p)
      BY <1>5, <1>12, <2>3, <2>7 DEF BreakStep, Answers, Ends, EndsBadly, AtWork
    <3> QED
      BY <1>12, <2>2, <2>4, <2>7, <3>1, RowsKept DEF BreakStep
  <2>8. CASE WorkStep(p) /\ c \notin HandledBy(p)
    <3>1. RowsOf(c)' = RowsOf(c)
      BY <2>8 DEF WorkStep
    <3>2. c \notin broken
      BY <2>3, <2>8, ConstantsAssumption DEF HandledBy
    <3> QED
      BY <1>12, <2>2, <2>8, <3>1, <3>2, RowsKept
  <2>9. CASE WorkStep(p) /\ c \in HandledBy(p)
    <3>1. PICK d \in Chat \cup {NoChat} :
            /\ d = proc[p].chat /\ Ended(p, d)
            /\ d = NoChat => proc'[p].answer = "allDeleted"
      BY <1>8, <1>12, <2>9 DEF WorkStep
    <3> DEFINE a == proc'[p].answer
    <3>2. Ends(p) /\ ~ EndsBadly(p)
      BY <1>5, <1>12, <2>9, <3>1 DEF WorkStep, Ended, Ends, AtWork
    <3>3. p \notin touched /\ a \in {"shared", "unshared", "deleted", "allDeleted"}
      BY <3>1, <3>2 DEF EndsBadly, Ended, Answer
    <3>4. Taken(p) /\ (d \notin broken => Given(p))
      BY <2>9, <3>1, <3>3 DEF RepairInv, WorkStep
    <3>5. CASE a = "allDeleted"
      BY <1>12, <3>1, <3>5 DEF Ended, EndsAs
    <3>6. CASE a # "allDeleted"
      <4>1. d = c
        BY <2>9, <3>1, <3>6 DEF HandledBy
      <4>2. CASE a = "deleted"
        <5>1. ~ Shared(c)
          BY <1>12, <3>1, <3>2, <3>4, <4>1, <4>2
             DEF Ended, EndsAs, EndsBadly, TakesAnothers, SharingInv, TypeOK, Handler
        <5> QED
          BY <3>1, <3>4, <4>1, <4>2, <5>1 DEF Ended, EndsAs, InOrder
      <4>3. CASE a = "unshared"
        BY <3>1, <3>4, <4>1, <4>3 DEF Ended, EndsAs, InOrder
      <4>4. CASE a = "shared"
        <5>1. c \notin broken
          BY <2>3, <4>4 DEF Answers
        <5> QED
          BY <3>1, <3>4, <4>1, <4>4, <5>1 DEF Ended, EndsAs
      <4> QED
        BY <3>3, <3>6, <4>2, <4>3, <4>4
    <3> QED
      BY <3>5, <3>6
  <2> QED
    BY <1>1, <2>5, <2>6, <2>7, <2>8, <2>9
<1> QED
  BY <1>6, <1>7, <1>9, <1>10, <1>11, <1>12 DEF RepairInv

LEMMA RepairStep ==
  SharingInv /\ RepairInv /\ [NextR]_<<vars, touched, broken>> => RepairInv'
<1> SUFFICES ASSUME SharingInv, RepairInv, UNCHANGED <<vars, touched, broken>>
             PROVE  RepairInv'
  BY RepairNext
<1>1. /\ proc' = proc /\ chat' = chat /\ copies' = copies
      /\ touched' = touched /\ broken' = broken
  BY DEF vars
<1>2. \A c \in Chat : RowsOf(c)' = RowsOf(c)
  BY <1>1 DEF RowsOf, CopiesOf
<1>3. \A c \in Chat : InOrder(c) <=> InOrder(c)'
  BY <1>2, RowsKept
<1>4. \A p \in Process : /\ AtWork(p)' <=> AtWork(p)
                         /\ HandledBy(p)' = HandledBy(p)
  BY <1>1 DEF AtWork, HandledBy
<1>5. ASSUME NEW p \in Process
      PROVE  (Taken(p) => Taken(p)') /\ (AtWork(p) /\ Given(p) => Given(p)')
  <2>1. CASE AtWork(p)
    <3>1. \A c \in HandledBy(p) : RowsOf(c)' = RowsOf(c)
      BY <1>1 DEF RowsOf, CopiesOf
    <3> QED
      BY <1>1, <2>1, <3>1, CourseKept
  <2>2. CASE ~ AtWork(p)
    BY <1>1, <2>2 DEF AtWork, Taken
  <2> QED
    BY <2>1, <2>2
<1>6. ASSUME NEW p \in Process \ touched'
      PROVE  Taken(p)' /\ (AtWork(p)' /\ proc'[p].chat \notin broken' => Given(p)')
  BY <1>1, <1>4, <1>5, <1>6 DEF RepairInv
<1>7. ASSUME NEW c \in Chat \ broken', chat'[c].exists,
             \A p \in Process : AtWork(p)' => c \notin HandledBy(p)'
      PROVE  InOrder(c)'
  BY <1>1, <1>3, <1>4, <1>7 DEF RepairInv
<1>8. /\ \A p \in Process : proc'[p].pc \in {"listed", "allRows"} => proc'[p].chat = NoChat
      /\ \A p \in touched' : AtWork(p)'
  BY <1>1 DEF RepairInv, AtWork
<1>9. ASSUME NEW p \in Process \ touched', NEW q \in Process \ touched',
             p # q, AtWork(p)', AtWork(q)'
      PROVE  HandledBy(p)' \cap HandledBy(q)' = {}
  BY <1>1, <1>4, <1>9 DEF RepairInv
<1> QED
  BY <1>6, <1>7, <1>8, <1>9 DEF RepairInv

LEMMA RepairInit == InitR => RepairInv
<1> SUFFICES ASSUME InitR PROVE RepairInv
  OBVIOUS
<1>1. touched = {} /\ copies = {} /\ \A p \in Process : proc[p].pc = "idle"
  BY DEF InitR, Init, Idle
<1>2. \A c \in Chat : ~ Shared(c) /\ CopiesOf(c) = {}
  BY <1>1 DEF InitR, Init, Shared, CopiesOf
<1> QED
  BY <1>1, <1>2 DEF RepairInv, AtWork, Taken, InOrder

LEMMA RepairInvariant == SpecR => [](SharingInv /\ RepairInv)
<1>1. InitR => SharingInv /\ RepairInv
  BY RepairInit, InitInv DEF InitR
<1>2. [NextR]_<<vars, touched, broken>> => [Next]_vars
  BY DEF NextR
<1>3. SharingInv /\ RepairInv /\ [NextR]_<<vars, touched, broken>> => (SharingInv /\ RepairInv)'
  BY <1>2, RepairStep, StepInv
<1> QED
  BY <1>1, <1>3, PTL DEF SpecR

\* Between handlers a chat has a link exactly when it has a copy, and one copy
\* at most, unless a handler of that chat failed, died or was disturbed and no
\* unshare has cleared up since (share_chat_by_id, delete_shared_chat_by_id).
THEOREM LinksMatchCopies == SpecR => []LinkMatchesCopy
<1>1. SharingInv /\ RepairInv => LinkMatchesCopy
  <2> SUFFICES ASSUME SharingInv, RepairInv, \A p \in Process : proc[p].pc = "idle",
                      NEW c \in Chat \ broken, chat[c].exists
               PROVE  /\ CopiesOf(c) = {k \in copies : k.id = chat[c].share}
                      /\ Cardinality(CopiesOf(c)) = (IF Shared(c) THEN 1 ELSE 0)
    BY DEF LinkMatchesCopy
  <2>1. InOrder(c)
    BY DEF RepairInv, AtWork
  <2>2. \A k \in copies : k.id # NoShare
    BY ConstantsAssumption DEF SharingInv, TypeOK, Copy
  <2>3. CASE ~ Shared(c)
    <3>1. chat[c].share = NoShare /\ CopiesOf(c) = {}
      BY <2>1, <2>3 DEF Shared, InOrder
    <3> QED
      BY <2>2, <2>3, <3>1, FS_EmptySet
  <2>4. CASE Shared(c)
    <3>1. PICK k \in copies : CopiesOf(c) = {k} /\ k.id = chat[c].share
      BY <2>1, <2>4 DEF InOrder
    <3>2. \A m \in copies : m.id = chat[c].share => m = k
      BY <3>1, <2>4 DEF SharingInv, LinkServesItsChat
    <3>3. CopiesOf(c) = {m \in copies : m.id = chat[c].share}
      BY <3>1, <3>2
    <3>4. Cardinality(CopiesOf(c)) = 1
      BY <3>1, FS_Singleton
    <3> QED
      BY <2>4, <3>3, <3>4
  <2> QED
    BY <2>3, <2>4
<1> QED
  BY <1>1, RepairInvariant, PTL

\* The handler that is answered with success, and what it leaves.
LEMMA WhatIsAnswered ==
  ASSUME SharingInv, RepairInv, Next, NEW p \in Process,
         NEW a \in {"shared", "unshared", "deleted"}, Answers(p, a)
  PROVE  \E c \in Chat :
           /\ c = proc[p].chat /\ c = proc'[p].chat
           /\ a = "shared" /\ c \notin broken => ServesNow(c)'
           /\ a = "unshared" => CopiesOf(c)' = {} /\ ~ Shared(c)'
           /\ a = "deleted" => CopiesOf(c)' = {} /\ (proc[p].own => ~ chat'[c].exists)
<1>1. PICK q \in Process :
        /\ \A r \in Process \ {q} : proc'[r] = proc[r]
        /\ BeginStep(q) \/ OnceStep(q) \/ BreakStep(q) \/ WorkStep(q)
  BY HandlerSteps DEF RepairInv
<1>2. p = q /\ AtWork(p) /\ ~ AtWork(p)' /\ p \notin touched /\ proc'[p].answer = a
  BY <1>1 DEF Answers, Ends, AtWork
<1>3. WorkStep(p)
  BY <1>1, <1>2 DEF BeginStep, OnceStep, BreakStep
<1>4. PICK c \in Chat \cup {NoChat} :
        c = proc[p].chat /\ Ended(p, c) /\ (c = NoChat => a = "allDeleted")
  BY <1>2, <1>3 DEF WorkStep, GoesOn
<1>5. c \in Chat
  BY <1>4
<1>6. Taken(p) /\ (c \notin broken => Given(p))
  BY <1>2, <1>4 DEF RepairInv
<1> QED
  BY <1>2, <1>4, <1>5, <1>6 DEF Ended, EndsAs

\* A share that is answered with success, undisturbed and of a chat in order,
\* leaves under its link a copy with the chat's content of that moment
\* (update_shared_chat_by_chat_id, insert_shared_chat_by_chat_id).
THEOREM SharesServeTheChat == SpecR => ShareServesCurrent
<1> DEFINE Serves ==
      \A p \in Process : Answers(p, "shared") /\ proc[p].chat \notin broken =>
        LET c == proc[p].chat IN
        \E k \in copies' : k.id = chat'[c].share /\ k.of = c
                             /\ k.version = chat'[c].version
<1>1. SharingInv /\ RepairInv /\ [NextR]_<<vars, touched, broken>> => [Serves]_vars
  <2> SUFFICES ASSUME SharingInv, RepairInv, NextR, NEW p \in Process,
                      Answers(p, "shared"), proc[p].chat \notin broken
               PROVE  LET c == proc[p].chat IN
                      \E k \in copies' : k.id = chat'[c].share /\ k.of = c
                                           /\ k.version = chat'[c].version
    BY DEF vars
  <2> QED
    BY WhatIsAnswered DEF NextR, ServesNow
<1> QED
  BY <1>1, RepairInvariant, PTL DEF SpecR, ShareServesCurrent

\* After an unshare or a deletion of a chat that was answered with success and
\* that nothing disturbed, no copy of the chat is left: also none that a crash,
\* a failed share or another process left before it began
\* (delete_shared_chat_by_chat_id, delete_chat_by_id).
THEOREM TakenBackIsGone == SpecR => TakenBackLeavesNoCopy
<1> DEFINE Unshares ==
      \A p \in Process : Answers(p, "unshared") =>
        LET c == proc[p].chat IN CopiesOf(c)' = {} /\ ~ Shared(c)'
    Deletes ==
      \A p \in Process : Answers(p, "deleted") =>
        LET c == proc[p].chat IN CopiesOf(c)' = {} /\ (proc[p].own => ~ chat'[c].exists)
<1>1. SharingInv /\ RepairInv /\ [NextR]_<<vars, touched, broken>> => [Unshares]_vars
  <2> SUFFICES ASSUME SharingInv, RepairInv, NextR, NEW p \in Process, Answers(p, "unshared")
               PROVE  LET c == proc[p].chat IN CopiesOf(c)' = {} /\ ~ Shared(c)'
    BY DEF vars
  <2> QED
    BY WhatIsAnswered DEF NextR, CopiesOf, Shared
<1>2. SharingInv /\ RepairInv /\ [NextR]_<<vars, touched, broken>> => [Deletes]_vars
  <2> SUFFICES ASSUME SharingInv, RepairInv, NextR, NEW p \in Process, Answers(p, "deleted")
               PROVE  LET c == proc[p].chat IN
                      CopiesOf(c)' = {} /\ (proc[p].own => ~ chat'[c].exists)
    BY DEF vars
  <2> QED
    BY WhatIsAnswered DEF NextR, CopiesOf
<1>3. SpecR => UnshareLeavesNoCopy
  BY <1>1, RepairInvariant, PTL DEF SpecR, UnshareLeavesNoCopy
<1>4. SpecR => DeleteLeavesNoCopy
  BY <1>2, RepairInvariant, PTL DEF SpecR, DeleteLeavesNoCopy
<1> QED
  BY <1>3, <1>4 DEF TakenBackLeavesNoCopy
=============================================================================
