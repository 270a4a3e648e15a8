-------------------------------- MODULE TagRows --------------------------------
(***************************************************************************)
(* What can be relied on between the tags that chats carry and the rows of *)
(* the tag table, as long as handlers neither fail nor get in each other's *)
(* way. History variables keep the handlers that another one has           *)
(* disturbed, and the tags whose rows are not what they should be.         *)
(***************************************************************************)
EXTENDS ChatTags

VARIABLES
  touched,  \* processes whose handler another one has disturbed
  lost,     \* tags that may be in use and have no row
  loose     \* tags that may have a row and no chat

history == <<touched, lost, loose>>

InitT == Init /\ touched = {} /\ lost = {} /\ loose = {}

Bearers(t) == {<<c, chat[c].archived, Spelt(c, t)>> : c \in {d \in Chat : Bears(d, t)}}

\* Another handler has changed what this one counts, or was at work on the same
\* tags when this one began.
Disturbed(p) ==
  \/ /\ proc'[p] = proc[p]
     /\ \E t \in proc[p].tags : Bearers(t)' # Bearers(t) \/ (t \in rows') # (t \in rows)
  \/ \E q \in Process \ {p} : (proc'[p].tags \ proc[p].tags) \cap proc[q].tags # {}

Ends(p) == ~ Is(p, "idle") /\ Is(p, "idle")'

\* The count leaves out a chat that is archived, one of another user and one
\* that has the tag under another spelling: that it is 1 does not say that the
\* chat to be deleted is the last.
Miscounts(p, t) ==
  /\ proc[p].op = "delete"
  /\ proc[p].chat = NoChat \/ chat[proc[p].chat].archived \/ ~ Carries(proc[p].chat, t)

EndsWell(p) ==
  /\ Ends(p) /\ AllDone(p) /\ proc[p].clean /\ p \notin touched
  /\ proc[p].op = "delete" => chat' # chat
Disorder ==
  {t \in Tag : \E p \in Process :
     t \in proc[p].tags /\ Ends(p) /\ (~ EndsWell(p) \/ Miscounts(p, t))}

\* Tags that leave a chat without a handler that is about them: the chat is
\* deleted with others, or has been given the tag since a handler read it.
LeftBehind ==
  {t \in Tag : \E c \in Chat :
     /\ Bears(c, t) /\ ~ Bears(c, t)'
     /\ \A p \in Process :
          proc'[p] # proc[p] => proc[p].chat # c \/ t \notin proc[p].tags}

NextT ==
  /\ Next
  /\ touched' = {p \in Process : ~ Is(p, "idle")' /\ (p \in touched \/ Disturbed(p))}
  /\ lost' = (lost \cup Disorder) \ rows'
  /\ loose' = (loose \cup Disorder \cup LeftBehind) \cap rows'

SpecT == InitT /\ [][NextT]_<<vars, history>>

----------------------------------------------------------------------------

InHand(t) == \E p \in Process : t \in proc[p].tags

\* A tag that a chat carries, spelt as its id, that is not archived has its
\* row, without which the user is not shown it, and cannot put it on that chat
\* again either.
UsedTagHasRow == \A t \in Tag : InUse(t) /\ ~ InHand(t) => t \in rows \cup lost

\* A tag that has a row is on a chat, in some spelling: the rows of tags that
\* are no longer used go (CHANGELOG: "Unused tags on the sidebar will now be
\* deleted automatically").
RowIsCarried ==
  \A t \in rows \ loose : InHand(t) \/ \E c \in Chat : Bears(c, t)

\* The tags that have a row, which are those the user is shown, are the tags of
\* the user's chats.
RowsMatchTags == UsedTagHasRow /\ RowIsCarried
=============================================================================
